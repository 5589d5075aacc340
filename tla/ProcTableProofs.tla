--------------------------- MODULE ProcTableProofs ---------------------------
(***************************************************************************)
(* The safety of the process table for every P1_MAXPROC, every set of      *)
(* priorities and tags and every sequence of calls.                        *)
(***************************************************************************)
EXTENDS ProcTable, QueueLemmas

-----------------------------------------------------------------------------
(* The operations on the dispatch queue, for every queue of every length:  *)
(* none loses, duplicates or invents a process, and the queue that         *)
(* P1Dispatch leaves has a process of the best priority at its head.       *)

(* RemoveAt: the elements behind the removed one move up by one. *)
LEMMA RemoveAtProps ==
  ASSUME NEW S, NEW q \in Seq(S), NEW i \in 1 .. Len(q)
  PROVE  /\ RemoveAt(q, i) \in Seq(S)
         /\ Len(RemoveAt(q, i)) = Len(q) - 1
         /\ \A j \in 1 .. Len(q) - 1 :
              RemoveAt(q, i)[j] = IF j < i THEN q[j] ELSE q[j + 1]
<1> DEFINE a == SubSeq(q, 1, i - 1)
           b == SubSeq(q, i + 1, Len(q))
<1>0. Len(q) \in Nat /\ \A k \in 1 .. Len(q) : q[k] \in S
  BY ElementOfSeq
<1>1. /\ a \in Seq(S)
      /\ Len(a) = i - 1
      /\ \A j \in 1 .. i - 1 : a[j] = q[j]
  <2>1. \A k \in 1 .. i - 1 : q[k] \in S
    BY <1>0
  <2> QED BY <2>1, SubSeqProperties
<1>2. /\ b \in Seq(S)
      /\ Len(b) = Len(q) - i
      /\ \A j \in 1 .. Len(q) - i : b[j] = q[i + j]
  <2>1. \A k \in i + 1 .. Len(q) : q[k] \in S
    BY <1>0
  <2> QED BY <1>0, <2>1, SubSeqProperties
<1>3. RemoveAt(q, i) = a \o b
  BY DEF RemoveAt
<1>4. /\ a \o b \in Seq(S)
      /\ Len(a \o b) = Len(a) + Len(b)
      /\ \A k \in 1 .. Len(a) + Len(b) :
           (a \o b)[k] = IF k <= Len(a) THEN a[k] ELSE b[k - Len(a)]
  <2> HIDE DEF a, b
  <2> QED BY <1>1, <1>2, ConcatProperties
<1> HIDE DEF a, b
<1> QED BY <1>0, <1>1, <1>2, <1>3, <1>4

(* Range and IsInjective of a sequence, in terms of its indices. *)
LEMMA SeqRange ==
  ASSUME NEW S, NEW q \in Seq(S)
  PROVE  /\ Len(q) \in Nat
         /\ DOMAIN q = 1 .. Len(q)
         /\ Range(q) = {q[i] : i \in 1 .. Len(q)}
         /\ Range(q) \subseteq S
         /\ IsInjective(q) <=>
              \A i, j \in 1 .. Len(q) : q[i] = q[j] => i = j
<1>1. Len(q) \in Nat /\ DOMAIN q = 1 .. Len(q)
  BY LenProperties
<1>2. \A i \in 1 .. Len(q) : q[i] \in S
  BY ElementOfSeq
<1> QED BY <1>1, <1>2 DEF Range, IsInjective

(* Removing one of the elements of a queue without repetition. *)
LEMMA RemoveAtSet ==
  ASSUME NEW S, NEW q \in Seq(S), NEW i \in 1 .. Len(q), IsInjective(q)
  PROVE  /\ IsInjective(RemoveAt(q, i))
         /\ Range(RemoveAt(q, i)) = Range(q) \ {q[i]}
<1> DEFINE r == RemoveAt(q, i)
<1>1. /\ r \in Seq(S)
      /\ Len(r) = Len(q) - 1
      /\ \A j \in 1 .. Len(q) - 1 : r[j] = IF j < i THEN q[j] ELSE q[j + 1]
  BY RemoveAtProps
<1>2. /\ Len(q) \in Nat
      /\ Range(q) = {q[k] : k \in 1 .. Len(q)}
      /\ \A k, l \in 1 .. Len(q) : q[k] = q[l] => k = l
  BY SeqRange
<1> HIDE DEF r
<1>3. /\ Range(r) = {r[k] : k \in 1 .. Len(r)}
      /\ IsInjective(r) <=> \A k, l \in 1 .. Len(r) : r[k] = r[l] => k = l
  BY <1>1, SeqRange
<1>4. IsInjective(r)
  <2>1. ASSUME NEW k \in 1 .. Len(r), NEW l \in 1 .. Len(r), r[k] = r[l]
        PROVE  k = l
    <3> DEFINE kk == IF k < i THEN k ELSE k + 1
               ll == IF l < i THEN l ELSE l + 1
    <3>1. kk \in 1 .. Len(q) /\ ll \in 1 .. Len(q)
      BY <1>1, <1>2
    <3>2. q[kk] = q[ll]
      BY <1>1, <2>1
    <3>3. kk = ll
      BY <1>2, <3>1, <3>2
    <3> QED BY <3>3
  <2> QED BY <1>3, <2>1
<1>5. Range(r) \subseteq Range(q) \ {q[i]}
  <2>1. ASSUME NEW k \in 1 .. Len(r)
        PROVE  r[k] \in Range(q) \ {q[i]}
    <3> DEFINE kk == IF k < i THEN k ELSE k + 1
    <3>1. kk \in 1 .. Len(q) /\ kk # i /\ r[k] = q[kk]
      BY <1>1, <1>2
    <3> QED BY <1>2, <3>1
  <2> QED BY <1>3, <2>1
<1>6. Range(q) \ {q[i]} \subseteq Range(r)
  <2>1. ASSUME NEW k \in 1 .. Len(q), k # i
        PROVE  q[k] \in Range(r)
    <3> DEFINE kk == IF k < i THEN k ELSE k - 1
    <3>1. kk \in 1 .. Len(r) /\ r[kk] = q[k]
      BY <1>1, <1>2, <2>1
    <3> QED BY <1>3, <3>1
  <2> QED BY <1>2, <2>1
<1> QED BY <1>4, <1>5, <1>6 DEF r
(* Appending an element that the queue does not hold. *)
LEMMA AppendSet ==
  ASSUME NEW S, NEW q \in Seq(S), NEW e \in S
  PROVE  /\ Append(q, e) \in Seq(S)
         /\ Range(Append(q, e)) = Range(q) \cup {e}
         /\ IsInjective(q) /\ e \notin Range(q) => IsInjective(Append(q, e))
<1> DEFINE r == Append(q, e)
<1>1. /\ r \in Seq(S)
      /\ Len(r) = Len(q) + 1
      /\ \A i \in 1 .. Len(q) : r[i] = q[i]
      /\ r[Len(q) + 1] = e
  BY AppendProperties
<1> HIDE DEF r
<1>2. /\ Len(q) \in Nat
      /\ Range(q) = {q[k] : k \in 1 .. Len(q)}
      /\ IsInjective(q) <=> \A k, l \in 1 .. Len(q) : q[k] = q[l] => k = l
  BY SeqRange
<1>3. /\ Range(r) = {r[k] : k \in 1 .. Len(r)}
      /\ IsInjective(r) <=> \A k, l \in 1 .. Len(r) : r[k] = r[l] => k = l
  BY <1>1, SeqRange
<1>4. 1 .. Len(r) = (1 .. Len(q)) \cup {Len(q) + 1}
  BY <1>1, <1>2
<1>5. Range(r) = Range(q) \cup {e}
  BY <1>1, <1>2, <1>3, <1>4
<1>6. ASSUME IsInjective(q), e \notin Range(q)
      PROVE  IsInjective(r)
  <2>1. \A k \in 1 .. Len(q) : q[k] # e
    BY <1>2, <1>6
  <2>2. \A k, l \in 1 .. Len(r) : r[k] = r[l] => k = l
    BY <1>1, <1>2, <1>4, <1>6, <2>1
  <2> QED BY <1>3, <2>2
<1> QED BY <1>1, <1>5, <1>6 DEF r

(* Exchanging two elements, as dispatchQueueSwap does. *)
LEMMA SwapProps ==
  ASSUME NEW S, NEW q \in Seq(S), NEW h \in 1 .. Len(q)
  PROVE  /\ Swap(q, 1, h) \in Seq(S)
         /\ Len(Swap(q, 1, h)) = Len(q)
         /\ Swap(q, 1, h)[1] = q[h]
         /\ Swap(q, 1, h)[h] = q[1]
         /\ Range(Swap(q, 1, h)) = Range(q)
         /\ IsInjective(q) => IsInjective(Swap(q, 1, h))
<1> DEFINE r == Swap(q, 1, h)
<1>1. /\ Len(q) \in Nat
      /\ DOMAIN q = 1 .. Len(q)
      /\ Range(q) = {q[k] : k \in 1 .. Len(q)}
      /\ IsInjective(q) <=> \A k, l \in 1 .. Len(q) : q[k] = q[l] => k = l
  BY SeqRange
<1>2. \A k \in 1 .. Len(q) : q[k] \in S
  BY ElementOfSeq
<1>3. 1 \in 1 .. Len(q)
  BY <1>1
<1>4. /\ [q EXCEPT ![1] = q[h]] \in Seq(S)
      /\ Len([q EXCEPT ![1] = q[h]]) = Len(q)
  BY <1>2, <1>3, ExceptSeq
<1>5. /\ r \in Seq(S)
      /\ Len(r) = Len(q)
  BY <1>2, <1>3, <1>4, ExceptSeq DEF Swap
<1>6. \A k \in 1 .. Len(q) :
        r[k] = IF k = h THEN q[1] ELSE IF k = 1 THEN q[h] ELSE q[k]
  BY <1>1 DEF Swap
<1> HIDE DEF r
<1>7. /\ Range(r) = {r[k] : k \in 1 .. Len(q)}
      /\ IsInjective(r) <=> \A k, l \in 1 .. Len(q) : r[k] = r[l] => k = l
  BY <1>5, SeqRange
<1>8. Range(r) \subseteq Range(q)
  BY <1>1, <1>3, <1>6, <1>7
<1>9. Range(q) \subseteq Range(r)
  <2>1. ASSUME NEW k \in 1 .. Len(q) PROVE q[k] \in Range(r)
    <3> DEFINE kk == IF k = h THEN 1 ELSE IF k = 1 THEN h ELSE k
    <3>1. kk \in 1 .. Len(q) /\ r[kk] = q[k]
      BY <1>3, <1>6
    <3> QED BY <1>7, <3>1
  <2> QED BY <1>1, <2>1
<1>10. IsInjective(q) => IsInjective(r)
  BY <1>1, <1>3, <1>6, <1>7
<1> QED BY <1>3, <1>5, <1>6, <1>8, <1>9, <1>10 DEF r

(* highestIndex: an entry behind the head that no other such entry beats. *)
LEMMA HighestIndexProps ==
  ASSUME NEW q \in Seq(Pid), NEW pr \in [Pid -> Nat], Len(q) > 1
  PROVE  /\ HighestIndex(q, pr) \in 2 .. Len(q)
         /\ \A j \in 2 .. Len(q) : pr[q[HighestIndex(q, pr)]] <= pr[q[j]]
<1> DEFINE P == {pr[q[j]] : j \in 2 .. Len(q)}
           T == {i \in 2 .. Len(q) : \A j \in 2 .. Len(q) : pr[q[i]] <= pr[q[j]]}
<1>1. Len(q) \in Nat /\ \A k \in 1 .. Len(q) : q[k] \in Pid
  BY ElementOfSeq, LenProperties
<1>2. P \subseteq Nat /\ P # {}
  <2>1. 2 \in 2 .. Len(q)
    BY <1>1
  <2>2. pr[q[2]] \in P
    BY <2>1
  <2>3. \A j \in 2 .. Len(q) : pr[q[j]] \in Nat
    BY <1>1
  <2> QED BY <2>2, <2>3
<1>3. Min(P) \in P /\ \A y \in P : Min(P) <= y
  <2> HIDE DEF P
  <2> QED BY <1>2, MinNat
<1>4. PICK i \in 2 .. Len(q) : Min(P) = pr[q[i]]
  BY <1>3
<1>5. i \in T
  BY <1>3, <1>4
<1>6. T \subseteq Nat /\ T # {}
  <2>1. 2 .. Len(q) \subseteq Nat
    BY <1>1
  <2> QED BY <1>5, <2>1, Zenon
<1>7. Min(T) \in T
  <2> HIDE DEF T
  <2> QED BY <1>6, MinNat
<1> QED BY <1>7 DEF HighestIndex

(* An element added at the end leaves the first one where it is. *)
LEMMA AppendFirst ==
  ASSUME NEW s \in Seq(Pid), NEW e \in Pid, 1 \in 1 .. Len(s)
  PROVE  Append(s, e) # << >> /\ Append(s, e)[1] = s[1]
BY AppendProperties

(* The queue after P1Dispatch's choice is a rearrangement of the one       *)
(* before, and a process of the best priority is at its head.              *)
LEMMA PickProps ==
  ASSUME NEW q \in Seq(Pid), NEW pr \in [Pid -> Nat], NEW rotate \in BOOLEAN,
         IsInjective(q), NEW r, r = Pick(q, pr, rotate)
  PROVE  /\ r \in Seq(Pid)
         /\ IsInjective(r)
         /\ Range(r) = Range(q)
         /\ q # << >> => /\ r # << >>
                        /\ r[1] \in Range(q)
                        /\ \A p \in Range(q) : pr[r[1]] <= pr[p]
         /\ q # << >> /\ r # q => r[1] # q[1]
<1>1. /\ Len(q) \in Nat
      /\ DOMAIN q = 1 .. Len(q)
      /\ Range(q) = {q[k] : k \in 1 .. Len(q)}
      /\ \A k, l \in 1 .. Len(q) : q[k] = q[l] => k = l
      /\ \A k \in 1 .. Len(q) : q[k] \in Pid
      /\ q # << >> => 1 \in 1 .. Len(q)
  BY SeqRange, ElementOfSeq, EmptySeq
<1>2. CASE Len(q) <= 1
  <2>1. r = q
    BY <1>2 DEF Pick
  <2>2. q # << >> => \A p \in Range(q) : p = q[1] /\ pr[q[1]] \in Nat
    BY <1>1, <1>2
  <2>3. q # << >> => q[1] \in Range(q)
    BY <1>1
  <2> QED BY <2>1, <2>2, <2>3
<1>3. CASE Len(q) > 1
  <2> DEFINE h == HighestIndex(q, pr)
             w == Swap(q, 1, h)
  <2>1. /\ h \in 2 .. Len(q)
        /\ \A j \in 2 .. Len(q) : pr[q[h]] <= pr[q[j]]
    BY <1>3, HighestIndexProps
  <2>2. r = IF pr[q[h]] < pr[q[1]] THEN w
            ELSE IF pr[q[h]] = pr[q[1]] /\ rotate THEN Shift(w, h) ELSE q
    BY <1>1, <1>3 DEF Pick
  <2> HIDE DEF h
  <2>3. 1 \in 1 .. Len(q) /\ h \in 1 .. Len(q) /\ q[h] # q[1] /\ q # << >>
    BY <1>1, <1>3, <2>1, EmptySeq
  <2>4. /\ w \in Seq(Pid) /\ Len(w) = Len(q) /\ w[1] = q[h] /\ w[h] = q[1]
        /\ Range(w) = Range(q) /\ IsInjective(w)
    BY <2>3, SwapProps
  <2>5. pr[q[1]] \in Nat /\ pr[q[h]] \in Nat /\ q[h] \in Range(q)
    BY <1>1, <2>3
  <2>6. 1 .. Len(q) = {1} \cup (2 .. Len(q))
    BY <1>1, <1>3
  <2> HIDE DEF w
  <2>7. CASE pr[q[h]] < pr[q[1]]
    <3>1. r = w
      BY <2>2, <2>7
    <3>2. w # << >>
      BY <1>1, <1>3, <2>4, EmptySeq
    <3>3. \A p \in Range(q) : pr[q[h]] <= pr[p]
      BY <1>1, <2>1, <2>5, <2>6, <2>7
    <3> QED BY <2>3, <2>4, <2>5, <3>1, <3>2, <3>3
  <2>8. CASE pr[q[h]] = pr[q[1]] /\ rotate
    <3> DEFINE v == RemoveAt(w, h)
    <3>1. r = Append(v, w[h])
      <4>1. ~(pr[q[h]] < pr[q[1]])
        BY <2>5, <2>8
      <4>2. r = Shift(w, h)
        BY <2>2, <2>8, <4>1, Zenon
      <4> QED BY <4>2, Zenon DEF Shift
    <3>2. h \in 1 .. Len(w)
      BY <2>3, <2>4
    <3>3. /\ v \in Seq(Pid)
          /\ Len(v) = Len(q) - 1
          /\ v[1] = w[1]
          /\ IsInjective(v)
          /\ Range(v) = Range(w) \ {w[h]}
      <4>1. 1 \in 1 .. Len(w) - 1 /\ 1 < h
        BY <1>1, <1>3, <2>1, <2>4
      <4> QED BY <2>4, <3>2, <4>1, RemoveAtProps, RemoveAtSet
    <3>4. w[h] \in Pid /\ w[h] \in Range(w)
      BY <1>1, <2>3, <2>4
    <3> HIDE DEF v
    <3>5. /\ r \in Seq(Pid)
          /\ Range(r) = Range(q)
          /\ IsInjective(r)
      <4>1. Range(v) \cup {w[h]} = Range(q)
        BY <2>4, <3>3, <3>4
      <4>2. w[h] \notin Range(v)
        BY <3>3
      <4>3. /\ Append(v, w[h]) \in Seq(Pid)
            /\ Range(Append(v, w[h])) = Range(v) \cup {w[h]}
            /\ IsInjective(Append(v, w[h]))
        BY <3>3, <3>4, <4>2, AppendSet
      <4> QED BY <3>1, <4>1, <4>3
    <3>6. r # << >> /\ r[1] = q[h]
      <4>1. 1 \in 1 .. Len(v)
        BY <1>1, <1>3, <3>3
      <4>2. Append(v, w[h]) # << >> /\ Append(v, w[h])[1] = v[1]
        BY <3>3, <3>4, <4>1, AppendFirst, Zenon
      <4> QED BY <2>4, <3>1, <3>3, <4>2
    <3>7. \A p \in Range(q) : pr[q[h]] <= pr[p]
      BY <1>1, <2>1, <2>5, <2>6, <2>8
    <3> QED BY <2>3, <2>5, <3>5, <3>6, <3>7
  <2>9. CASE ~(pr[q[h]] < pr[q[1]]) /\ ~(pr[q[h]] = pr[q[1]] /\ rotate)
    <3>1. r = q
      BY <2>2, <2>9
    <3>2. pr[q[1]] <= pr[q[h]]
      BY <2>5, <2>9
    <3>3. \A j \in 1 .. Len(q) : pr[q[1]] <= pr[q[j]]
      BY <1>1, <2>1, <2>5, <2>6, <3>2
    <3> QED BY <1>1, <2>3, <3>1, <3>3
  <2> QED BY <2>7, <2>8, <2>9
<1> QED BY <1>1, <1>2, <1>3

(* dispatchQueueInsert adds the process: a queue without repetition that   *)
(* does not hold a process has room for it.                                *)
LEMMA InsertProps ==
  ASSUME NEW q \in Seq(Pid), NEW p \in Pid, IsInjective(q)
  PROVE  /\ Insert(q, p) \in Seq(Pid)
         /\ Insert(q, p) # << >>
         /\ IsInjective(Insert(q, p))
         /\ Range(Insert(q, p)) = Range(q) \cup {p}
         /\ q # << >> => Insert(q, p)[1] = q[1]
<1>1. /\ Len(q) \in Nat
      /\ Range(q) = {q[k] : k \in 1 .. Len(q)}
      /\ Range(q) \subseteq Pid
      /\ \A k, l \in 1 .. Len(q) : q[k] = q[l] => k = l
      /\ q \in [1 .. Len(q) -> Pid]
      /\ q # << >> => Len(q) > 0
  BY SeqRange, LenProperties, EmptySeq
<1>2. Contains(q, p) <=> p \in Range(q)
  BY <1>1 DEF Contains
<1>3. CASE Contains(q, p)
  BY <1>1, <1>2, <1>3, EmptySeq DEF Insert
<1>4. CASE ~Contains(q, p) /\ Len(q) = MaxProc
  <2> DEFINE D == 1 .. MaxProc
             E == Pid \ {p}
  <2>1. MaxProc \in Nat /\ MaxProc > 0
    BY MaxProcAssumption
  <2>2. IsFiniteSet(D) /\ Cardinality(D) = MaxProc
    BY <2>1, FS_Interval
  <2>3. IsFiniteSet(Pid) /\ Cardinality(Pid) = MaxProc
    BY <2>1, FS_Interval DEF Pid
  <2>4. IsFiniteSet(E) /\ Cardinality(E) = MaxProc - 1
    BY <2>3, FS_RemoveElement
  <2>5. q \in [D -> E]
    BY <1>1, <1>2, <1>4
  <2>6. \E k, l \in D : k # l /\ q[k] = q[l]
    <3> HIDE DEF D, E
    <3>1. Cardinality(E) < Cardinality(D)
      BY <2>1, <2>2, <2>4
    <3> QED BY <2>2, <2>4, <2>5, <3>1, FS_PigeonHole
  <2> QED BY <1>1, <1>4, <2>6
<1>5. CASE ~Contains(q, p) /\ Len(q) # MaxProc
  <2>1. Insert(q, p) = Append(q, p)
    BY <1>5 DEF Insert
  <2>2. q # << >> => Append(q, p)[1] = q[1]
    BY <1>1, AppendProperties
  <2> QED BY <1>2, <1>5, <2>1, <2>2, AppendSet, AppendProperties
<1> QED BY <1>3, <1>4, <1>5

(* dispatchQueueRemoveByPID takes the process out. *)
LEMMA RemoveByPIDProps ==
  ASSUME NEW q \in Seq(Pid), NEW p \in Pid, IsInjective(q)
  PROVE  /\ RemoveByPID(q, p) \in Seq(Pid)
         /\ IsInjective(RemoveByPID(q, p))
         /\ Range(RemoveByPID(q, p)) = Range(q) \ {p}
<1>1. /\ Len(q) \in Nat
      /\ DOMAIN q = 1 .. Len(q)
      /\ Range(q) = {q[k] : k \in 1 .. Len(q)}
  BY SeqRange
<1>2. CASE Contains(q, p)
  <2> DEFINE i == CHOOSE k \in DOMAIN q : q[k] = p
  <2>1. i \in 1 .. Len(q) /\ q[i] = p
    BY <1>1, <1>2 DEF Contains
  <2>2. RemoveByPID(q, p) = RemoveAt(q, i)
    BY <1>2 DEF RemoveByPID
  <2> HIDE DEF i
  <2> QED BY <2>1, <2>2, RemoveAtProps, RemoveAtSet
<1>3. CASE ~Contains(q, p)
  <2>1. RemoveByPID(q, p) = q
    BY <1>3 DEF RemoveByPID
  <2>2. p \notin Range(q)
    BY <1>1, <1>3 DEF Contains
  <2> QED BY <2>1, <2>2
<1> QED BY <1>2, <1>3

-----------------------------------------------------------------------------
(* The process table *)

Runnable(st) == {p \in Pid : st[p] \in {"Ready", "Running"}}

(* Nothing is in use before the first fork, and slot 0 is in use for ever  *)
(* after; the other processes have a parent.  Without it P1_Quit could     *)
(* index the process table with NoPid, or hand children to a free slot.    *)
ParentOK ==
  /\ first => Used = {}
  /\ ~first => 0 \in Used /\ parent[0] = NoPid
  /\ \A p \in Used \ {0} : parent[p] \in Pid
  /\ \A p \in Used : parent[p] # p

(* The inductive invariant *)
Inv ==
  /\ TypeOK
  /\ QueueExact
  /\ CidIsPid
  /\ HeadBest
  /\ ListsExact
  /\ JoinNotMissed
  /\ ParentOK

(* A step that frees no PCB and takes nobody out of QUIT.                  *)
Kept ==
  \A p \in Pid : /\ state[p] = "Quit" => state'[p] = "Quit"
                 /\ state'[p] = "Free" => state[p] = "Free"

(* A step that leaves the processes that are not runnable as st has them.  *)
Settles(st) ==
  \A p \in Pid : \A s \in {"Free", "Quit", "Joining", "Blocked"} :
    state'[p] = s <=> st[p] = s

-----------------------------------------------------------------------------
(* What the provers need to know of Pid *)
LEMMA PidNat == Pid \subseteq Nat /\ 0 \in Pid /\ NoPid \notin Pid
BY MaxProcAssumption DEF Pid, NoPid

(* Min finds the first unused slot of a table. *)
LEMMA FirstFree ==
  ASSUME NEW T \in SUBSET Pid, T # Pid
  PROVE  Min(Pid \ T) \in Pid /\ Min(Pid \ T) \notin T
<1>1. Pid \ T \subseteq Nat /\ Pid \ T # {}
  BY PidNat
<1> QED BY <1>1, MinNat

(* P1_GetPid gives NoPid or a RUNNING process. *)
LEMMA GetPidRuns ==
  GetPid # NoPid => GetPid \in Pid /\ state[GetPid] = "Running"
<1> DEFINE R == {p \in Pid : state[p] = "Running"}
<1>1. CASE R = {}
  BY <1>1 DEF GetPid
<1>2. CASE R # {}
  <2>1. R \subseteq Nat
    BY PidNat
  <2>2. Min(R) \in R
    <3> HIDE DEF R
    <3> QED BY <1>2, <2>1, MinNat
  <2>3. GetPid = Min(R)
    BY <1>2 DEF GetPid
  <2> QED BY <2>2, <2>3
<1> QED BY <1>1, <1>2

(* P1Dispatch on a queue that holds exactly the runnable processes: it     *)
(* still does, the other states are left alone, and the head runs.         *)
LEMMA DispatchOnProps ==
  ASSUME NEW q \in Seq(Pid), NEW st \in [Pid -> States],
         NEW pr \in [Pid -> Prio], NEW rotate \in BOOLEAN,
         IsInjective(q), Range(q) = Runnable(st),
         DispatchOn(q, st, pr, rotate)
  PROVE  /\ queue' \in Seq(Pid) /\ IsInjective(queue')
         /\ state' \in [Pid -> States]
         /\ Range(queue') = Runnable(state')
         /\ \A p \in Pid : \A s \in {"Free", "Quit", "Joining", "Blocked"} :
              state'[p] = s <=> st[p] = s
         /\ q = << >> => halted' = "empty" /\ pending' = pending
         /\ q # << >> => /\ halted' = halted /\ pending' = FALSE
                         /\ queue' # << >>
                         /\ queue'[1] \in Pid
                         /\ state'[queue'[1]] = "Running"
                         /\ \A p \in Range(queue') : pr[queue'[1]] <= pr[p]
<1>1. CASE q = << >>
  BY <1>1 DEF DispatchOn, Runnable
<1>2. CASE q # << >>
  <2> DEFINE new == Pick(q, pr, rotate)
             st1 == IF new = q THEN st ELSE [st EXCEPT ![q[1]] = "Ready"]
  <2>1. pr \in [Pid -> Nat]
    BY DEF Prio
  <2>2. /\ new \in Seq(Pid)
        /\ IsInjective(new)
        /\ Range(new) = Range(q)
        /\ new # << >>
        /\ new[1] \in Range(q)
        /\ \A p \in Range(q) : pr[new[1]] <= pr[p]
    BY <1>2, <2>1, PickProps, Zenon
  <2>3. q[1] \in Range(q)
    BY <1>2, SeqRange, EmptySeq
  <2> HIDE DEF new
  <2>4. /\ queue' = new
        /\ state' = [st1 EXCEPT ![new[1]] = "Running"]
        /\ pending' = FALSE
        /\ halted' = halted
    BY <1>2 DEF DispatchOn, new
  <2>5. q[1] \in Pid /\ new[1] \in Pid
    BY <2>2, <2>3 DEF Runnable
  <2>6. /\ st1 \in [Pid -> States]
        /\ \A p \in Pid : p \in Runnable(st) <=> st1[p] \in {"Ready", "Running"}
        /\ \A p \in Pid : p \notin Runnable(st) => st1[p] = st[p]
    BY <2>3, <2>5 DEF Runnable, States
  <2> HIDE DEF st1
  <2>7. /\ state' \in [Pid -> States]
        /\ \A p \in Pid : p \in Runnable(st) <=> state'[p] \in {"Ready", "Running"}
        /\ \A p \in Pid : p \notin Runnable(st) => state'[p] = st[p]
        /\ state'[new[1]] = "Running"
    BY <2>2, <2>4, <2>5, <2>6 DEF States
  <2>8. Runnable(state') = Runnable(st)
    BY <2>7 DEF Runnable
  <2>9. \A p \in Pid : \A s \in {"Free", "Quit", "Joining", "Blocked"} :
          state'[p] = s <=> st[p] = s
    BY <2>7 DEF Runnable
  <2> QED BY <1>2, <2>2, <2>4, <2>5, <2>7, <2>8, <2>9
<1> QED BY <1>1, <1>2

(* In a state of the invariant where a process executes, the head of the   *)
(* queue is a living process.                                              *)
LEMMA CurrentLives ==
  ASSUME Inv, Executing
  PROVE  /\ queue # << >>
         /\ Current = queue[1]
         /\ Current \in Pid
         /\ state[Current] = "Running"
         /\ Current \in Range(queue)
<1>1. queue # << >> /\ state[Current] = "Running"
  BY DEF Inv, HeadBest
<1>2. queue \in Seq(Pid)
  BY DEF Inv, TypeOK
<1>3. Current = queue[1]
  BY <1>1, <1>2 DEF Current
<1>4. queue[1] \in Range(queue)
  BY <1>1, <1>2, SeqRange, EmptySeq
<1> QED BY <1>1, <1>2, <1>3, <1>4, SeqRange

(* P1SetState of a process that leaves the dispatch queue.                 *)
LEMMA LeaveQueue ==
  ASSUME NEW q \in Seq(Pid), NEW st \in [Pid -> States], NEW p \in Pid,
         NEW new \in [Pid -> States], Runnable(new) = Runnable(st) \ {p},
         IsInjective(q), Range(q) = Runnable(st)
  PROVE  /\ RemoveByPID(q, p) \in Seq(Pid)
         /\ IsInjective(RemoveByPID(q, p))
         /\ Range(RemoveByPID(q, p)) = Runnable(new)
BY RemoveByPIDProps

(* P1SetState of a process that enters the dispatch queue.                 *)
LEMMA EnterQueue ==
  ASSUME NEW q \in Seq(Pid), NEW st \in [Pid -> States], NEW p \in Pid,
         NEW s \in {"Ready", "Running"},
         IsInjective(q), Range(q) = Runnable(st)
  PROVE  /\ Insert(q, p) \in Seq(Pid)
         /\ Insert(q, p) # << >>
         /\ IsInjective(Insert(q, p))
         /\ [st EXCEPT ![p] = s] \in [Pid -> States]
         /\ Range(Insert(q, p)) = Runnable([st EXCEPT ![p] = s])
<1>1. Runnable([st EXCEPT ![p] = s]) = Runnable(st) \cup {p}
  BY DEF Runnable
<1>2. [st EXCEPT ![p] = s] \in [Pid -> States]
  BY DEF States
<1> QED BY <1>1, <1>2, InsertProps

(* A step that leaves the family and the contexts alone, and lets nobody   *)
(* quit or be freed.                                                       *)
LEMMA SameFamily ==
  ASSUME Inv,
         state' \in [Pid -> States],
         \A p \in Pid : \A s \in {"Free", "Quit"} : state'[p] = s <=> state[p] = s,
         UNCHANGED << prio, tag, parent, children, quitChildren, cid, first,
                      contexts >>
  PROVE  CidIsPid' /\ ListsExact' /\ ParentOK'
<1>1. Used' = Used /\ Live' = Live
  BY DEF Used, Live
<1>2. CidIsPid'
  BY <1>1 DEF Inv, CidIsPid
<1>3. ParentOK'
  BY <1>1 DEF Inv, ParentOK
<1>4. ListsExact'
  <2>1. ASSUME NEW p \in Live, NEW z \in Range(quitChildren[p])
        PROVE  state'[z] = "Quit"
    <3>1. z \in Pid
      <4>1. quitChildren[p] \in Seq(Pid)
        BY DEF Inv, TypeOK, Live
      <4> QED BY <4>1, SeqRange
    <3> QED BY <3>1 DEF Inv, ListsExact
  <2> QED BY <1>1, <2>1 DEF Inv, ListsExact
<1> QED BY <1>2, <1>3, <1>4

(* A step that builds a queue q and states st out of which nobody has quit *)
(* or was freed, and calls P1Dispatch.                                     *)
LEMMA DispatchedInv ==
  ASSUME Inv, halted = "no",
         NEW q \in Seq(Pid), NEW st \in [Pid -> States], NEW rotate \in BOOLEAN,
         IsInjective(q), Range(q) = Runnable(st),
         \A p \in Pid : \A s \in {"Free", "Quit"} : st[p] = s <=> state[p] = s,
         \A p \in Pid : st[p] = "Joining" => quitChildren[p] = << >>,
         DispatchOn(q, st, prio, rotate),
         UNCHANGED << prio, tag, parent, children, quitChildren, cid, first,
                      contexts >>
  PROVE  Inv' /\ Kept
<1>1. prio \in [Pid -> Prio]
  BY DEF Inv, TypeOK
<1>2. /\ queue' \in Seq(Pid) /\ IsInjective(queue')
      /\ state' \in [Pid -> States]
      /\ Range(queue') = Runnable(state')
      /\ \A p \in Pid : \A s \in {"Free", "Quit", "Joining", "Blocked"} :
           state'[p] = s <=> st[p] = s
      /\ q = << >> => halted' = "empty" /\ pending' = pending
      /\ q # << >> =>
           /\ halted' = halted /\ pending' = FALSE
           /\ queue' # << >>
           /\ queue'[1] \in Pid
           /\ state'[queue'[1]] = "Running"
           /\ \A p \in Range(queue') : prio[queue'[1]] <= prio[p]
  BY <1>1, DispatchOnProps, ZenonT(60)
<1>3. TypeOK'
  BY <1>2 DEF Inv, TypeOK
<1>4. QueueExact'
  BY <1>2 DEF QueueExact, Runnable
<1>5. CidIsPid' /\ ListsExact' /\ ParentOK'
  BY <1>2, SameFamily
<1>6. JoinNotMissed'
  BY <1>2 DEF JoinNotMissed
<1>7. HeadBest'
  BY <1>2 DEF HeadBest, Executing, Current
<1>8. Kept
  BY <1>2 DEF Kept
<1> QED BY <1>3, <1>4, <1>5, <1>6, <1>7, <1>8 DEF Inv

(* P1Dispatch on its own *)
LEMMA DispatchInv ==
  ASSUME Inv, NEW rotate \in BOOLEAN, Dispatch(rotate)
  PROVE  Inv' /\ Kept
<1>1. /\ queue \in Seq(Pid) /\ state \in [Pid -> States]
      /\ IsInjective(queue) /\ Range(queue) = Runnable(state)
      /\ \A p \in Pid : state[p] = "Joining" => quitChildren[p] = << >>
  BY DEF Inv, TypeOK, QueueExact, Runnable, JoinNotMissed
<1> QED BY <1>1, DispatchedInv DEF Dispatch

(* P1_V with a waiter *)
LEMMA WakeInv ==
  ASSUME Inv, NEW p \in Pid, Wake(p)
  PROVE  Inv' /\ Kept
<1> DEFINE st == [state EXCEPT ![p] = "Ready"]
           q == Insert(queue, p)
<1>1. /\ queue \in Seq(Pid) /\ state \in [Pid -> States]
      /\ IsInjective(queue) /\ Range(queue) = Runnable(state)
      /\ \A r \in Pid : state[r] = "Joining" => quitChildren[r] = << >>
  BY DEF Inv, TypeOK, QueueExact, Runnable, JoinNotMissed
<1>2. /\ q \in Seq(Pid) /\ st \in [Pid -> States]
      /\ IsInjective(q) /\ Range(q) = Runnable(st)
  BY <1>1, EnterQueue
<1>3. state[p] = "Blocked" /\ halted = "no" /\ DispatchOn(q, st, prio, FALSE)
  BY DEF Wake
<1>4. /\ \A r \in Pid : \A s \in {"Free", "Quit"} : st[r] = s <=> state[r] = s
      /\ \A r \in Pid : st[r] = "Joining" => quitChildren[r] = << >>
  BY <1>1, <1>3
<1>5. UNCHANGED << prio, tag, parent, children, quitChildren, cid, first,
                   contexts >>
  BY DEF Wake
<1> HIDE DEF q, st
<1> QED BY <1>2, <1>3, <1>4, <1>5, DispatchedInv

(* A process that leaves the queue to wait, with or without the dispatch. *)
LEMMA LeaveInv ==
  ASSUME Inv, Executing, NEW p \in Pid, NEW s \in {"Blocked", "Joining"},
         NEW now \in BOOLEAN, state[p] = "Running",
         s = "Joining" => quitChildren[p] = << >>,
         Leave(p, s, now)
  PROVE  Inv' /\ Kept
<1> DEFINE st == [state EXCEPT ![p] = s]
           q == RemoveByPID(queue, p)
<1>1. /\ queue \in Seq(Pid) /\ state \in [Pid -> States]
      /\ IsInjective(queue) /\ Range(queue) = Runnable(state)
      /\ \A r \in Pid : state[r] = "Joining" => quitChildren[r] = << >>
  BY DEF Inv, TypeOK, QueueExact, Runnable, JoinNotMissed
<1>2. /\ q \in Seq(Pid) /\ st \in [Pid -> States]
      /\ IsInjective(q) /\ Range(q) = Runnable(st)
  <2>1. st \in [Pid -> States] /\ Runnable(st) = Runnable(state) \ {p}
    BY <1>1 DEF Runnable, States
  <2> HIDE DEF st
  <2> QED BY <1>1, <2>1, LeaveQueue
<1>3. /\ \A r \in Pid : \A f \in {"Free", "Quit"} : st[r] = f <=> state[r] = f
      /\ \A r \in Pid : st[r] = "Joining" => quitChildren[r] = << >>
  BY <1>1
<1>4. UNCHANGED << prio, tag, parent, children, quitChildren, cid, first,
                   contexts >>
  BY DEF Leave
<1>5. CASE now
  <2>1. halted = "no" /\ DispatchOn(q, st, prio, FALSE)
    BY <1>5 DEF Leave, Executing
  <2> HIDE DEF q, st
  <2> QED BY <1>2, <1>3, <1>4, <2>1, DispatchedInv
<1>6. CASE ~now
  <2>1. queue' = q /\ state' = st /\ pending' = TRUE /\ halted' = halted
    BY <1>6 DEF Leave
  <2> HIDE DEF q, st
  <2>2. TypeOK'
    BY <1>2, <1>4, <2>1 DEF Inv, TypeOK
  <2>3. QueueExact'
    BY <1>2, <2>1 DEF QueueExact, Runnable
  <2>4. CidIsPid' /\ ListsExact' /\ ParentOK'
    BY <1>2, <1>3, <1>4, <2>1, SameFamily
  <2>5. JoinNotMissed'
    BY <1>3, <1>4, <2>1 DEF JoinNotMissed
  <2>6. HeadBest'
    BY <2>1 DEF HeadBest, Executing
  <2>7. Kept
    BY <1>3, <2>1 DEF Kept
  <2> QED BY <2>2, <2>3, <2>4, <2>5, <2>6, <2>7 DEF Inv
<1> QED BY <1>5, <1>6

(* P1_P that blocks *)
LEMMA BlockInv ==
  ASSUME Inv, NEW now \in BOOLEAN, Block(now)
  PROVE  Inv' /\ Kept
BY GetPidRuns, LeaveInv DEF Block

(* P1_Join that waits *)
LEMMA JoinWaitInv ==
  ASSUME Inv, JoinWait
  PROVE  Inv' /\ Kept
BY GetPidRuns, LeaveInv DEF JoinWait

(* P1GetChildStatus that frees the PCB and the context of a quit child.    *)
LEMMA ReapInv ==
  ASSUME Inv, NEW tg \in Tag, Reap(tg)
  PROVE  /\ Inv'
         /\ \A p \in Pid :
              /\ state[p] = "Quit" => state'[p] \in {"Quit", "Free"}
              /\ state'[p] = "Free" => \/ state[p] = "Free"
                                       \/ state[p] = "Quit" /\ parent[p] = Current
         /\ \E target \in Pid : /\ state[target] = "Quit"
                                /\ state' = [state EXCEPT ![target] = "Free"]
<1> DEFINE i == Min(QuitWithTag(tg))
           target == quitChildren[Current][i]
           rest == RemoveAt(quitChildren[Current], i)
<1>1. /\ Current \in Pid /\ state[Current] = "Running" /\ ~first /\ Executing
      /\ queue # << >> /\ Current = queue[1]
  BY CurrentLives DEF Reap, Executing
<1>2. quitChildren[Current] \in Seq(Pid)
  BY <1>1 DEF Inv, TypeOK
<1>3. i \in 1 .. Len(quitChildren[Current])
  <2>1. QuitWithTag(tg) # {}
    <3>1. ChildStatus(tg) = "SUCCESS"
      BY DEF Reap, ContextFree
    <3> QED BY <3>1 DEF ChildStatus
  <2>2. QuitWithTag(tg) \subseteq 1 .. Len(quitChildren[Current])
    BY <1>2 DEF QuitWithTag
  <2>3. QuitWithTag(tg) \subseteq Nat
    BY <1>2, <2>2
  <2> HIDE DEF QuitWithTag
  <2>4. Min(QuitWithTag(tg)) \in QuitWithTag(tg)
    BY <2>1, <2>3, MinNat
  <2> QED BY <2>2, <2>4
<1>4. target \in Pid /\ target \in Range(quitChildren[Current])
  <2> HIDE DEF i
  <2> QED BY <1>2, <1>3, SeqRange
<1>5. state[target] = "Quit" /\ parent[target] = Current
      /\ IsInjective(quitChildren[Current])
  BY <1>1, <1>4 DEF Inv, ListsExact, Live
<1>6. /\ rest \in Seq(Pid) /\ IsInjective(rest)
      /\ Range(rest) = Range(quitChildren[Current]) \ {target}
  <2> HIDE DEF i
  <2> QED BY <1>2, <1>3, <1>5, RemoveAtProps, RemoveAtSet
<1>7. /\ state' = [state EXCEPT ![target] = "Free"]
      /\ contexts' = contexts \ {cid[target]}
      /\ quitChildren' = [quitChildren EXCEPT ![Current] = rest]
      /\ UNCHANGED << prio, tag, parent, children, cid, queue, first, pending,
                      halted >>
  BY DEF Reap, ContextFree
<1> HIDE DEF i, target, rest
<1>8. TypeOK'
  BY <1>4, <1>6, <1>7 DEF Inv, TypeOK, States
<1>9. state \in [Pid -> States] /\ quitChildren \in [Pid -> Seq(Pid)]
  BY DEF Inv, TypeOK
<1>10. Used' = Used \ {target} /\ Live' = Live
  BY <1>4, <1>5, <1>7, <1>9 DEF Used, Live
<1>11. QueueExact'
  <2>1. Runnable(state') = Runnable(state)
    BY <1>4, <1>5, <1>7, <1>9 DEF Runnable
  <2> QED BY <1>7, <2>1 DEF Inv, QueueExact, Runnable
<1>12. CidIsPid'
  <2>1. target \in Used
    BY <1>4, <1>5 DEF Used
  <2> QED BY <1>7, <1>10, <2>1 DEF Inv, CidIsPid
<1>13. HeadBest'
  <2>1. state'[Current] = "Running"
    BY <1>1, <1>5, <1>7, <1>9
  <2> QED BY <1>1, <1>7, <2>1 DEF Inv, HeadBest, Executing, Current
<1>14. ListsExact'
  <2> SUFFICES ASSUME NEW p \in Live
               PROVE  /\ \A c \in children[p] : c \in Live \ {0} /\ parent[c] = p
                      /\ IsInjective(quitChildren'[p])
                      /\ \A z \in Range(quitChildren'[p]) :
                           state'[z] = "Quit" /\ parent[z] = p
    BY <1>7, <1>10 DEF ListsExact
  <2>1. p \in Pid
    BY DEF Live
  <2>2. IsInjective(quitChildren'[p])
    BY <1>6, <1>7, <1>9, <2>1 DEF Inv, ListsExact
  <2>3. Range(quitChildren'[p]) \subseteq Range(quitChildren[p]) \ {target}
    <3>1. CASE p = Current
      BY <1>1, <1>6, <1>7, <1>9, <3>1
    <3>2. CASE p # Current
      BY <1>5, <1>7, <1>9, <2>1, <3>2 DEF Inv, ListsExact
    <3> QED BY <3>1, <3>2
  <2>4. ASSUME NEW z \in Range(quitChildren[p]), z # target
        PROVE  state'[z] = "Quit" /\ parent[z] = p
    BY <1>7, <1>9, <2>1, <2>4, SeqRange DEF Inv, ListsExact
  <2> QED BY <2>2, <2>3, <2>4 DEF Inv, ListsExact
<1>15. JoinNotMissed'
  BY <1>1, <1>4, <1>7, <1>9 DEF Inv, JoinNotMissed
<1>16. ParentOK'
  <2>1. target # 0
    BY <1>1, <1>5, PidNat DEF Inv, ParentOK
  <2> QED BY <1>1, <1>7, <1>10, <2>1 DEF Inv, ParentOK
<1>17. \A p \in Pid :
         /\ state[p] = "Quit" => state'[p] \in {"Quit", "Free"}
         /\ state'[p] = "Free" => \/ state[p] = "Free"
                                  \/ state[p] = "Quit" /\ parent[p] = Current
  BY <1>5, <1>7, <1>9
<1>18. \E p \in Pid : state[p] = "Quit" /\ state' = [state EXCEPT ![p] = "Free"]
  BY <1>4, <1>5, <1>7
<1> QED BY <1>8, <1>11, <1>12, <1>13, <1>14, <1>15, <1>16, <1>17, <1>18 DEF Inv

(* P1_Fork: what it does to the family and to the tables, whatever the     *)
(* dispatch that follows makes of the states st and the queue.             *)
LEMMA ForkInv ==
  ASSUME Inv, NEW pr \in Prio, NEW tg \in Tag, Fork(pr, tg)
  PROVE  /\ Inv' /\ Kept
         /\ FreeContext = Min(Pid \ Used) /\ FreeContext \in Pid \ Used
         /\ Settles([state EXCEPT ![FreeContext] = "Running"])
         /\ halted' = "no" /\ ~pending'
<1> DEFINE j == Min(Pid \ Used)
           c == FreeContext
           st == [state EXCEPT ![j] = "Running"]
           q == Insert(queue, j)
           pr1 == [prio EXCEPT ![j] = pr]
<1>1. /\ state \in [Pid -> States] /\ prio \in [Pid -> Prio]
      /\ tag \in [Pid -> Tag] /\ parent \in [Pid -> Pid \cup {NoPid}]
      /\ children \in [Pid -> SUBSET Pid] /\ quitChildren \in [Pid -> Seq(Pid)]
      /\ cid \in [Pid -> Pid] /\ queue \in Seq(Pid)
      /\ contexts = Used /\ Used \subseteq Pid
      /\ IsInjective(queue) /\ Range(queue) = Runnable(state)
  BY DEF Inv, TypeOK, QueueExact, Runnable, CidIsPid, Used
<1>2. j \in Pid /\ j \notin Used /\ c = j
  BY <1>1, FirstFree DEF Fork, FreeContext, ContextCreate
<1>3. first => j = 0
  <2>1. CASE first
    <3>1. Pid \ Used = Pid
      BY <2>1 DEF Inv, ParentOK
    <3>2. Min(Pid) \in Pid /\ Min(Pid) <= 0
      BY PidNat, MinNat
    <3>3. Min(Pid) = 0
      BY <3>2, MaxProcAssumption DEF Pid
    <3> QED BY <3>1, <3>3
  <2> QED BY <2>1
<1>4. ~first => /\ Current \in Pid /\ Current # j /\ Current \in Live
                /\ Executing /\ queue # << >> /\ Current = queue[1]
                /\ state[Current] = "Running"
  <2>1. CASE ~first
    <3>1. Executing
      BY <2>1 DEF Fork, ContextCreate, Executing
    <3> QED BY <1>2, <3>1, CurrentLives DEF Used, Live
  <2> QED BY <2>1
<1>5. /\ cid' = [cid EXCEPT ![j] = j]
      /\ contexts' = contexts \cup {j}
      /\ prio' = pr1
      /\ tag' = [tag EXCEPT ![j] = tg]
      /\ quitChildren' = [quitChildren EXCEPT ![j] = << >>]
      /\ parent' = [parent EXCEPT ![j] = IF first THEN NoPid ELSE Current]
      /\ children' = IF first THEN [children EXCEPT ![j] = {}]
                     ELSE [children EXCEPT ![j] = {}, ![Current] = @ \cup {j}]
      /\ first' = FALSE
      /\ halted = "no" /\ ~pending
      /\ IF first \/ pr < prio[Current]
         THEN DispatchOn(q, st, pr1, FALSE)
         ELSE queue' = q /\ state' = st /\ UNCHANGED << pending, halted >>
  BY <1>2, Zenon DEF Fork, FillPCB, ContextCreate
<1>6. /\ q \in Seq(Pid) /\ q # << >>
      /\ IsInjective(q) /\ Range(q) = Runnable(st) /\ st \in [Pid -> States]
      /\ queue # << >> => q[1] = queue[1]
  <2> HIDE DEF j
  <2> QED BY <1>1, <1>2, EnterQueue, InsertProps
<1>7. pr1 \in [Pid -> Prio]
  BY <1>1, <1>2
<1> HIDE DEF j, c, q
<1>8. /\ queue' \in Seq(Pid) /\ IsInjective(queue')
      /\ state' \in [Pid -> States]
      /\ Range(queue') = Runnable(state')
      /\ \A p \in Pid : \A s \in {"Free", "Quit", "Joining", "Blocked"} :
           state'[p] = s <=> st[p] = s
      /\ halted' = halted /\ pending' = FALSE
  <2> HIDE DEF st, pr1
  <2>1. CASE first \/ pr < prio[Current]
    <3>1. DispatchOn(q, st, pr1, FALSE)
      BY <1>5, <2>1
    <3> QED BY <1>6, <1>7, <3>1, DispatchOnProps
  <2>2. CASE ~(first \/ pr < prio[Current])
    BY <1>5, <1>6, <2>2
  <2> QED BY <2>1, <2>2
<1>9. HeadBest'
  <2>1. CASE first \/ pr < prio[Current]
    <3> HIDE DEF st, pr1
    <3>1. DispatchOn(q, st, pr1, FALSE)
      BY <1>5, <2>1
    <3>2. /\ queue' # << >> /\ queue'[1] \in Pid
          /\ state'[queue'[1]] = "Running"
          /\ \A p \in Range(queue') : pr1[queue'[1]] <= pr1[p]
      BY <1>6, <1>7, <3>1, DispatchOnProps
    <3> QED BY <1>5, <1>8, <3>2 DEF HeadBest, Executing, Current
  <2>2. CASE ~(first \/ pr < prio[Current])
    <3>1. queue' = q /\ state' = st /\ prio' = pr1
      BY <1>5, <2>2
    <3>2. queue' # << >> /\ Current' = Current
      BY <1>4, <1>6, <2>2, <3>1 DEF Current
    <3>3. state'[Current] = "Running" /\ prio'[Current] = prio[Current]
      BY <1>1, <1>2, <1>4, <2>2, <3>1
    <3>4. ASSUME NEW p \in Range(queue') PROVE prio[Current] <= prio'[p]
      <4>1. p \in Pid /\ (p = j \/ p \in Range(queue))
        BY <1>1, <1>2, <1>6, <3>1 DEF Runnable
      <4>2. CASE p = j
        <5>1. prio'[p] = pr
          BY <1>1, <1>2, <3>1, <4>2
        <5>2. prio[Current] \in 1 .. 6 /\ pr \in 1 .. 6
          BY <1>1, <1>4, <2>2 DEF Prio
        <5>3. prio[Current] <= pr
          BY <2>2, <5>2
        <5> QED BY <5>1, <5>3
      <4>3. CASE p # j
        BY <1>1, <1>2, <1>4, <2>2, <3>1, <4>1, <4>3 DEF Inv, HeadBest
      <4> QED BY <4>2, <4>3
    <3> QED BY <3>2, <3>3, <3>4 DEF HeadBest
  <2> QED BY <2>1, <2>2
<1>10. TypeOK'
  <2>1. children' \in [Pid -> SUBSET Pid]
    BY <1>1, <1>2, <1>4, <1>5
  <2>2. parent' \in [Pid -> Pid \cup {NoPid}] /\ cid' \in [Pid -> Pid]
    BY <1>1, <1>2, <1>4, <1>5
  <2>3. /\ quitChildren' \in [Pid -> Seq(Pid)] /\ tag' \in [Pid -> Tag]
        /\ first' \in BOOLEAN /\ pending' \in BOOLEAN
        /\ contexts' \in SUBSET Pid /\ halted' \in {"no", "orphans", "empty"}
    <3>1. << >> \in Seq(Pid)
      OBVIOUS
    <3> QED BY <1>1, <1>2, <1>5, <1>8, <3>1
  <2>4. prio' \in [Pid -> Prio]
    BY <1>5, <1>7
  <2> QED BY <1>8, <2>1, <2>2, <2>3, <2>4 DEF TypeOK
<1>11. QueueExact'
  BY <1>8 DEF QueueExact, Runnable
<1>12. Used' = Used \cup {j} /\ Live' = Live \cup {j}
  BY <1>1, <1>2, <1>8 DEF Used, Live
<1>13. CidIsPid'
  BY <1>1, <1>2, <1>5, <1>12 DEF Inv, CidIsPid
<1>14. ParentOK'
  <2>1. 0 \in Used' /\ parent'[0] = NoPid
    BY <1>1, <1>2, <1>3, <1>5, <1>12, PidNat DEF Inv, ParentOK
  <2>2. \A p \in Used' \ {0} : parent'[p] \in Pid
    BY <1>1, <1>2, <1>3, <1>4, <1>5, <1>12 DEF Inv, ParentOK
  <2>3. \A p \in Used' : parent'[p] # p
    BY <1>1, <1>2, <1>4, <1>5, <1>12, PidNat DEF Inv, ParentOK
  <2> QED BY <1>5, <2>1, <2>2, <2>3 DEF ParentOK
<1>15. JoinNotMissed'
  <2> SUFFICES ASSUME NEW p \in Pid, state'[p] = "Joining"
               PROVE  quitChildren'[p] = << >>
    BY DEF JoinNotMissed
  <2>1. st[p] = "Joining"
    BY <1>8
  <2>2. p # j /\ state[p] = "Joining"
    BY <1>1, <1>2, <2>1
  <2> QED BY <1>1, <1>5, <2>2 DEF Inv, JoinNotMissed
<1>16. ListsExact'
  <2> SUFFICES ASSUME NEW p \in Live'
               PROVE  /\ \A d \in children'[p] : d \in Live' \ {0} /\ parent'[d] = p
                      /\ IsInjective(quitChildren'[p])
                      /\ \A z \in Range(quitChildren'[p]) :
                           state'[z] = "Quit" /\ parent'[z] = p
    BY DEF ListsExact
  <2>1. p \in Pid /\ Live \subseteq Pid
    BY DEF Live
  <2>2. CASE p = j
    <3>1. children'[p] = {} /\ quitChildren'[p] = << >>
      BY <1>1, <1>2, <1>4, <1>5, <2>2
    <3>2. DOMAIN << >> = {}
      OBVIOUS
    <3>3. IsInjective(<< >>) /\ Range(<< >>) = {}
      BY <3>2 DEF IsInjective, Range
    <3> QED BY <3>1, <3>3
  <2>3. CASE p # j
    <3>1. p \in Live
      BY <1>12, <2>3
    <3>2. quitChildren'[p] = quitChildren[p]
      BY <1>1, <1>5, <2>1, <2>3
    <3>3. ASSUME NEW d \in children'[p]
          PROVE  d \in Live' \ {0} /\ parent'[d] = p
      <4>1. CASE d \in children[p]
        <5>1. d \in Live \ {0} /\ parent[d] = p
          BY <3>1, <4>1 DEF Inv, ListsExact
        <5>2. d # j
          BY <1>2, <5>1 DEF Live, Used
        <5> QED BY <1>1, <1>5, <1>12, <2>1, <5>1, <5>2
      <4>2. CASE d \notin children[p]
        <5>1. ~first /\ p = Current /\ d = j
          BY <1>1, <1>2, <1>4, <1>5, <2>1, <2>3, <4>2
        <5>2. j # 0
          BY <1>2, <5>1 DEF Inv, ParentOK
        <5> QED BY <1>1, <1>2, <1>5, <1>12, <5>1, <5>2
      <4> QED BY <4>1, <4>2
    <3>4. ASSUME NEW z \in Range(quitChildren[p])
          PROVE  state'[z] = "Quit" /\ parent'[z] = p
      <4>1. z \in Pid /\ state[z] = "Quit" /\ parent[z] = p
        BY <1>1, <2>1, <3>1, SeqRange DEF Inv, ListsExact
      <4>2. z # j
        BY <1>2, <4>1 DEF Used
      <4> QED BY <1>1, <1>5, <1>8, <4>1, <4>2
    <3> QED BY <3>1, <3>2, <3>3, <3>4 DEF Inv, ListsExact
  <2> QED BY <2>2, <2>3
<1>17. Kept
  BY <1>1, <1>2, <1>8 DEF Kept, Used
<1>18. Settles([state EXCEPT ![FreeContext] = "Running"])
  BY <1>2, <1>8 DEF Settles, c
<1>19. FreeContext = Min(Pid \ Used) /\ FreeContext \in Pid \ Used
  BY <1>2 DEF c, j
<1> QED BY <1>5, <1>8, <1>9, <1>10, <1>11, <1>13, <1>14, <1>15, <1>16, <1>17,
           <1>18, <1>19 DEF Inv

(* P1_Quit of process 0, which halts the machine or leaves it to others.   *)
LEMMA QuitFirstInv ==
  ASSUME Inv, QuitFirst
  PROVE  /\ Inv' /\ Kept
         /\ Settles([state EXCEPT ![0] = "Quit"])
         /\ ~pending'
<1> DEFINE st == [state EXCEPT ![0] = "Quit"]
           q == RemoveByPID(queue, 0)
<1>1. /\ state \in [Pid -> States] /\ prio \in [Pid -> Prio]
      /\ quitChildren \in [Pid -> Seq(Pid)] /\ queue \in Seq(Pid)
      /\ IsInjective(queue) /\ Range(queue) = Runnable(state)
  BY DEF Inv, TypeOK, QueueExact, Runnable
<1>2. 0 \in Pid /\ state[0] = "Running" /\ halted = "no" /\ ~pending
  BY GetPidRuns, PidNat DEF QuitFirst, NoPid, Executing
<1>3. /\ st \in [Pid -> States] /\ Runnable(st) = Runnable(state) \ {0}
      /\ \A p \in Pid : /\ st[p] = "Free" <=> state[p] = "Free"
                        /\ st[p] = "Quit" <=> state[p] = "Quit" \/ p = 0
                        /\ st[p] = "Joining" <=> state[p] = "Joining"
  BY <1>1, <1>2 DEF Runnable, States
<1>4. /\ UNCHANGED << prio, tag, parent, children, quitChildren, cid, first,
                      contexts >>
      /\ \/ halted' = "orphans" /\ state' = st /\ queue' = q /\ pending' = pending
         \/ DispatchOn(q, st, prio, FALSE)
  BY DEF QuitFirst
<1> HIDE DEF st
<1>5. /\ q \in Seq(Pid) /\ IsInjective(q) /\ Range(q) = Runnable(st)
  <2>1. st \in [Pid -> States] /\ Runnable(st) = Runnable(state) \ {0}
    BY <1>3
  <2>2. ASSUME NEW p \in Pid
        PROVE  /\ RemoveByPID(queue, p) \in Seq(Pid)
               /\ IsInjective(RemoveByPID(queue, p))
               /\ Range(RemoveByPID(queue, p)) = Range(queue) \ {p}
    BY <1>1, RemoveByPIDProps
  <2> QED BY <1>1, <1>2, <2>1, <2>2
<1> HIDE DEF q
<1>6. /\ queue' \in Seq(Pid) /\ IsInjective(queue')
      /\ state' \in [Pid -> States]
      /\ Range(queue') = Runnable(state')
      /\ \A p \in Pid : \A s \in {"Free", "Quit", "Joining", "Blocked"} :
           state'[p] = s <=> st[p] = s
      /\ halted' \in {"no", "orphans", "empty"} /\ pending' = FALSE
      /\ HeadBest'
  <2>1. CASE halted' = "orphans" /\ state' = st /\ queue' = q /\ pending' = pending
    BY <1>2, <1>3, <1>5, <2>1 DEF HeadBest, Executing
  <2>2. CASE DispatchOn(q, st, prio, FALSE)
    <3>1. /\ queue' \in Seq(Pid) /\ IsInjective(queue')
          /\ state' \in [Pid -> States]
          /\ Range(queue') = Runnable(state')
          /\ \A p \in Pid : \A s \in {"Free", "Quit", "Joining", "Blocked"} :
               state'[p] = s <=> st[p] = s
          /\ q = << >> => halted' = "empty" /\ pending' = pending
          /\ q # << >> => /\ halted' = halted /\ pending' = FALSE
                          /\ queue' # << >>
                          /\ queue'[1] \in Pid
                          /\ state'[queue'[1]] = "Running"
                          /\ \A p \in Range(queue') : prio[queue'[1]] <= prio[p]
      BY <1>1, <1>3, <1>5, <2>2, DispatchOnProps
    <3>2. HeadBest'
      BY <1>4, <3>1 DEF HeadBest, Executing, Current
    <3> QED BY <1>2, <3>1, <3>2
  <2> QED BY <1>4, <2>1, <2>2
<1>7. TypeOK'
  BY <1>4, <1>6 DEF Inv, TypeOK
<1>8. QueueExact'
  BY <1>6 DEF QueueExact, Runnable
<1>9. Used' = Used /\ Live' = Live \ {0} /\ Live \subseteq Pid
  BY <1>2, <1>3, <1>6 DEF Used, Live
<1>10. CidIsPid' /\ ParentOK'
  BY <1>4, <1>9 DEF Inv, CidIsPid, ParentOK
<1>11. JoinNotMissed'
  BY <1>3, <1>4, <1>6 DEF Inv, JoinNotMissed
<1>12. ListsExact'
  <2>1. ASSUME NEW p \in Live, NEW z \in Range(quitChildren[p])
        PROVE  state'[z] = "Quit"
    <3>1. z \in Pid /\ state[z] = "Quit"
      BY <1>1, <1>9, SeqRange DEF Inv, ListsExact
    <3> QED BY <1>3, <1>6, <3>1
  <2> QED BY <1>4, <1>9, <2>1 DEF Inv, ListsExact
<1>13. Kept
  BY <1>3, <1>6 DEF Kept
<1>14. Settles([state EXCEPT ![0] = "Quit"])
  BY <1>6 DEF Settles, st
<1> QED BY <1>6, <1>7, <1>8, <1>10, <1>11, <1>12, <1>13, <1>14 DEF Inv

(* P1_Quit of another process: adoption, the list and the wakeup of its    *)
(* parent, the dispatch of somebody else.                                  *)
LEMMA QuitOtherInv ==
  ASSUME Inv, QuitOther
  PROVE  /\ Inv' /\ Kept
         /\ parent[GetPid] \in Pid \ {GetPid}
         /\ \A r \in Pid :
              /\ state'[r] = "Free" <=> state[r] = "Free"
              /\ state'[r] = "Quit" <=> state[r] = "Quit" \/ r = GetPid
              /\ state'[r] = "Blocked" <=> state[r] = "Blocked"
              /\ state'[r] = "Joining" <=>
                   state[r] = "Joining" /\ r # parent[GetPid]
         /\ ~pending'
<1> DEFINE p == GetPid
           par == parent[p]
           st == [state EXCEPT ![p] = "Quit"]
           q == RemoveByPID(queue, p)
           joining == st[par] = "Joining"
           st2 == IF joining THEN [st EXCEPT ![par] = "Ready"] ELSE st
           q2 == IF joining THEN Insert(q, par) ELSE q
<1>1. /\ state \in [Pid -> States] /\ prio \in [Pid -> Prio]
      /\ parent \in [Pid -> Pid \cup {NoPid}]
      /\ children \in [Pid -> SUBSET Pid]
      /\ quitChildren \in [Pid -> Seq(Pid)] /\ queue \in Seq(Pid)
      /\ IsInjective(queue) /\ Range(queue) = Runnable(state)
  BY DEF Inv, TypeOK, QueueExact, Runnable
<1>2. /\ p \in Pid \ {0} /\ state[p] = "Running"
      /\ halted = "no" /\ ~pending /\ ~first
  BY GetPidRuns DEF QuitOther, Executing
<1>3. par \in Pid /\ par # p
  <2>1. p \in Used \ {0}
    BY <1>2 DEF Used
  <2> QED BY <2>1 DEF Inv, ParentOK
<1>4. /\ parent' = [c \in Pid |-> IF c \in children[p] THEN 0 ELSE parent[c]]
      /\ children' = [[children EXCEPT ![0] = @ \cup children[p]]
                       EXCEPT ![par] = @ \ {p}]
      /\ quitChildren' = [quitChildren EXCEPT ![par] = Append(@, p)]
      /\ DispatchOn(q2, st2, prio, FALSE)
      /\ UNCHANGED << prio, tag, cid, first, contexts >>
  BY DEF QuitOther, AdoptedParent, AdoptedLists, ListedAt, WakesParent
<1> HIDE DEF p, par
<1>5. /\ st \in [Pid -> States] /\ Runnable(st) = Runnable(state) \ {p}
      /\ joining <=> state[par] = "Joining"
  BY <1>1, <1>2, <1>3 DEF Runnable, States
<1>6. /\ q \in Seq(Pid) /\ IsInjective(q) /\ Range(q) = Runnable(st)
  <2> HIDE DEF st
  <2> QED BY <1>1, <1>2, <1>5, LeaveQueue
<1>7. /\ st2 \in [Pid -> States]
      /\ \A r \in Pid : /\ st2[r] = "Free" <=> state[r] = "Free"
                        /\ st2[r] = "Quit" <=> state[r] = "Quit" \/ r = p
                        /\ st2[r] = "Blocked" <=> state[r] = "Blocked"
                        /\ st2[r] = "Joining" <=>
                             state[r] = "Joining" /\ r # par
  BY <1>1, <1>2, <1>3, <1>5 DEF States
<1>8. /\ q2 \in Seq(Pid) /\ IsInjective(q2) /\ Range(q2) = Runnable(st2)
  <2> HIDE DEF q, st
  <2>1. CASE joining
    <3>1. /\ Insert(q, par) \in Seq(Pid) /\ IsInjective(Insert(q, par))
          /\ Range(Insert(q, par)) = Runnable([st EXCEPT ![par] = "Ready"])
      BY <1>3, <1>5, <1>6, EnterQueue
    <3> QED BY <2>1, <3>1
  <2>2. CASE ~joining
    BY <1>6, <2>2
  <2> QED BY <2>1, <2>2
<1> HIDE DEF q2, st2, q, st, joining
<1>9. /\ queue' \in Seq(Pid) /\ IsInjective(queue')
      /\ state' \in [Pid -> States]
      /\ Range(queue') = Runnable(state')
      /\ \A r \in Pid : \A s \in {"Free", "Quit", "Joining", "Blocked"} :
           state'[r] = s <=> st2[r] = s
      /\ q2 = << >> => halted' = "empty" /\ pending' = pending
      /\ q2 # << >> => /\ halted' = halted /\ pending' = FALSE
                       /\ queue' # << >>
                       /\ queue'[1] \in Pid
                       /\ state'[queue'[1]] = "Running"
                       /\ \A r \in Range(queue') : prio[queue'[1]] <= prio[r]
  BY <1>1, <1>4, <1>7, <1>8, DispatchOnProps
<1>10. HeadBest'
  BY <1>4, <1>9 DEF HeadBest, Executing, Current
<1>11. TypeOK'
  <2>1. parent' \in [Pid -> Pid \cup {NoPid}] /\ children' \in [Pid -> SUBSET Pid]
    BY <1>1, <1>2, <1>3, <1>4, PidNat
  <2>2. Append(quitChildren[par], p) \in Seq(Pid)
    BY <1>1, <1>2, <1>3, AppendSet
  <2>3. quitChildren' \in [Pid -> Seq(Pid)]
    BY <1>1, <1>3, <1>4, <2>2
  <2>4. halted' \in {"no", "empty"} /\ pending' = FALSE
    BY <1>2, <1>9
  <2> QED BY <1>4, <1>9, <2>1, <2>3, <2>4 DEF Inv, TypeOK
<1>12. QueueExact'
  BY <1>9 DEF QueueExact, Runnable
<1>13. Used' = Used /\ Live' = Live \ {p} /\ p \in Live /\ Live \subseteq Pid
  BY <1>2, <1>7, <1>9 DEF Used, Live
<1>14. \A c \in children[p] : c \in Live \ {0} /\ parent[c] = p
  BY <1>13 DEF Inv, ListsExact
<1>15. CidIsPid'
  BY <1>4, <1>13 DEF Inv, CidIsPid
<1>16. ParentOK'
  <2>1. 0 \in Used /\ parent'[0] = NoPid
    BY <1>2, <1>4, <1>14, PidNat DEF Inv, ParentOK
  <2>2. \A r \in Used \ {0} : parent'[r] \in Pid
    BY <1>4, PidNat DEF Inv, ParentOK, Used
  <2>3. \A r \in Used : parent'[r] # r
    BY <1>4, <1>14 DEF Inv, ParentOK, Used
  <2> QED BY <1>2, <1>4, <1>13, <2>1, <2>2, <2>3 DEF ParentOK
<1>17. JoinNotMissed'
  BY <1>1, <1>3, <1>4, <1>7, <1>9 DEF Inv, JoinNotMissed
<1>18. ListsExact'
  <2> SUFFICES ASSUME NEW r \in Live \ {p}
               PROVE  /\ \A c \in children'[r] :
                           c \in (Live \ {p}) \ {0} /\ parent'[c] = r
                      /\ IsInjective(quitChildren'[r])
                      /\ \A z \in Range(quitChildren'[r]) :
                           state'[z] = "Quit" /\ parent'[z] = r
    BY <1>13 DEF ListsExact
  <2>1. r \in Pid
    BY <1>13
  <2>2. ASSUME NEW c \in children'[r]
        PROVE  c \in (Live \ {p}) \ {0} /\ parent'[c] = r
    <3>1. \/ c \in children[r] /\ ~(r = par /\ c = p)
          \/ r = 0 /\ c \in children[p]
      BY <1>1, <1>3, <1>4, <2>1, PidNat
    <3>2. CASE c \in children[r] /\ ~(r = par /\ c = p)
      <4>1. c \in Live \ {0} /\ parent[c] = r
        BY <3>2 DEF Inv, ListsExact
      <4>2. c # p
        BY <3>2, <4>1 DEF par
      <4> QED BY <1>4, <1>13, <1>14, <4>1, <4>2
    <3>3. CASE r = 0 /\ c \in children[p]
      <4>1. c # p
        BY <1>3, <1>14, <3>3 DEF par
      <4> QED BY <1>4, <1>13, <1>14, <3>3, <4>1
    <3> QED BY <3>1, <3>2, <3>3
  <2>3. ASSUME NEW z \in Range(quitChildren[r])
        PROVE  z # p /\ state'[z] = "Quit" /\ parent'[z] = r
    <3>1. z \in Pid /\ state[z] = "Quit" /\ parent[z] = r
      BY <1>1, <2>1, SeqRange DEF Inv, ListsExact
    <3>2. z \notin children[p] /\ z # p
      BY <1>2, <1>14, <3>1 DEF Live
    <3> QED BY <1>4, <1>7, <1>9, <3>1, <3>2
  <2>4. CASE r # par
    <3>1. quitChildren'[r] = quitChildren[r]
      BY <1>1, <1>4, <2>1, <2>4
    <3> QED BY <2>2, <2>3, <3>1 DEF Inv, ListsExact
  <2>5. CASE r = par
    <3>1. quitChildren'[r] = Append(quitChildren[r], p)
      BY <1>1, <1>4, <2>1, <2>5
    <3>2. quitChildren[r] \in Seq(Pid) /\ IsInjective(quitChildren[r])
      BY <1>1, <2>1 DEF Inv, ListsExact
    <3>3. p \notin Range(quitChildren[r])
      BY <2>3
    <3>4. /\ IsInjective(Append(quitChildren[r], p))
          /\ Range(Append(quitChildren[r], p)) = Range(quitChildren[r]) \cup {p}
      BY <1>2, <3>2, <3>3, AppendSet
    <3>5. state'[p] = "Quit" /\ parent'[p] = r
      <4>1. p \notin children[p]
        BY <1>3, <1>14 DEF par
      <4> QED BY <1>2, <1>4, <1>7, <1>9, <2>5, <4>1 DEF par
    <3> QED BY <2>2, <2>3, <3>1, <3>4, <3>5
  <2> QED BY <2>4, <2>5
<1>19. Kept
  BY <1>7, <1>9 DEF Kept
<1>20. /\ par \in Pid \ {p} /\ ~pending'
       /\ \A r \in Pid :
            /\ state'[r] = "Free" <=> state[r] = "Free"
            /\ state'[r] = "Quit" <=> state[r] = "Quit" \/ r = p
            /\ state'[r] = "Blocked" <=> state[r] = "Blocked"
            /\ state'[r] = "Joining" <=> state[r] = "Joining" /\ r # par
  BY <1>2, <1>3, <1>7, <1>9
<1> QED BY <1>10, <1>11, <1>12, <1>15, <1>16, <1>17, <1>18, <1>19, <1>20
        DEF Inv, p, par

-----------------------------------------------------------------------------
(* P1Dispatch settles what its caller built, and ends the window of        *)
(* pending, unless it halts the machine.                                   *)
LEMMA DispatchSettles ==
  ASSUME NEW q \in Seq(Pid), NEW st \in [Pid -> States],
         NEW pr \in [Pid -> Prio], NEW rotate \in BOOLEAN,
         IsInjective(q), Range(q) = Runnable(st),
         DispatchOn(q, st, pr, rotate)
  PROVE  /\ Settles(st)
         /\ halted' = "no" => ~pending'
<1>1. /\ Settles(st)
      /\ q = << >> => halted' = "empty"
      /\ q # << >> => ~pending'
  BY DispatchOnProps DEF Settles
<1> QED BY <1>1

(* What the invariant says of the queue, as DispatchOnProps wants it *)
LEMMA QueueType ==
  ASSUME Inv
  PROVE  /\ queue \in Seq(Pid) /\ state \in [Pid -> States]
         /\ prio \in [Pid -> Prio] /\ parent \in [Pid -> Pid \cup {NoPid}]
         /\ quitChildren \in [Pid -> Seq(Pid)]
         /\ IsInjective(queue) /\ Range(queue) = Runnable(state)
BY DEF Inv, TypeOK, QueueExact, Runnable

LEMMA DispatchEffect ==
  ASSUME Inv, NEW rotate \in BOOLEAN, Dispatch(rotate)
  PROVE  /\ Settles(state)
         /\ halted' = "no" => ~pending'
         /\ UNCHANGED << quitChildren, first >>
BY QueueType, DispatchSettles DEF Dispatch

LEMMA WakeEffect ==
  ASSUME Inv, NEW p \in Pid, Wake(p)
  PROVE  /\ Settles([state EXCEPT ![p] = "Ready"])
         /\ state[p] = "Blocked"
         /\ halted' = "no" => ~pending'
         /\ UNCHANGED << quitChildren, first >>
<1> DEFINE st == [state EXCEPT ![p] = "Ready"]
           q == Insert(queue, p)
<1>0. /\ queue \in Seq(Pid) /\ state \in [Pid -> States]
      /\ IsInjective(queue) /\ Range(queue) = Runnable(state)
  BY QueueType
<1>1. /\ q \in Seq(Pid) /\ IsInjective(q)
      /\ st \in [Pid -> States] /\ Range(q) = Runnable(st)
  BY <1>0, EnterQueue
<1>2. DispatchOn(q, st, prio, FALSE)
  BY DEF Wake
<1> HIDE DEF st, q
<1>3. Settles(st) /\ (halted' = "no" => ~pending')
  BY <1>1, <1>2, QueueType, DispatchSettles
<1> QED BY <1>3 DEF Wake, st

(* P1SetState(BLOCKED or JOINING), with P1Dispatch (now) or without        *)
LEMMA LeaveEffect ==
  ASSUME Inv, NEW p \in Pid, NEW s \in {"Blocked", "Joining"},
         NEW now \in BOOLEAN, state[p] = "Running", Leave(p, s, now)
  PROVE  /\ Settles([state EXCEPT ![p] = s])
         /\ now /\ halted' = "no" => ~pending'
         /\ ~now => state' = [state EXCEPT ![p] = s]
         /\ UNCHANGED << quitChildren, first >>
<1> DEFINE st == [state EXCEPT ![p] = s]
           q == RemoveByPID(queue, p)
<1>1. st \in [Pid -> States] /\ Runnable(st) = Runnable(state) \ {p}
  BY QueueType DEF States, Runnable
<1>2. /\ now => DispatchOn(q, st, prio, FALSE)
      /\ ~now => state' = st
      /\ UNCHANGED << quitChildren, first >>
  BY DEF Leave
<1> HIDE DEF st
<1>3. q \in Seq(Pid) /\ IsInjective(q) /\ Range(q) = Runnable(st)
  <2>1. queue \in Seq(Pid) /\ IsInjective(queue) /\ Range(queue) = Runnable(state)
    BY QueueType
  <2> QED BY <1>1, <2>1, RemoveByPIDProps
<1> HIDE DEF q
<1>4. now => Settles(st) /\ (halted' = "no" => ~pending')
  BY <1>1, <1>2, <1>3, QueueType, DispatchSettles
<1>5. ~now => Settles(st)
  BY <1>2 DEF Settles
<1>6. Settles(st)
  BY <1>4, <1>5
<1> QED BY <1>2, <1>4, <1>6 DEF st

LEMMA BlockEffect ==
  ASSUME Inv, NEW now \in BOOLEAN, Block(now)
  PROVE  /\ GetPid \in Pid /\ state[GetPid] = "Running"
         /\ Settles([state EXCEPT ![GetPid] = "Blocked"])
         /\ now /\ halted' = "no" => ~pending'
         /\ UNCHANGED << quitChildren, first >>
<1>1. GetPid \in Pid /\ state[GetPid] = "Running" /\ Leave(GetPid, "Blocked", now)
  BY GetPidRuns DEF Block
<1> QED BY <1>1, LeaveEffect

LEMMA JoinWaitEffect ==
  ASSUME Inv, JoinWait
  PROVE  /\ GetPid \in Pid /\ state[GetPid] = "Running"
         /\ Settles([state EXCEPT ![GetPid] = "Joining"])
         /\ halted' = "no" => ~pending'
         /\ UNCHANGED << quitChildren, first >>
<1>1. GetPid \in Pid /\ state[GetPid] = "Running" /\ Leave(GetPid, "Joining", TRUE)
  BY GetPidRuns DEF JoinWait
<1> QED BY <1>1, LeaveEffect

-----------------------------------------------------------------------------
(* P1ProcInit establishes the invariant. *)
LEMMA InitInv == Init => Inv
<1> SUFFICES ASSUME Init PROVE Inv
  OBVIOUS
<1>1. << >> \in Seq(Pid) /\ DOMAIN << >> = {} /\ 0 \in Pid
  BY PidNat
<1>2. IsInjective(<< >>) /\ Range(<< >>) = {}
  BY <1>1 DEF IsInjective, Range
<1>3. Used = {} /\ Live = {}
  BY DEF Init, Used, Live
<1>4. TypeOK
  BY <1>1 DEF Init, TypeOK, States, Prio, Tag, SentinelPrio
<1>5. QueueExact
  BY <1>2 DEF Init, QueueExact
<1>6. CidIsPid /\ HeadBest /\ ListsExact /\ JoinNotMissed /\ ParentOK
  BY <1>3 DEF Init, CidIsPid, HeadBest, Executing, ListsExact, JoinNotMissed,
              ParentOK
<1> QED BY <1>4, <1>5, <1>6 DEF Inv

(* What QuitIsFinal says of one step *)
QuitFinalStep ==
  \A p \in Pid :
    /\ state[p] = "Quit" => state'[p] \in {"Quit", "Free"}
    /\ state'[p] = "Free" => \/ state[p] = "Free"
                             \/ state[p] = "Quit" /\ parent[p] = Current

(* Every step preserves the invariant. *)
LEMMA NextInv ==
  ASSUME Inv, [Next]_vars
  PROVE  Inv' /\ QuitFinalStep
<1>1. CASE Boot
  <2>1. SentinelPrio \in Prio /\ 0 \in Tag
    BY DEF SentinelPrio, Prio, Tag
  <2> QED BY <1>1, <2>1, ForkInv DEF Boot, Kept, QuitFinalStep
<1>2. CASE \E pr \in ForkPrios, tg \in Tags : ~first /\ Fork(pr, tg)
  <2>1. PICK pr \in ForkPrios, tg \in Tags : Fork(pr, tg)
    BY <1>2
  <2>2. pr \in Prio /\ tg \in Tag
    BY ForkPriosAssumption, TagsAssumption DEF Prio, Tag
  <2> QED BY <2>1, <2>2, ForkInv DEF Kept, QuitFinalStep
<1>3. CASE QuitFirst
  BY <1>3, QuitFirstInv DEF Kept, QuitFinalStep
<1>4. CASE QuitOther
  BY <1>4, QuitOtherInv DEF Kept, QuitFinalStep
<1>5. CASE \E tg \in Tags : Reap(tg)
  BY <1>5, ReapInv, TagsAssumption DEF QuitFinalStep, Tag
<1>6. CASE \E now \in BOOLEAN : Block(now)
  BY <1>6, BlockInv DEF Kept, QuitFinalStep
<1>7. CASE JoinWait
  BY <1>7, JoinWaitInv DEF Kept, QuitFinalStep
<1>8. CASE \E p \in Pid : Wake(p)
  BY <1>8, WakeInv DEF Kept, QuitFinalStep
<1>9. CASE \E rotate \in BOOLEAN : Dispatch(rotate)
  BY <1>9, DispatchInv DEF Kept, QuitFinalStep
<1>10. CASE UNCHANGED vars
  <2>1. Inv'
    BY <1>10 DEF vars, Inv, TypeOK, QueueExact, CidIsPid, HeadBest, ListsExact,
                 JoinNotMissed, ParentOK, Used, Live, Executing, Current
  <2>2. QuitFinalStep
    BY <1>10 DEF vars, QuitFinalStep
  <2> QED BY <2>1, <2>2
<1> QED BY <1>1, <1>2, <1>3, <1>4, <1>5, <1>6, <1>7, <1>8, <1>9, <1>10 DEF Next

(* The invariant holds in every reachable state. *)
LEMMA Invariance == Spec => []Inv
<1>1. Init => Inv
  BY InitInv
<1>2. Inv /\ [Next]_vars => Inv'
  BY NextInv
<1> QED BY <1>1, <1>2, PTL DEF Spec

(* Every variable keeps its type.                                          *)
THEOREM TypeCorrect == Spec => []TypeOK
BY Invariance, PTL DEF Inv

(* The dispatch queue always holds exactly the READY and RUNNING           *)
(* processes: nothing that P1_Fork, P1_Quit, P1SetState and P1Dispatch do  *)
(* to state and dispatchQueue can lose a process or dispatch a dead one.   *)
THEOREM SchedulerExact == Spec => []QueueExact
BY Invariance, PTL DEF Inv

(* Whenever a process executes, it is the head of the dispatch queue, it   *)
(* is RUNNING and nobody in the queue has a better priority (P1Dispatch).  *)
THEOREM SchedulerBest == Spec => []HeadBest
BY Invariance, PTL DEF Inv

(* Contexts and PCBs are allocated in step, with equal indices             *)
(* (P1ContextCreate in P1_Fork, P1ContextFree in P1GetChildStatus).        *)
THEOREM ContextsInStep == Spec => []CidIsPid
BY Invariance, PTL DEF Inv

(* The children and quitChildren of every living process are exact, so     *)
(* P1GetChildStatus frees only processes that have quit.                   *)
THEOREM ListsStayExact == Spec => []ListsExact
BY Invariance, PTL DEF Inv

(* Nobody sleeps in P1_Join with a quit child it was not told of.          *)
THEOREM JoinSound == Spec => []JoinNotMissed
BY Invariance, PTL DEF Inv

(* A PCB is recycled only from QUIT and only by the parent, and a process  *)
(* that has quit never runs again.                                         *)
THEOREM QuitStaysFinal == Spec => QuitIsFinal
<1>1. Inv /\ [Next]_vars => [QuitFinalStep]_vars
  BY NextInv
<1>2. QuitIsFinal <=> [][QuitFinalStep]_vars
  BY DEF QuitIsFinal, QuitFinalStep
<1> QED BY <1>1, <1>2, Invariance, PTL DEF Spec

-----------------------------------------------------------------------------
(* Who loses the CPU without having left the queue goes to its end.        *)

(* Nobody in the queue but, perhaps, its last entry has a better priority  *)
(* than the first one.                                                     *)
OnlyLastBetter(q, pr) == \A k \in 1 .. Len(q) - 1 : pr[q[1]] <= pr[q[k]]

LEMMA AppendLast ==
  ASSUME NEW S, NEW q \in Seq(S), NEW e \in S
  PROVE  Last(Append(q, e)) = e
BY AppendProperties DEF Last

LEMMA PickLast ==
  ASSUME NEW q \in Seq(Pid), NEW pr \in [Pid -> Nat], NEW rotate \in BOOLEAN,
         q # << >>, OnlyLastBetter(q, pr), NEW r, r = Pick(q, pr, rotate), r[1] # q[1]
  PROVE  Last(r) = q[1]
<1>1. /\ Len(q) \in Nat \ {0}
      /\ \A k \in 1 .. Len(q) : q[k] \in Pid /\ pr[q[k]] \in Nat
  BY ElementOfSeq, EmptySeq, LenProperties
<1>2. CASE Len(q) <= 1
  BY <1>2 DEF Pick
<1>3. CASE Len(q) > 1
  <2> DEFINE h == HighestIndex(q, pr)
             w == Swap(q, 1, h)
  <2>1. h \in 2 .. Len(q)
    BY <1>3, HighestIndexProps
  <2>2. r = IF pr[q[h]] < pr[q[1]] THEN w
            ELSE IF pr[q[h]] = pr[q[1]] /\ rotate THEN Shift(w, h) ELSE q
    BY <1>1, <1>3 DEF Pick
  <2> HIDE DEF h
  <2>3. h \in 1 .. Len(q)
    BY <1>1, <2>1
  <2>4. w \in Seq(Pid) /\ Len(w) = Len(q) /\ w[h] = q[1]
    BY <2>3, SwapProps
  <2> HIDE DEF w
  <2>5. CASE pr[q[h]] < pr[q[1]]
    <3>1. h = Len(q)
      <4>1. ~(h \in 1 .. Len(q) - 1)
        BY <1>1, <2>3, <2>5 DEF OnlyLastBetter
      <4> QED BY <1>1, <2>3, <4>1
    <3>2. r = w
      BY <2>2, <2>5
    <3> QED BY <2>4, <3>1, <3>2 DEF Last
  <2>6. CASE ~(pr[q[h]] < pr[q[1]])
    <3>1. r = Shift(w, h)
      BY <2>2, <2>6
    <3>2. h \in 1 .. Len(w)
      BY <2>3, <2>4
    <3>3. RemoveAt(w, h) \in Seq(Pid)
      BY <2>4, <3>2, RemoveAtProps
    <3>4. w[h] \in Pid
      BY <1>1, <2>4
    <3>5. Last(Append(RemoveAt(w, h), w[h])) = w[h]
      BY <3>3, <3>4, AppendLast
    <3> QED BY <2>4, <3>1, <3>5 DEF Shift
  <2> QED BY <2>5, <2>6
<1> QED BY <1>1, <1>2, <1>3

(* The same of a queue that holds c. *)
Leads(c, q, pr) == c \in Range(q) => q[1] = c /\ OnlyLastBetter(q, pr)

LEMMA RemoveKeepsFirst ==
  ASSUME NEW q \in Seq(Pid), NEW p \in Pid, q # << >>, q[1] # p
  PROVE  RemoveByPID(q, p)[1] = q[1]
<1>1. CASE Contains(q, p)
  <2>1. PICK i \in 1 .. Len(q) : q[i] = p /\ RemoveByPID(q, p) = RemoveAt(q, i)
    <3>1. Len(q) \in Nat \ {0} /\ DOMAIN q = 1 .. Len(q)
      BY EmptySeq, LenProperties
    <3> QED BY <1>1, <3>1 DEF Contains, RemoveByPID
  <2>2. Len(q) \in Nat \ {0}
    BY EmptySeq, LenProperties
  <2>3. 1 < i /\ 1 \in 1 .. Len(q) - 1
    BY <2>1, <2>2
  <2>4. RemoveAt(q, i)[1] = q[1]
    BY <2>1, <2>3, RemoveAtProps
  <2> QED BY <2>1, <2>4
<1>2. CASE ~Contains(q, p)
  BY <1>2 DEF RemoveByPID
<1> QED BY <1>1, <1>2

LEMMA InsertLeads ==
  ASSUME NEW q \in Seq(Pid), NEW x \in Pid, NEW c \in Range(q), q # << >>, q[1] = c,
         NEW pr, \A p \in Range(q) : pr[c] <= pr[p]
  PROVE  Leads(c, Insert(q, x), pr)
<1>1. Len(q) \in Nat \ {0} /\ \A k \in 1 .. Len(q) : q[k] \in Range(q)
  BY EmptySeq, LenProperties, SeqRange
<1>2. CASE Insert(q, x) = q
  BY <1>1, <1>2 DEF Leads, OnlyLastBetter
<1>3. CASE Insert(q, x) = Append(q, x)
  <2>1. /\ Len(Append(q, x)) = Len(q) + 1
        /\ \A k \in 1 .. Len(q) : Append(q, x)[k] = q[k]
    BY AppendProperties
  <2>2. \A k \in 1 .. Len(q) : pr[c] <= pr[Append(q, x)[k]]
    BY <1>1, <2>1
  <2>3. Append(q, x)[1] = c
    BY <1>1, <2>1
  <2>4. 1 .. Len(Append(q, x)) - 1 = 1 .. Len(q)
    BY <1>1, <2>1
  <2> QED BY <1>3, <2>2, <2>3, <2>4 DEF Leads, OnlyLastBetter
<1> QED BY <1>2, <1>3 DEF Insert

LEMMA SameLeads ==
  ASSUME NEW q \in Seq(Pid), NEW c, NEW pr, c \in Range(q) => q[1] = c,
         \A p \in Range(q) : pr[c] <= pr[p]
  PROVE  Leads(c, q, pr)
<1>1. Len(q) \in Nat /\ \A k \in 1 .. Len(q) : q[k] \in Range(q)
  BY LenProperties, SeqRange
<1> QED BY <1>1 DEF Leads, OnlyLastBetter

(* P1Dispatch on such a queue *)
LEMMA DispatchLast ==
  ASSUME NEW q \in Seq(Pid), IsInjective(q), NEW pr \in [Pid -> Nat],
         NEW rotate \in BOOLEAN, NEW st, DispatchOn(q, st, pr, rotate),
         NEW c, Leads(c, q, pr), c \in Range(queue'), queue'[1] # c
  PROVE  Last(queue') = c
<1>1. CASE q = << >>
  <2>1. queue' = << >>
    BY <1>1 DEF DispatchOn
  <2> QED BY <2>1, NoEntries DEF Range, Entries
<1>2. CASE q # << >>
  <2>1. queue' = Pick(q, pr, rotate)
    BY <1>2 DEF DispatchOn
  <2>2. Range(queue') = Range(q)
    BY <2>1, PickProps
  <2>3. q[1] = c /\ OnlyLastBetter(q, pr)
    BY <2>2 DEF Leads
  <2> QED BY <1>2, <2>1, <2>3, PickLast
<1> QED BY <1>1, <1>2

LEMMA NotEmptyRange ==
  ASSUME NEW q, NEW c \in Range(q)
  PROVE  q # << >>
BY DEF Range

LEMMA QueueNow ==
  ASSUME Inv, Executing
  PROVE  /\ queue \in Seq(Pid) /\ queue # << >> /\ IsInjective(queue)
         /\ state \in [Pid -> States] /\ prio \in [Pid -> Nat]
         /\ Current \in Pid /\ Current \in Range(queue) /\ queue[1] = Current
         /\ state[Current] = "Running"
         /\ \A p \in Range(queue) : prio[Current] <= prio[p]
<1>1. /\ queue \in Seq(Pid) /\ queue # << >> /\ IsInjective(queue)
      /\ state[Current] = "Running"
      /\ \A p \in Range(queue) : prio[Current] <= prio[p]
      /\ state \in [Pid -> States] /\ prio \in [Pid -> Prio]
  BY DEF Inv, TypeOK, QueueExact, HeadBest
<1>2. Current \in Pid /\ queue[1] = Current /\ Current \in Range(queue)
  <2>1. Len(queue) \in Nat \ {0}
    BY <1>1, EmptySeq, LenProperties
  <2>2. 1 \in 1 .. Len(queue)
    BY <2>1
  <2> QED BY <1>1, <2>2, SeqRange, ElementOfSeq DEF Current
<1>3. prio \in [Pid -> Nat]
  BY <1>1 DEF Prio
<1> QED BY <1>1, <1>2, <1>3

LEMMA ForkLast ==
  ASSUME Inv, Executing, NEW pr \in Prio, NEW tg \in Tag, Fork(pr, tg),
         Current \in Range(queue'), queue'[1] # Current
  PROVE  Last(queue') = Current
<1> DEFINE j == Min(Pid \ Used)
           q == Insert(queue, j)
           np == [prio EXCEPT ![j] = pr]
           st == [state EXCEPT ![j] = "Running"]
<1>1. j \in Pid \ Used
  <2>1. Pid \ Used # {} /\ Pid \ Used \subseteq Nat
    BY PidNat DEF Fork, Used
  <2> QED BY <2>1, MinNat
<1>2. /\ queue' = q \/ DispatchOn(q, st, np, FALSE)
      /\ ~first
  BY DEF Fork, Executing
<1> HIDE DEF j
<1>3. q \in Seq(Pid) /\ IsInjective(q) /\ q[1] = Current
  BY <1>1, QueueNow, InsertProps
<1>4. np \in [Pid -> Nat]
  BY <1>1, QueueNow DEF Prio
<1>5. \A p \in Range(queue) : np[p] = prio[p]
  <2>1. \A p \in Range(queue) : p \in Pid /\ p # j
    BY <1>1 DEF Inv, QueueExact, Used
  <2>2. prio \in [Pid -> Nat]
    BY QueueNow
  <2> QED BY <2>1, <2>2
<1>6. \A p \in Range(queue) : np[Current] <= np[p]
  BY <1>5, QueueNow
<1> HIDE DEF np
<1>7. Leads(Current, q, np)
  BY <1>1, <1>6, QueueNow, InsertLeads
<1> HIDE DEF q, st
<1> QED BY <1>2, <1>3, <1>4, <1>7, DispatchLast

(* Removing whoever it is leaves the current process first, if it stays. *)
LEMMA LeaveLeads ==
  ASSUME Inv, Executing, NEW p \in Pid
  PROVE  /\ RemoveByPID(queue, p) \in Seq(Pid) /\ IsInjective(RemoveByPID(queue, p))
         /\ Range(RemoveByPID(queue, p)) = Range(queue) \ {p}
         /\ p # Current => RemoveByPID(queue, p)[1] = Current
         /\ Leads(Current, RemoveByPID(queue, p), prio)
<1>1. /\ RemoveByPID(queue, p) \in Seq(Pid) /\ IsInjective(RemoveByPID(queue, p))
      /\ Range(RemoveByPID(queue, p)) = Range(queue) \ {p}
  BY QueueNow, RemoveByPIDProps
<1>2. p # Current => RemoveByPID(queue, p)[1] = Current
  BY QueueNow, RemoveKeepsFirst
<1>3. Leads(Current, RemoveByPID(queue, p), prio)
  BY <1>1, <1>2, QueueNow, SameLeads
<1> QED BY <1>1, <1>2, <1>3

LEMMA LeaveLast ==
  ASSUME Inv, Executing, NEW p \in Pid, NEW s, NEW now \in BOOLEAN, Leave(p, s, now),
         Current \in Range(queue'), queue'[1] # Current
  PROVE  Last(queue') = Current
<1> DEFINE q == RemoveByPID(queue, p)
           st == [state EXCEPT ![p] = s]
<1>1. queue' = q \/ DispatchOn(q, st, prio, FALSE)
  BY DEF Leave
<1>2. /\ q \in Seq(Pid) /\ IsInjective(q) /\ Leads(Current, q, prio)
      /\ prio \in [Pid -> Nat]
  BY LeaveLeads, QueueNow
<1> HIDE DEF q, st
<1>3. CASE queue' = q
  BY <1>2, <1>3 DEF Leads
<1>4. CASE DispatchOn(q, st, prio, FALSE)
  BY <1>2, <1>4, DispatchLast
<1> QED BY <1>1, <1>3, <1>4

LEMMA QuitLast ==
  ASSUME Inv, Executing, QuitFirst \/ QuitOther,
         Current \in Range(queue'), queue'[1] # Current
  PROVE  Last(queue') = Current
<1>1. CASE QuitFirst
  <2> DEFINE q == RemoveByPID(queue, 0)
             st == [state EXCEPT ![0] = "Quit"]
  <2>1. queue' = q \/ DispatchOn(q, st, prio, FALSE)
    BY <1>1 DEF QuitFirst
  <2>2. /\ q \in Seq(Pid) /\ IsInjective(q) /\ Leads(Current, q, prio)
        /\ prio \in [Pid -> Nat]
    BY PidNat, LeaveLeads, QueueNow
  <2> HIDE DEF q, st
  <2>3. CASE queue' = q
    BY <2>2, <2>3 DEF Leads
  <2>4. CASE DispatchOn(q, st, prio, FALSE)
    BY <2>2, <2>4, DispatchLast
  <2> QED BY <2>1, <2>3, <2>4
<1>2. CASE QuitOther
  <2> DEFINE p == GetPid
             par == parent[p]
             q == RemoveByPID(queue, p)
             st == [state EXCEPT ![p] = "Quit"]
             wakes == WakesParent(st, par)
             next == IF wakes THEN Insert(q, par) ELSE q
             then == IF wakes THEN [st EXCEPT ![par] = "Ready"] ELSE st
  <2>1. DispatchOn(next, then, prio, FALSE) /\ p \notin {0, NoPid}
    BY <1>2 DEF QuitOther
  <2>2. p \in Pid /\ state[p] = "Running"
    BY <2>1, GetPidRuns
  <2>3. par \in Pid
    BY <2>1, <2>2 DEF Inv, ParentOK, Used
  <2>4. /\ q \in Seq(Pid) /\ IsInjective(q) /\ Leads(Current, q, prio)
        /\ Range(q) = Range(queue) \ {p} /\ prio \in [Pid -> Nat]
        /\ p # Current => q[1] = Current
    BY <2>2, LeaveLeads, QueueNow
  <2>5. wakes => par # Current
    <3>1. par = Current => st[par] # "Joining"
      BY <2>2, QueueNow
    <3> QED BY <3>1 DEF WakesParent
  <2> HIDE DEF p, st, par
  <2>6. next \in Seq(Pid) /\ IsInjective(next) /\ Leads(Current, next, prio)
    <3>1. CASE ~wakes
      BY <2>4, <3>1
    <3>2. CASE wakes
      <4>1. next \in Seq(Pid) /\ IsInjective(next) /\ Range(next) = Range(q) \cup {par}
        BY <2>3, <2>4, <3>2, InsertProps
      <4>2. CASE Current \notin Range(q)
        BY <2>5, <3>2, <4>1, <4>2 DEF Leads
      <4>3. CASE Current \in Range(q)
        <5>1. q # << >> /\ q[1] = Current
          BY <2>4, <4>3, NotEmptyRange
        <5>2. \A x \in Range(q) : prio[Current] <= prio[x]
          BY <2>4, QueueNow
        <5>3. Leads(Current, Insert(q, par), prio)
          <6> HIDE DEF q
          <6> QED BY <2>3, <2>4, <4>3, <5>1, <5>2, InsertLeads
        <5> QED BY <3>2, <4>1, <5>3
      <4> QED BY <4>2, <4>3
    <3> QED BY <3>1, <3>2
  <2> HIDE DEF next, then
  <2> QED BY <2>1, <2>4, <2>6, DispatchLast
<1> QED BY <1>1, <1>2

LEMMA WakeDispatchLast ==
  ASSUME Inv, Executing, (\E p \in Pid : Wake(p)) \/ (\E rotate \in BOOLEAN : Dispatch(rotate)),
         Current \in Range(queue'), queue'[1] # Current
  PROVE  Last(queue') = Current
<1>1. CASE \E p \in Pid : Wake(p)
  <2>1. PICK p \in Pid : Wake(p)
    BY <1>1
  <2> DEFINE q == Insert(queue, p)
             st == [state EXCEPT ![p] = "Ready"]
  <2>2. DispatchOn(q, st, prio, FALSE)
    BY <2>1 DEF Wake
  <2>3. q \in Seq(Pid) /\ IsInjective(q)
    BY QueueNow, InsertProps
  <2>4. Leads(Current, q, prio) /\ prio \in [Pid -> Nat]
    BY QueueNow, InsertLeads
  <2> HIDE DEF q, st
  <2> QED BY <2>2, <2>3, <2>4, DispatchLast
<1>2. CASE \E rotate \in BOOLEAN : Dispatch(rotate)
  <2>1. PICK rotate \in BOOLEAN : DispatchOn(queue, state, prio, rotate)
    BY <1>2 DEF Dispatch
  <2>2. Leads(Current, queue, prio)
    BY QueueNow, SameLeads
  <2> QED BY <2>1, <2>2, QueueNow, DispatchLast
<1> QED BY <1>1, <1>2

LEMMA StepGoesLast ==
  ASSUME Inv, [Next]_vars, Executing, Current \in Range(queue'), queue'[1] # Current
  PROVE  Last(queue') = Current
<1>1. CASE \E pr \in ForkPrios, tg \in Tags : ~first /\ Fork(pr, tg)
  BY <1>1, ForkLast, ForkPriosAssumption, TagsAssumption DEF Prio, Tag
<1>2. CASE (\E now \in BOOLEAN : Block(now)) \/ JoinWait
  <2>1. GetPid \in Pid
    BY <1>2, GetPidRuns DEF Block, JoinWait
  <2> QED BY <1>2, <2>1, LeaveLast DEF Block, JoinWait
<1>3. CASE (\E tg \in Tags : Reap(tg)) \/ UNCHANGED vars
  BY <1>3, QueueNow DEF Reap, vars
<1> QED BY <1>1, <1>2, <1>3, QuitLast, WakeDispatchLast DEF Next, Boot, Executing

(* Who loses the CPU and stays runnable is the last in the queue, whether  *)
(* it is preempted (where the code exchanges it with the new process) or   *)
(* its quantum is over.                                                    *)
THEOREM PreemptedLast == Spec => PreemptedGoesLast
<1> DEFINE step == \A p \in Pid : /\ Executing /\ p = Current
                                  /\ p \in Range(queue') /\ queue'[1] # p
                                  => Last(queue') = p
<1>1. Inv /\ [Next]_vars => step
  BY StepGoesLast
<1>2. PreemptedGoesLast <=> [][step]_vars
  BY DEF PreemptedGoesLast
<1> HIDE DEF step
<1> QED BY <1>1, <1>2, Invariance, PTL DEF Spec

-----------------------------------------------------------------------------
(* The family tree: whatever is forked, quits and is adopted, every living *)
(* process hangs below the sentinel.                                       *)

(* Parents do not go round in circles: of every set of processes below the *)
(* sentinel, one has its parent outside the set.  (Slots are used again in *)
(* any order, so no number in the state grows along a line of descent.)    *)
Acyclic ==
  \A S \in SUBSET (Live \ {0}) : S # {} => \E p \in S : parent[p] \notin S

(* While the machine runs, the tree hangs together and has its root. *)
Family ==
  halted = "no" =>
    /\ ~first => 0 \in Live
    /\ \A p \in Live \ {0} : parent[p] \in Live /\ p \in children[parent[p]]
    /\ Acyclic

FamilyInv == Inv /\ Family

-----------------------------------------------------------------------------
(* A process 0 without living children is alone. *)
LEMMA Alone ==
  ASSUME FamilyInv, halted = "no", children[0] = {}
  PROVE  Live \ {0} = {}
<1> SUFFICES ASSUME Live \ {0} # {} PROVE FALSE
  OBVIOUS
<1>1. PICK p \in Live \ {0} : parent[p] \notin Live \ {0}
  BY DEF FamilyInv, Family, Acyclic
<1>2. parent[p] = 0 /\ p \in children[0]
  BY <1>1 DEF FamilyInv, Family
<1> QED BY <1>2

LEMMA ListSizes ==
  ASSUME Inv, NEW p \in Pid
  PROVE  /\ children[p] \subseteq Pid /\ IsFiniteSet(children[p])
         /\ Cardinality(children[p]) \in Nat
         /\ quitChildren[p] \in Seq(Pid) /\ Len(quitChildren[p]) \in Nat
<1>1. children[p] \subseteq Pid /\ quitChildren[p] \in Seq(Pid)
  BY DEF Inv, TypeOK
<1>2. IsFiniteSet(Pid)
  BY MaxProcAssumption, FS_Interval DEF Pid
<1>3. IsFiniteSet(children[p])
  BY <1>1, <1>2, FS_Subset
<1> QED BY <1>1, <1>3, FS_CardinalityType, LenProperties

LEMMA NoChildren ==
  ASSUME Inv, NumChildren(0) = 0
  PROVE  children[0] = {} /\ quitChildren[0] = << >>
<1>1. /\ IsFiniteSet(children[0]) /\ Cardinality(children[0]) \in Nat
      /\ quitChildren[0] \in Seq(Pid) /\ Len(quitChildren[0]) \in Nat
  BY PidNat, ListSizes
<1>2. Cardinality(children[0]) = 0 /\ Len(quitChildren[0]) = 0
  BY <1>1 DEF NumChildren
<1> QED BY <1>1, <1>2, FS_EmptySet, EmptySeq

(* A step that leaves the living processes and their families alone *)
LEMMA SameFamilyTree ==
  ASSUME FamilyInv, halted' = "no" => halted = "no",
         Live' = Live, UNCHANGED << parent, children, first >>
  PROVE  Family'
BY DEF FamilyInv, Family, Acyclic

LEMMA SameLive ==
  ASSUME state' \in [Pid -> States],
         \A p \in Pid : state'[p] \in {"Free", "Quit"} <=> state[p] \in {"Free", "Quit"}
  PROVE  Live' = Live
BY DEF Live

(* P1_Fork: the child is a new leaf. *)
LEMMA ForkFamily ==
  ASSUME FamilyInv, NEW pr \in Prio, NEW tg \in Tag, Fork(pr, tg)
  PROVE  Family'
<1> DEFINE c == FreeContext
<1>1. /\ c \in Pid /\ state[c] = "Free" /\ c = Min(Pid \ Used)
      /\ Settles([state EXCEPT ![c] = "Running"])
      /\ halted' = "no" /\ halted = "no" /\ Inv'
  <2>1. c \in Pid \ Used /\ c = Min(Pid \ Used) /\ Inv'
        /\ Settles([state EXCEPT ![c] = "Running"]) /\ halted' = "no"
    BY ForkInv DEF FamilyInv
  <2> QED BY <2>1 DEF Fork, Used
<1>2. /\ parent' = [parent EXCEPT ![c] = IF first THEN NoPid ELSE Current]
      /\ children' = IF first THEN [children EXCEPT ![c] = {}]
                     ELSE [children EXCEPT ![c] = {}, ![Current] = @ \cup {c}]
      /\ first' = FALSE
  BY <1>1, Zenon DEF Fork, FillPCB
<1>3. /\ state \in [Pid -> States] /\ parent \in [Pid -> Pid \cup {NoPid}]
      /\ children \in [Pid -> SUBSET Pid] /\ state' \in [Pid -> States]
  BY <1>1 DEF FamilyInv, Inv, TypeOK
<1> HIDE DEF c
<1>4. Live' = Live \cup {c} /\ c \notin Live /\ Live \subseteq Pid
  BY <1>1, <1>3 DEF Live, Settles, States
<1>5. CASE first
  <2>1. Live = {}
    BY <1>5 DEF FamilyInv, Inv, ParentOK, Live, Used
  <2>2. 0 \in Live'
    <3>1. 0 \in Used'
      BY <1>1, <1>2 DEF Inv, ParentOK
    <3>2. \A p \in Pid : state[p] = "Free"
      BY <1>5 DEF FamilyInv, Inv, ParentOK, Used
    <3>3. \A p \in Pid : p # c => state'[p] = "Free"
      BY <1>1, <1>3, <3>2 DEF Settles
    <3>4. 0 = c
      BY <3>1, <3>3 DEF Used
    <3> QED BY <1>4, <3>4
  <2>3. Live' = {0}
    BY <1>4, <2>1, <2>2
  <2> QED BY <2>3 DEF Family, Acyclic
<1>6. CASE ~first
  <2>1. Current \in Live /\ Current # c /\ 0 \in Live
    <3>1. Executing
      BY <1>6 DEF Fork, Executing
    <3>2. Current \in Live
      BY <3>1, CurrentLives DEF FamilyInv, Live
    <3> QED BY <1>1, <1>4, <1>6, <3>2 DEF FamilyInv, Family
  <2>2. /\ parent'[c] = Current /\ c \in children'[Current]
        /\ \A p \in Pid \ {c} : parent'[p] = parent[p] /\ children[p] \subseteq children'[p]
    BY <1>1, <1>2, <1>3, <1>4, <1>6, <2>1
  <2>3. ASSUME NEW p \in Live' \ {0}
        PROVE  parent'[p] \in Live' /\ p \in children'[parent'[p]]
    <3>1. CASE p = c
      BY <1>4, <2>1, <2>2, <3>1
    <3>2. CASE p # c
      <4>1. parent[p] \in Live /\ p \in children[parent[p]]
        BY <1>1, <1>4, <3>2 DEF FamilyInv, Family
      <4> QED BY <1>4, <2>2, <3>2, <4>1
    <3> QED BY <3>1, <3>2
  <2>4. ASSUME NEW S \in SUBSET (Live' \ {0}), S # {}
        PROVE  \E p \in S : parent'[p] \notin S
    <3>1. CASE S = {c}
      BY <2>1, <2>2, <3>1
    <3>2. CASE S # {c}
      <4>1. S \ {c} # {} /\ S \ {c} \in SUBSET (Live \ {0})
        BY <1>4, <2>4, <3>2
      <4>2. PICK p \in S \ {c} : parent[p] \notin S \ {c}
        BY <1>1, <4>1 DEF FamilyInv, Family, Acyclic
      <4>3. parent[p] \in Live /\ parent'[p] = parent[p]
        BY <1>1, <1>4, <2>2, <4>1, <4>2 DEF FamilyInv, Family
      <4> QED BY <1>4, <4>2, <4>3
    <3> QED BY <3>1, <3>2
  <2> QED BY <1>4, <2>1, <2>3, <2>4 DEF Family, Acyclic
<1> QED BY <1>5, <1>6

(* P1_Quit of process 0: alone, it halts the machine. *)
LEMMA QuitFirstFamily ==
  ASSUME FamilyInv, QuitFirst
  PROVE  /\ halted' # "no"
         /\ NumChildren(0) = 0 => halted' = "empty" /\ Live' = {}
<1> DEFINE q == RemoveByPID(queue, 0)
<1>1. halted = "no" /\ 0 \in Pid /\ state[0] = "Running"
  BY GetPidRuns, PidNat DEF QuitFirst, Executing, NoPid
<1>2. CASE NumChildren(0) > 0
  BY <1>2 DEF QuitFirst
<1>3. CASE ~(NumChildren(0) > 0)
  <2>1. NumChildren(0) = 0
    <3>1. Cardinality(children[0]) \in Nat /\ Len(quitChildren[0]) \in Nat
      BY <1>1, ListSizes DEF FamilyInv
    <3> QED BY <1>3, <3>1 DEF NumChildren
  <2>2. Live \ {0} = {}
    BY <1>1, <2>1, NoChildren, Alone DEF FamilyInv
  <2>3. q \in Seq(Pid) /\ Range(q) = Range(queue) \ {0}
    BY <1>1, RemoveByPIDProps DEF FamilyInv, Inv, TypeOK, QueueExact
  <2>4. Range(queue) \subseteq Live
    BY DEF FamilyInv, Inv, QueueExact, Live
  <2> HIDE DEF q
  <2>5. Range(q) = {}
    BY <2>2, <2>3, <2>4
  <2>6. q = << >>
    <3>1. Range(q) = {q[i] : i \in 1 .. Len(q)} /\ Len(q) \in Nat
      BY <2>3, SeqRange
    <3>2. Len(q) = 0
      <4> SUFFICES ASSUME Len(q) # 0 PROVE FALSE
        OBVIOUS
      <4>1. 1 \in 1 .. Len(q)
        BY <3>1
      <4>2. q[1] \in Range(q)
        BY <3>1, <4>1
      <4> QED BY <2>5, <4>2
    <3> QED BY <2>3, <3>2, EmptySeq
  <2>7. halted' = "empty"
    BY <1>3, <2>6 DEF QuitFirst, DispatchOn, q
  <2>8. Live' = {}
    <3>1. Settles([state EXCEPT ![0] = "Quit"])
      BY QuitFirstInv DEF FamilyInv
    <3>2. \A p \in Pid : p # 0 => p \notin Live
      BY <2>2
    <3>3. state \in [Pid -> States]
      BY DEF FamilyInv, Inv, TypeOK
    <3> QED BY <1>1, <3>1, <3>2, <3>3 DEF Live, Settles
  <2> QED BY <2>1, <2>7, <2>8
<1> QED BY <1>2, <1>3

(* P1_Quit of another process: its children hang below process 0.          *)
LEMMA QuitOtherFamily ==
  ASSUME FamilyInv, QuitOther
  PROVE  Family'
<1> DEFINE p == GetPid
           par == parent[p]
<1>1. /\ halted = "no" /\ ~first /\ p \in Pid \ {0} /\ state[p] = "Running"
      /\ par \in Pid \ {p}
      /\ \A r \in Pid : /\ state'[r] = "Free" <=> state[r] = "Free"
                        /\ state'[r] = "Quit" <=> state[r] = "Quit" \/ r = p
  BY GetPidRuns, QuitOtherInv DEF QuitOther, Executing, FamilyInv
<1>2. /\ parent' = [c \in Pid |-> IF c \in children[p] THEN 0 ELSE parent[c]]
      /\ children' = [[children EXCEPT ![0] = @ \cup children[p]]
                       EXCEPT ![par] = @ \ {p}]
      /\ first' = first
  BY DEF QuitOther, AdoptedParent, AdoptedLists
<1> HIDE DEF p, par
<1>3. Live' = Live \ {p} /\ p \in Live /\ Live \subseteq Pid
  BY <1>1 DEF Live
<1>4. 0 \in Live /\ 0 \in Pid /\ children \in [Pid -> SUBSET Pid]
  BY <1>1, PidNat DEF FamilyInv, Family, Inv, TypeOK
<1>5. ASSUME NEW r \in Live' \ {0}
      PROVE  /\ parent'[r] \in Live' /\ r \in children'[parent'[r]]
             /\ parent'[r] \in {0, parent[r]}
  <2>1. r \in Pid /\ r # p /\ r \in Live \ {0}
    BY <1>3
  <2>2. parent[r] \in Live /\ r \in children[parent[r]]
    BY <1>1, <2>1 DEF FamilyInv, Family
  <2>3. CASE r \in children[p]
    <3>1. parent'[r] = 0
      BY <1>2, <2>1, <2>3
    <3>2. r \in children'[0]
      BY <1>1, <1>2, <1>4, <2>1, <2>3
    <3> QED BY <1>1, <1>3, <1>4, <3>1, <3>2
  <2>4. CASE r \notin children[p]
    <3>1. parent'[r] = parent[r] /\ parent[r] # p
      BY <1>2, <2>1, <2>2, <2>4
    <3>2. r \in children'[parent[r]]
      BY <1>1, <1>2, <1>3, <1>4, <2>1, <2>2
    <3> QED BY <1>3, <2>2, <3>1, <3>2
  <2> QED BY <2>3, <2>4
<1>6. ASSUME NEW S \in SUBSET (Live' \ {0}), S # {}
      PROVE  \E r \in S : parent'[r] \notin S
  <2>1. PICK r \in S : parent[r] \notin S
    BY <1>1, <1>3, <1>6 DEF FamilyInv, Family, Acyclic
  <2> QED BY <1>5, <1>6, <2>1
<1> QED BY <1>1, <1>3, <1>4, <1>5, <1>6 DEF Family, Acyclic

(* The other steps neither start nor end a process. *)
LEMMA OtherFamily ==
  ASSUME FamilyInv,
         \/ \E tg \in Tag : Reap(tg)
         \/ \E now \in BOOLEAN : Block(now)
         \/ JoinWait
         \/ \E p \in Pid : Wake(p)
         \/ \E rotate \in BOOLEAN : Dispatch(rotate)
         \/ UNCHANGED vars
  PROVE  Family'
<1>1. CASE \E tg \in Tag : Reap(tg)
  <2>1. PICK tg \in Tag : Reap(tg)
    BY <1>1
  <2>2. Live' = Live
    BY <2>1, ReapInv DEF FamilyInv, Inv, TypeOK, Live
  <2> QED BY <2>1, <2>2, SameFamilyTree DEF Reap
<1>2. CASE \/ \E now \in BOOLEAN : Block(now)
           \/ JoinWait
           \/ \E p \in Pid : Wake(p)
           \/ \E rotate \in BOOLEAN : Dispatch(rotate)
  <2>1. Live' = Live
    <3>1. ASSUME NEW st \in [Pid -> States], Settles(st),
                 \A p \in Pid : st[p] \in {"Free", "Quit"} <=> state[p] \in {"Free", "Quit"}
          PROVE  Live' = Live
      BY <3>1 DEF Settles, Live
    <3>2. state \in [Pid -> States]
      BY DEF FamilyInv, Inv, TypeOK
    <3>3. CASE \E now \in BOOLEAN : Block(now)
      BY <3>1, <3>2, <3>3, BlockEffect DEF FamilyInv, States
    <3>4. CASE JoinWait
      BY <3>1, <3>2, <3>4, JoinWaitEffect DEF FamilyInv, States
    <3>5. CASE \E p \in Pid : Wake(p)
      BY <3>1, <3>2, <3>5, WakeEffect DEF FamilyInv, States
    <3>6. CASE \E rotate \in BOOLEAN : Dispatch(rotate)
      BY <3>1, <3>2, <3>6, DispatchEffect DEF FamilyInv
    <3> QED BY <1>2, <3>3, <3>4, <3>5, <3>6
  <2>2. UNCHANGED << parent, children, first >> /\ halted = "no"
    BY <1>2 DEF Block, JoinWait, Wake, Dispatch, Leave, Executing
  <2> QED BY <2>1, <2>2, SameFamilyTree
<1>3. CASE UNCHANGED vars
  BY <1>3, SameFamilyTree DEF vars, Live
<1> QED BY <1>1, <1>2, <1>3

(* Every step keeps the family together. *)
LEMMA FamilyStep ==
  ASSUME FamilyInv, [Next]_vars
  PROVE  FamilyInv'
<1>1. Inv'
  BY NextInv DEF FamilyInv
<1>2. Family'
  <2>1. CASE Boot \/ \E pr \in ForkPrios, tg \in Tags : ~first /\ Fork(pr, tg)
    BY <2>1, ForkFamily, ForkPriosAssumption, TagsAssumption
       DEF Boot, SentinelPrio, Prio, Tag
  <2>2. CASE QuitFirst
    BY <2>2, QuitFirstFamily DEF Family
  <2>3. CASE QuitOther
    BY <2>3, QuitOtherFamily
  <2>4. CASE \E tg \in Tags : Reap(tg)
    BY <2>4, TagsAssumption, OtherFamily DEF Tag
  <2>5. CASE \/ \E now \in BOOLEAN : Block(now)
             \/ JoinWait
             \/ \E p \in Pid : Wake(p)
             \/ \E rotate \in BOOLEAN : Dispatch(rotate)
             \/ UNCHANGED vars
    BY <2>5, OtherFamily
  <2> QED BY <2>1, <2>2, <2>3, <2>4, <2>5 DEF Next
<1> QED BY <1>1, <1>2 DEF FamilyInv

(* The family holds together from the first process on. *)
LEMMA FamilyInvariance == Spec => []FamilyInv
<1>1. Init => FamilyInv
  BY InitInv DEF Init, FamilyInv, Family, Acyclic, Live
<1>2. FamilyInv /\ [Next]_vars => FamilyInv'
  BY FamilyStep
<1> QED BY <1>1, <1>2, PTL DEF Spec

(* However processes fork, quit and are adopted, every living process but  *)
(* the sentinel is listed by a living parent (P1_Fork, P1_Quit).           *)
THEOREM FamilyHangsTogether == Spec => []FamilyTree
<1>1. FamilyInv => FamilyTree
  BY DEF FamilyInv, Family, FamilyTree
<1> QED BY <1>1, FamilyInvariance, PTL
=============================================================================
