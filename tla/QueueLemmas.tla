----------------------------- MODULE QueueLemmas -----------------------------
(***************************************************************************)
(* Facts about sequences and numbers that the proofs of several components *)
(* need: what Append and Tail do to a queue in which nobody is twice, and  *)
(* that Min finds the least of a set of natural numbers.                   *)
(***************************************************************************)
EXTENDS Integers, FiniteSetsExt, SequenceTheorems, FiniteSetTheorems, TLAPS

(* A nonempty set of natural numbers has a least element, which Min finds. *)
LEMMA MinNat ==
  ASSUME NEW T, T \subseteq Nat, T # {}
  PROVE  Min(T) \in T /\ \A y \in T : Min(T) <= y
<1> DEFINE R == OpToRel(<, Nat)
<1>1. IsWellFoundedOn(R, Nat)
  BY NatLessThanWellFounded
<1>2. PICK x \in T : \A y \in T : ~ (<<y, x>> \in R)
  <2> HIDE DEF R
  <2> QED BY <1>1, WFMin
<1>3. ASSUME NEW y \in T PROVE x <= y
  <2>1. <<y, x>> \in Nat \X Nat
    OBVIOUS
  <2>2. ~ (y < x)
    BY <1>2, <2>1, Zenon DEF OpToRel
  <2> QED BY <2>2
<1> QED BY <1>3 DEF Min

(* Who is in a queue, and that nobody is there twice *)
Entries(q) == {q[k] : k \in 1 .. Len(q)}
Once(q) == \A j, k \in 1 .. Len(q) : q[j] = q[k] => j = k

LEMMA AppendEntries ==
  ASSUME NEW S, NEW q \in Seq(S), NEW x \in S, Once(q), x \notin Entries(q)
  PROVE  /\ Append(q, x) \in Seq(S) /\ Len(Append(q, x)) = Len(q) + 1
         /\ Once(Append(q, x)) /\ Entries(Append(q, x)) = Entries(q) \cup {x}
<1>1. /\ Append(q, x) \in Seq(S) /\ Len(Append(q, x)) = Len(q) + 1
      /\ Append(q, x)[Len(q) + 1] = x /\ Len(q) \in Nat
      /\ \A k \in 1 .. Len(q) : Append(q, x)[k] = q[k]
  BY AppendProperties, LenProperties
<1>2. \A k \in 1 .. Len(q) + 1 : k \in 1 .. Len(q) \/ k = Len(q) + 1
  BY <1>1
<1> DEFINE a == Append(q, x)
<1> HIDE DEF a
<1>3. Once(a)
  <2> SUFFICES ASSUME NEW j \in 1 .. Len(q) + 1, NEW k \in 1 .. Len(q) + 1, a[j] = a[k]
               PROVE  j = k
    BY <1>1 DEF Once, a
  <2> QED BY <1>1, <1>2 DEF Once, Entries, a
<1>4. Entries(a) = Entries(q) \cup {x}
  <2>1. 1 .. Len(a) = 1 .. Len(q) \cup {Len(q) + 1}
    BY <1>1 DEF a
  <2> QED BY <1>1, <2>1 DEF Entries, a
<1> QED BY <1>1, <1>3, <1>4 DEF a

LEMMA TailEntries ==
  ASSUME NEW S, NEW q \in Seq(S), q # << >>, Once(q)
  PROVE  /\ Tail(q) \in Seq(S) /\ Len(Tail(q)) = Len(q) - 1
         /\ Head(q) \in S /\ Head(q) \in Entries(q)
         /\ Once(Tail(q)) /\ Entries(Tail(q)) = Entries(q) \ {Head(q)}
<1>1. /\ Tail(q) \in Seq(S) /\ Len(Tail(q)) = Len(q) - 1 /\ Head(q) = q[1] /\ Head(q) \in S
      /\ Len(q) \in Nat /\ Len(q) > 0
      /\ \A k \in 1 .. Len(q) - 1 : Tail(q)[k] = q[k + 1]
  BY HeadTailProperties, LenProperties, EmptySeq
<1> DEFINE t == Tail(q)
<1> HIDE DEF t
<1>2. Once(t)
  <2> SUFFICES ASSUME NEW j \in 1 .. Len(q) - 1, NEW k \in 1 .. Len(q) - 1, t[j] = t[k]
               PROVE  j = k
    BY <1>1 DEF Once, t
  <2>1. q[j + 1] = q[k + 1] /\ j + 1 \in 1 .. Len(q) /\ k + 1 \in 1 .. Len(q)
    BY <1>1 DEF t
  <2> QED BY <2>1 DEF Once
<1>3. Entries(t) \subseteq Entries(q) \ {Head(q)}
  <2> SUFFICES ASSUME NEW k \in 1 .. Len(q) - 1
               PROVE  t[k] \in Entries(q) /\ t[k] # q[1]
    BY <1>1 DEF Entries, t
  <2>1. t[k] = q[k + 1] /\ k + 1 \in 1 .. Len(q) /\ k + 1 # 1 /\ 1 \in 1 .. Len(q)
    BY <1>1 DEF t
  <2> QED BY <2>1 DEF Entries, Once
<1>4. Entries(q) \ {Head(q)} \subseteq Entries(t)
  <2> SUFFICES ASSUME NEW k \in 1 .. Len(q), q[k] # q[1]
               PROVE  q[k] \in Entries(t)
    BY <1>1 DEF Entries
  <2>1. k - 1 \in 1 .. Len(q) - 1 /\ t[k - 1] = q[k]
    BY <1>1 DEF t
  <2> QED BY <1>1, <2>1 DEF Entries, t
<1>5. Head(q) \in Entries(q)
  BY <1>1 DEF Entries
<1> QED BY <1>1, <1>2, <1>3, <1>4, <1>5 DEF t

LEMMA NoEntries == Once(<< >>) /\ Entries(<< >>) = {}
BY DEF Once, Entries
=============================================================================
