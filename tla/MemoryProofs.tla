---------------------------- MODULE MemoryProofs ----------------------------
(***************************************************************************)
(* With one pager, VM implements Memory: a step of the pager, wherever it  *)
(* takes a page from or to, changes no contents (PagerUnseen), and a step  *)
(* of a process or of the shutdown changes them as Memory allows (UserSeen *)
(* and BossSeen).                                                          *)
(***************************************************************************)
EXTENDS VMProofs

(* What the pager is doing with the page it takes out of a frame, reads    *)
(* from its block, or sets to zero                                         *)
Outs == {"outmap", "outcopy", "write"}
Fetches == {"readmap", "readcopy"}
Zeros == {"zeromap", "zerocopy"}

(* The pager has the fault of a page that is not in core yet. *)
Seeks(q) == Serving(q) /\ pg[q].pc \notin Zeros \cup {"update"}

(* A frame has a block only with a page that is in it, or on its way out. *)
Backed == \A f \in Frames : blockNum[f] # None =>
  \/ \E q \in Pagers : pg[q].pc \in Outs /\ pg[q].frame = f
  \/ \E p \in Users, g \in Pages : InCore(p, g) /\ table[p][g] = f

(* What is in a frame differs from what is in the block: the MMU keeps it  *)
(* in mind from the time that the pager has filled the frame.              *)
Dirtied == \A p \in Users, g \in Pages :
  InCore(p, g) => Zeroing(p, g) \/ dirty[table[p][g]]

(* Nobody waits for a page that is in core. *)
Absent ==
  /\ \A p \in Users : p \in Entries(queue) => ~InCore(p, page[p])
  /\ \A q \in Pagers : Seeks(q) => ~InCore(pg[q].of, page[pg[q].of])

(* The pager has read what is in the block. *)
Fetched == \A q \in Pagers :
  pg[q].pc \in Fetches => pg[q].buf = disk[Min(BlocksOf(pg[q].of, page[pg[q].of]))]

Bare == \A p \in Users : at[p] = "none" => table[p] = NoTable

(* The invariant, besides OneInv *)
Kept == Backed /\ Dirtied /\ Absent /\ Fetched /\ Bare

-----------------------------------------------------------------------------
(* Where the contents of a page are, if q is the only pager *)
Alone(q) == \A r \in Pagers : r # q => pg[r].pc = "quit"

Taking(q, p, g) ==
  q \in Pagers /\ pg[q].pc \in Outs /\ block[blockNum[pg[q].frame]] = << p, g >>

Clearing(q, p, g) == q \in Pagers /\ pg[q].pc \in Zeros /\ pg[q].of = p /\ page[p] = g

Here(q, p, g) ==
  IF table[p] = NoTable \/ Clearing(q, p, g) THEN Zero
  ELSE IF InCore(p, g) THEN content[table[p][g]]
  ELSE IF Taking(q, p, g)
       THEN IF pg[q].pc = "write" THEN pg[q].buf ELSE content[pg[q].frame]
  ELSE IF BlocksOf(p, g) # {} THEN disk[Min(BlocksOf(p, g))] ELSE Zero

LEMMA HoldsHere ==
  ASSUME NEW q, Alone(q), NEW p, NEW g
  PROVE  Holds(p, g) = Here(q, p, g)
<1>1. Zeroing(p, g) <=> Clearing(q, p, g)
  BY DEF Zeroing, Clearing, Alone, Zeros
<1>2. Outgoing(p, g) = IF Taking(q, p, g) THEN {q} ELSE {}
  BY DEF Outgoing, Taking, Alone, Outs
<1>3. Taking(q, p, g) => (CHOOSE r \in Outgoing(p, g) : TRUE) = q
  BY <1>2
<1> QED BY <1>1, <1>2, <1>3 DEF Holds, Here

LEMMA HoldsHereNext ==
  ASSUME NEW q, Alone(q)', NEW p, NEW g
  PROVE  Holds(p, g)' = Here(q, p, g)'
<1>1. Zeroing(p, g)' <=> Clearing(q, p, g)'
  BY DEF Zeroing, Clearing, Alone, Zeros
<1>2. Outgoing(p, g)' = IF Taking(q, p, g)' THEN {q} ELSE {}
  BY DEF Outgoing, Taking, Alone, Outs
<1>3. Taking(q, p, g)' => (CHOOSE r \in Outgoing(p, g)' : TRUE) = q
  BY <1>2
<1> QED BY <1>1, <1>2, <1>3 DEF Holds, Here

LEMMA OneAtWork ==
  ASSUME OnePager, OneInv
  PROVE  \E q : Alone(q)
<1>1. \A q, r \in Pagers : pg[q].pc # "quit" /\ pg[r].pc # "quit" => q = r
  BY DEF OnePager, OneInv, SafeInv, Stopping, VMTypeOK
<1> QED BY <1>1 DEF Alone

LEMMA PagerAlone ==
  ASSUME OnePager, OneInv, NEW q \in Pagers, PagerStep(q)
  PROVE  /\ Alone(q) /\ Alone(q)' /\ \A r \in Pagers : r # q => pg'[r] = pg[r]
         /\ at' = at /\ page' = page
<1>1. \A r \in Pagers : r # q => pg'[r] = pg[r] /\ pg[r].pc = "quit"
  BY OthersQuit DEF OneInv
<1>2. at' = at /\ page' = page
  BY OthersKeep DEF OneInv, SafeInv, Beside
<1> QED BY <1>1, <1>2 DEF Alone

-----------------------------------------------------------------------------
(* A step of the pager that moves no page *)
Quiet(q) ==
  /\ table' = table /\ block' = block /\ blockNum' = blockNum
  /\ dirty' = dirty /\ content' = content /\ disk' = disk
  /\ Entries(queue)' \subseteq Entries(queue)
  /\ pg'[q].pc \in Outs <=> pg[q].pc \in Outs
  /\ pg[q].pc \in Outs =>
       /\ pg'[q].frame = pg[q].frame
       /\ pg'[q].pc = "write" =>
            pg'[q].buf = IF pg[q].pc = "write" THEN pg[q].buf ELSE content[pg[q].frame]
       /\ pg[q].pc = "write" => pg'[q].pc = "write"
  /\ pg'[q].pc \in Zeros <=> pg[q].pc \in Zeros
  /\ pg[q].pc \in Zeros => pg'[q].of = pg[q].of
  /\ Seeks(q)' => (Seeks(q) /\ pg'[q].of = pg[q].of)
                    \/ (pg'[q].of \in Entries(queue) /\ pg'[q].of \in Users)
  /\ pg'[q].pc \in Fetches
       => pg'[q].buf = disk[Min(BlocksOf(pg'[q].of, page[pg'[q].of]))]

LEMMA QuietHolds ==
  ASSUME NEW q \in Pagers, Quiet(q), page' = page, NEW p \in Users, NEW g \in Pages
  PROVE  Here(q, p, g)' = Here(q, p, g)
<1>1. Clearing(q, p, g)' <=> Clearing(q, p, g)
  BY DEF Quiet, Clearing
<1>2. Taking(q, p, g)' <=> Taking(q, p, g)
  BY DEF Quiet, Taking
<1>3. BlocksOf(p, g)' = BlocksOf(p, g) /\ (InCore(p, g)' <=> InCore(p, g))
  BY DEF Quiet, BlocksOf, InCore
<1>4. Taking(q, p, g) =>
        (IF pg[q].pc = "write" THEN pg[q].buf ELSE content[pg[q].frame])
          = (IF pg'[q].pc = "write" THEN pg'[q].buf ELSE content'[pg'[q].frame])
  BY DEF Quiet, Taking
<1>5. table' = table /\ content' = content /\ disk' = disk
  BY DEF Quiet
<1> QED BY <1>1, <1>2, <1>3, <1>4, <1>5 DEF Here

LEMMA QuietKeeps ==
  ASSUME Kept, NEW q \in Pagers, Quiet(q), at' = at, page' = page,
         \A r \in Pagers : r # q => pg'[r] = pg[r] /\ pg[r].pc = "quit"
  PROVE  Kept'
<1> USE DEF Kept
<1>1. Backed'
  <2>1. \A p \in Users, g \in Pages : InCore(p, g)' <=> InCore(p, g)
    BY DEF Quiet, InCore
  <2> QED BY <2>1 DEF Quiet, Backed
<1>2. Dirtied'
  <2>1. ASSUME NEW p \in Users, NEW g \in Pages
        PROVE  (InCore(p, g)' <=> InCore(p, g)) /\ (Zeroing(p, g) => Zeroing(p, g)')
    BY DEF Quiet, InCore, Zeroing, Zeros
  <2> QED BY <2>1 DEF Quiet, Dirtied
<1>3. Absent'
  <2>1. \A r \in Pagers : r # q => ~Seeks(r)'
    BY DEF Seeks, Serving, Working
  <2>2. \A p : InCore(p, page[p])' <=> InCore(p, page[p])
    BY DEF Quiet, InCore
  <2> QED BY <2>1, <2>2 DEF Quiet, Absent
<1>4. Fetched'
  <2>1. \A x, g : BlocksOf(x, g)' = BlocksOf(x, g)
    BY DEF Quiet, BlocksOf
  <2>2. \A r \in Pagers : r # q => pg'[r].pc \notin Fetches
    BY DEF Fetches
  <2> QED BY <2>1, <2>2 DEF Quiet, Fetched
<1>5. Bare'
  BY DEF Quiet, Bare
<1> QED BY <1>1, <1>2, <1>3, <1>4, <1>5

LEMMA QuietStep1 ==
  ASSUME OneInv, NEW q \in Pagers,
         Ready(q) \/ Take(q) \/ TakeFrame(q) \/ SwapOut(q) \/ OutMap(q) \/ OutCopy(q)
           \/ ReadMap(q) \/ ZeroMap(q)
  PROVE  Kept => Quiet(q)
<1> SUFFICES ASSUME Kept PROVE Quiet(q)
  OBVIOUS
<1>0. VMTypeOK /\ FaultsOnce /\ pg \in [Pagers -> PagerType]
  BY DEF OneInv, SafeInv, VMTypeOK
<1>1. /\ table' = table /\ block' = block /\ blockNum' = blockNum
      /\ dirty' = dirty /\ content' = content /\ disk' = disk
  BY DEF Ready, Take, TakeFrame, SwapOut, OutMap, OutCopy, ReadMap, ZeroMap,
         swapVars, poolVars, infoVars, blockVars, mmuVars
<1>2. CASE Take(q)
  <2>1. Entries(queue') \subseteq Entries(queue)
    BY <1>0, <1>2, HeadTail DEF Take
  <2>2. CASE pg' = pg /\ pg[q].pc = "take"
    BY <1>1, <2>1, <2>2 DEF Quiet, Outs, Zeros, Fetches, Seeks, Serving, Working, Entries
  <2>3. CASE queue # << >> /\ pg' # pg
    <3>1. /\ Head(queue) \in Entries(queue) /\ Head(queue) \in Users \cup {Boss}
          /\ pg[q].pc = "take"
          /\ \/ pg'[q].pc = "quit"
             \/ pg'[q].pc = "pick" /\ pg'[q].of = Head(queue) /\ Head(queue) # Boss
      BY <1>0, <1>2, <2>3, HeadTail DEF Take, To, PagerType
    <3> QED BY <1>1, <2>1, <3>1 DEF Quiet, Outs, Zeros, Fetches, Seeks, Serving, Working, Entries
  <2> QED BY <1>2, <2>2, <2>3 DEF Take
<1>3. CASE ~Take(q)
  <2>1. Entries(queue)' = Entries(queue)
    BY <1>3 DEF Ready, TakeFrame, SwapOut, OutMap, OutCopy, ReadMap, ZeroMap, faultVars, Entries
  <2> USE DEF To, Outs, Zeros, Fetches, Seeks, Serving, Working
  <2>2. CASE Ready(q) \/ SwapOut(q)
    BY <1>0, <1>1, <2>1, <2>2 DEF Ready, SwapOut, Quiet, PagerType
  <2>3. CASE TakeFrame(q)
    <3>1. pg[q].pc = "pick" /\ pg'[q].pc \in {"in", "out"} /\ pg'[q].of = pg[q].of
      BY <1>0, <2>3 DEF TakeFrame, PagerType
    <3> QED BY <1>1, <2>1, <3>1 DEF Quiet
  <2>4. CASE OutMap(q) \/ OutCopy(q)
    BY <1>0, <1>1, <2>1, <2>4 DEF OutMap, OutCopy, FrameMap, Quiet, PagerType
  <2>5. CASE ReadMap(q)
    <3>1. pg[q].pc = "readmap" /\ pg'[q].pc = "readcopy" /\ pg'[q].of = pg[q].of
          /\ pg'[q].buf = pg[q].buf
      BY <1>0, <2>5 DEF ReadMap, FrameMap, PagerType
    <3> QED BY <1>1, <2>1, <3>1 DEF Quiet, Kept, Fetched
  <2>6. CASE ZeroMap(q)
    BY <1>0, <1>1, <2>1, <2>6 DEF ZeroMap, FrameMap, Quiet, PagerType
  <2> QED BY <1>3, <2>2, <2>3, <2>4, <2>5, <2>6
<1> QED BY <1>2, <1>3

LEMMA SameEntry ==
  ASSUME VMTypeOK, NEW p \in Users, NEW g \in Pages, table[p] # NoTable
  PROVE  Entered(p, g, table[p][g]) = table
<1>1. table \in [Users -> [Pages -> Frames \cup {None}] \cup {NoTable}]
  BY DEF VMTypeOK, SwapTypeOK
<1>2. table[p] \in [Pages -> Frames \cup {None}]
  BY Types
<1>3. [table[p] EXCEPT ![g] = table[p][g]] = table[p]
  BY <1>2
<1> QED BY <1>1, <1>3 DEF Entered

LEMMA QuietStep2 ==
  ASSUME OneInv, NEW q \in Pagers,
         Update(q) \/ (SwapIn(q) /\ block' = block)
           \/ (ChooseTarget(q) /\ blockNum[Target] = None)
  PROVE  Quiet(q)
<1>0. VMTypeOK /\ FaultsOnce /\ Locked /\ Counted /\ pg \in [Pagers -> PagerType]
  BY DEF OneInv, SafeInv, VMTypeOK
<1> USE DEF Outs, Zeros, Fetches, Seeks, Serving, Working
<1>1. CASE Update(q)
  <2>1. pg[q].pc = "update" /\ pg'[q] = Idle
    BY <1>0, <1>1 DEF Update, Answer
  <2>2. pg[q].of \in Users /\ page[pg[q].of] \in Pages /\ table[pg[q].of] # NoTable
    BY <1>0, <2>1, ServedUser
  <2>3. table' = Entered(pg[q].of, page[pg[q].of], table[pg[q].of][page[pg[q].of]])
    BY <1>1, <2>1 DEF Update, Entered, OneInv, Owned, HandOwned
  <2>4. table' = table
    BY <1>0, <2>2, <2>3, SameEntry
  <2>5. /\ block' = block /\ blockNum' = blockNum /\ queue' = queue
        /\ dirty' = dirty /\ content' = content /\ disk' = disk
    BY <1>1 DEF Update, infoVars, blockVars, mmuVars
  <2> QED BY <2>1, <2>4, <2>5 DEF Quiet, Idle, Entries
<1>2. CASE SwapIn(q) /\ block' = block
  <2>1. pg[q].pc = "in"
    BY <1>2 DEF SwapIn
  <2>2. queue' = queue /\ dirty' = dirty /\ content' = content /\ disk' = disk
    BY <1>2 DEF SwapIn, mmuVars
  <2>3. ~Allocate(pg[q].of, page[pg[q].of]) \/ freeBlocks = 0
    <3>1. SUFFICES ASSUME freeBlocks # 0, Allocate(pg[q].of, page[pg[q].of])
                   PROVE  FALSE
      OBVIOUS
    <3>2. pg[q].of \in Users /\ page[pg[q].of] \in Pages
      BY <1>0, <2>1, ServedUser
    <3>3. FirstFree \in Blocks /\ block[FirstFree] = NoPage
      BY <1>0, <3>1, FirstFreeFree
    <3>4. block'[FirstFree] = << pg[q].of, page[pg[q].of] >>
      BY <1>0, <3>1, <3>2, <3>3, AllocateCounts
    <3> QED BY <1>2, <3>2, <3>3, <3>4, NotEmpty
  <2>4. PICK v : v = disk[Min(BlocksOf(pg[q].of, page[pg[q].of]))]
    OBVIOUS
  <2>5. /\ table' = table /\ blockNum' = blockNum
        /\ \/ pg' = [pg EXCEPT ![q].pc = "readmap", ![q].buf = v]
           \/ pg' = [pg EXCEPT ![q] = Idle]
    BY <1>2, <2>3, <2>4 DEF SwapIn, Answer
  <2>6. pg'[q].pc = "idle" \/ (pg'[q].pc = "readmap" /\ pg'[q].buf = v /\ pg'[q].of = pg[q].of)
    BY <1>0, <2>5 DEF Idle, PagerType
  <2> QED BY <1>2, <2>1, <2>2, <2>4, <2>5, <2>6 DEF Quiet, Entries
<1>3. CASE ChooseTarget(q) /\ blockNum[Target] = None
  <2>1. PICK f : f = Target
    OBVIOUS
  <2>2. /\ pg[q].pc = "hand" /\ table' = table
        /\ blockNum' = [blockNum EXCEPT ![f] = None]
        /\ pg' = [pg EXCEPT ![q].pc = "in", ![q].frame = f, ![q].isNew = FALSE, ![q].buf = Zero]
        /\ block' = block /\ queue' = queue
        /\ dirty' = dirty /\ content' = content /\ disk' = disk
    BY <1>3, <2>1 DEF ChooseTarget, EndSwapOut, Claim, Evicted, faultVars, blockVars
  <2>3. blockNum' = blockNum
    BY <1>0, <1>3, <2>1, <2>2 DEF VMTypeOK, SwapTypeOK
  <2>4. pg'[q].pc = "in" /\ pg'[q].of = pg[q].of
    BY <1>0, <2>2 DEF PagerType
  <2> QED BY <2>2, <2>3, <2>4 DEF Quiet, Entries
<1> QED BY <1>1, <1>2, <1>3

-----------------------------------------------------------------------------
(* P3SwapOut takes a page out of its frame *)
LEMMA TakesOut ==
  ASSUME OnePager, OneInv, Kept, NEW q \in Pagers, ChooseTarget(q), blockNum[Target] # None
  PROVE  Kept' /\ \A r \in Users, h \in Pages : Here(q, r, h)' = Here(q, r, h)
<1>0. VMTypeOK /\ FaultsOnce /\ Locked /\ Counted /\ Stopping /\ pg \in [Pagers -> PagerType]
  BY DEF OneInv, SafeInv, VMTypeOK
<1>1. Alone(q) /\ Alone(q)' /\ (\A r \in Pagers : r # q => pg'[r] = pg[r])
      /\ at' = at /\ page' = page /\ pg[q].pc = "hand"
  BY PagerAlone DEF PagerStep, ChooseTarget
<1>2. PICK f \in Frames : f = Target
  BY <1>0, <1>1, ServingUp, TargetFree DEF ChooseTarget, Counted, Up
<1>3. PICK p \in Users, g \in Pages : InCore(p, g) /\ table[p][g] = f
  BY <1>1, <1>2 DEF Kept, Backed, Alone, Outs
<1>4. block[blockNum[f]] = << p, g >>
  BY <1>3 DEF OneInv, Owned, PageOwned, Known
<1>5. \A r \in Users, h \in Pages : ~Zeroing(r, h)
  BY <1>1 DEF Zeroing, Alone
<1>6. dirty[f]
  BY <1>3, <1>5 DEF Kept, Dirtied
<1>7. /\ table' = Evicted(f) /\ block' = block /\ blockNum' = blockNum /\ dirty' = dirty
      /\ content' = content /\ disk' = disk /\ queue' = queue
      /\ pg' = [pg EXCEPT ![q].pc = "outmap", ![q].frame = f]
  BY <1>2, <1>6 DEF ChooseTarget, blockVars, faultVars
<1>8. pg'[q].pc = "outmap" /\ pg'[q].frame = f /\ pg'[q].of = pg[q].of
  BY <1>0, <1>7 DEF PagerType
<1>9. ASSUME NEW r \in Users, NEW h \in Pages
      PROVE  /\ table'[r] = NoTable <=> table[r] = NoTable
             /\ InCore(r, h)' <=> InCore(r, h) /\ ~(r = p /\ h = g)
             /\ InCore(r, h)' => table'[r][h] = table[r][h]
  <2>1. (table'[r] = NoTable <=> table[r] = NoTable)
        /\ (table[r] # NoTable =>
              table'[r][h] = IF << p, g >> = << r, h >> THEN None ELSE table[r][h])
    BY <1>0, <1>2, <1>4, <1>7, EvictedPage
  <2> QED BY <2>1 DEF InCore
<1> USE DEF Kept
<1>10. Backed'
  <2> SUFFICES ASSUME NEW x \in Frames, blockNum[x] # None
               PROVE  \/ \E r \in Pagers : pg'[r].pc \in Outs /\ pg'[r].frame = x
                      \/ \E r \in Users, h \in Pages : InCore(r, h)' /\ table'[r][h] = x
    BY <1>7 DEF Backed
  <2>1. CASE x = f
    BY <1>8, <2>1 DEF Outs
  <2>2. CASE x # f
    <3>1. PICK r \in Users, h \in Pages : InCore(r, h) /\ table[r][h] = x
      BY <1>1 DEF Backed, Alone, Outs
    <3> QED BY <1>3, <1>9, <2>2, <3>1
  <2> QED BY <2>1, <2>2
<1>11. Dirtied'
  BY <1>5, <1>7, <1>9 DEF Dirtied
<1>12. Absent'
  <2>1. \A r \in Users : InCore(r, page[r])' => InCore(r, page[r])
    BY <1>0, <1>1, <1>9, Types
  <2>2. Seeks(q) /\ pg[q].of \in Users /\ \A r \in Pagers : r # q => ~Seeks(r)'
    BY <1>0, <1>1, ServedUser DEF Seeks, Serving, Working, Alone, Zeros
  <2>3. page'[pg'[q].of] = page[pg[q].of] /\ pg'[q].of = pg[q].of
    BY <1>1, <1>8
  <2>4. \A r \in Users : r \in Entries(queue)' => ~InCore(r, page[r])'
    BY <1>7, <2>1 DEF Absent, Entries
  <2>5. ~InCore(pg[q].of, page[pg[q].of])
    BY <2>2 DEF Absent
  <2>6. ~InCore(pg[q].of, page[pg[q].of])'
    BY <1>1, <1>8, <2>1, <2>2, <2>5 DEF InCore
  <2> QED BY <2>2, <2>4, <2>6 DEF Absent
<1>13. Fetched'
  BY <1>1, <1>8 DEF Fetched, Fetches, Alone
<1>14. Bare'
  BY <1>1, <1>9, SwapAssumption DEF Bare, Pages
<1>15. ASSUME NEW r \in Users, NEW h \in Pages
       PROVE  Here(q, r, h)' = Here(q, r, h)
  <2>1. ~Clearing(q, r, h) /\ ~Clearing(q, r, h)' /\ ~Taking(q, r, h)
    BY <1>1, <1>8 DEF Clearing, Taking, Zeros, Outs
  <2>2. Taking(q, r, h)' <=> r = p /\ h = g
    <3>1. block'[blockNum'[pg'[q].frame]] = << p, g >>
      BY <1>4, <1>7, <1>8
    <3> QED BY <1>8, <3>1 DEF Taking, Outs
  <2>3. BlocksOf(r, h)' = BlocksOf(r, h)
    BY <1>7 DEF BlocksOf
  <2> QED BY <1>3, <1>7, <1>8, <1>9, <2>1, <2>2, <2>3 DEF Here, InCore
<1> QED BY <1>10, <1>11, <1>12, <1>13, <1>14, <1>15

(* and writes it to its block. *)
LEMMA WritesOut ==
  ASSUME OnePager, OneInv, Kept, NEW q \in Pagers, WriteOut(q)
  PROVE  Kept' /\ \A r \in Users, h \in Pages : Here(q, r, h)' = Here(q, r, h)
<1>0. VMTypeOK /\ FaultsOnce /\ Locked /\ Counted /\ Stopping /\ pg \in [Pagers -> PagerType]
  BY DEF OneInv, SafeInv, VMTypeOK
<1>1. Alone(q) /\ Alone(q)' /\ (\A r \in Pagers : r # q => pg'[r] = pg[r])
      /\ at' = at /\ page' = page /\ pg[q].pc = "write"
  BY PagerAlone DEF PagerStep, WriteOut
<1>2. PICK f \in Frames, b \in Blocks : f = pg[q].frame /\ b = blockNum[f]
  <2>1. pg[q].frame \in Frames
    BY <1>0, <1>1, Types DEF Locked, LockedBy
  <2> QED BY <1>0, <1>1, <2>1 DEF Locked, LockedBy, VMTypeOK, SwapTypeOK
<1>3. PICK v : v = pg[q].buf
  OBVIOUS
<1>4. /\ table' = table /\ block' = block /\ blockNum' = [blockNum EXCEPT ![f] = None]
      /\ dirty' = [dirty EXCEPT ![f] = FALSE]
      /\ content' = content /\ disk' = [disk EXCEPT ![b] = v] /\ queue' = queue
      /\ pg' = [pg EXCEPT ![q].pc = "in", ![q].frame = f, ![q].isNew = FALSE, ![q].buf = Zero]
  BY <1>2, <1>3 DEF WriteOut, EndSwapOut, Claim, blockVars, faultVars
<1>5. pg'[q].pc = "in" /\ pg'[q].of = pg[q].of
  BY <1>0, <1>4 DEF PagerType
<1>6. ASSUME NEW r \in Users, NEW h \in Pages
      PROVE  (InCore(r, h)' <=> InCore(r, h)) /\ (InCore(r, h) => table[r][h] # f)
  BY <1>1, <1>2, <1>4 DEF InCore, OneInv, Owned, PageOwned, Completes
<1> USE DEF Kept
<1>10. Backed'
  <2> SUFFICES ASSUME NEW x \in Frames, blockNum'[x] # None
               PROVE  \E r \in Users, h \in Pages : InCore(r, h)' /\ table'[r][h] = x
    BY DEF Backed
  <2>1. x # f /\ blockNum[x] # None
    BY <1>0, <1>4 DEF VMTypeOK, SwapTypeOK
  <2>2. PICK r \in Users, h \in Pages : InCore(r, h) /\ table[r][h] = x
    BY <1>1, <1>2, <2>1 DEF Backed, Alone, Outs
  <2> QED BY <1>4, <1>6, <2>2
<1>11. Dirtied'
  <2>1. \A r \in Users, h \in Pages : ~Zeroing(r, h)
    BY <1>1 DEF Zeroing, Alone
  <2> QED BY <1>0, <1>4, <1>6, <2>1 DEF Dirtied, VMTypeOK, SwapTypeOK
<1>12. Absent'
  <2>1. Seeks(q) /\ \A r \in Pagers : r # q => ~Seeks(r)'
    BY <1>1 DEF Seeks, Serving, Working, Alone, Zeros
  <2>2. \A x : InCore(x, page[x])' <=> InCore(x, page[x])
    BY <1>1, <1>4 DEF InCore
  <2>3. ~InCore(pg[q].of, page[pg[q].of])
    BY <2>1 DEF Absent
  <2>4. ~InCore(pg[q].of, page[pg[q].of])'
    BY <1>5, <2>2, <2>3 DEF InCore
  <2>5. Entries(queue)' = Entries(queue)
    BY <1>4 DEF Entries
  <2> QED BY <2>1, <2>2, <2>4, <2>5 DEF Absent
<1>13. Fetched'
  BY <1>1, <1>5 DEF Fetched, Fetches, Alone
<1>14. Bare'
  BY <1>1, <1>4 DEF Bare
<1>15. ASSUME NEW r \in Users, NEW h \in Pages
       PROVE  Here(q, r, h)' = Here(q, r, h)
  <2>1. ~Clearing(q, r, h) /\ ~Clearing(q, r, h)' /\ ~Taking(q, r, h)'
    BY <1>1, <1>5 DEF Clearing, Taking, Zeros, Outs
  <2>2. BlocksOf(r, h)' = BlocksOf(r, h)
    BY <1>4 DEF BlocksOf
  <2>3. CASE block[b] = << r, h >>
    <3>1. BlocksOf(r, h) = {b}
      BY <1>0, <2>3, NotEmpty DEF BlocksOf, Counted
    <3>2. Min(BlocksOf(r, h)) = b
      BY <1>0, <3>1, BlockOfPage
    <3>3. Taking(q, r, h)
      BY <1>1, <1>2, <2>3 DEF Taking, Outs
    <3>4. disk'[b] = v
      BY <1>0, <1>4 DEF VMTypeOK, SwapTypeOK
    <3> QED BY <1>1, <1>3, <1>4, <1>6, <2>1, <2>2, <3>1, <3>2, <3>3, <3>4 DEF Here
  <2>4. CASE block[b] # << r, h >>
    <3>1. ~Taking(q, r, h)
      BY <1>2, <2>4 DEF Taking
    <3>2. BlocksOf(r, h) # {} => disk'[Min(BlocksOf(r, h))] = disk[Min(BlocksOf(r, h))]
      <4> SUFFICES ASSUME BlocksOf(r, h) # {}
                   PROVE  disk'[Min(BlocksOf(r, h))] = disk[Min(BlocksOf(r, h))]
        OBVIOUS
      <4>1. PICK d \in BlocksOf(r, h) : d = Min(BlocksOf(r, h))
        BY <1>0, BlockOfPage
      <4>2. d \in Blocks /\ d # b
        BY <2>4 DEF BlocksOf
      <4>3. disk'[d] = disk[d]
        BY <1>0, <1>4, <4>2 DEF VMTypeOK, SwapTypeOK
      <4> QED BY <4>1, <4>3
    <3> QED BY <1>4, <1>6, <2>1, <2>2, <3>1, <3>2 DEF Here
  <2> QED BY <2>3, <2>4
<1> QED BY <1>10, <1>11, <1>12, <1>13, <1>14, <1>15

(* P3SwapIn finds a block for a page that has none, *)
LEMMA Allocates ==
  ASSUME OnePager, OneInv, Kept, NEW q \in Pagers, SwapIn(q), block' # block
  PROVE  Kept' /\ \A r \in Users, h \in Pages : Here(q, r, h)' = Here(q, r, h)
<1>0. VMTypeOK /\ FaultsOnce /\ Locked /\ Counted /\ pg \in [Pagers -> PagerType]
  BY DEF OneInv, SafeInv, VMTypeOK
<1>1. Alone(q) /\ Alone(q)' /\ (\A r \in Pagers : r # q => pg'[r] = pg[r])
      /\ at' = at /\ page' = page /\ pg[q].pc = "in"
  BY PagerAlone DEF PagerStep, SwapIn
<1>2. PICK p \in Users, g \in Pages, f \in Frames :
        p = pg[q].of /\ g = page[p] /\ f = pg[q].frame
        /\ table[p] # NoTable /\ Faults(p) /\ p \notin Entries(queue)
  <2>1. Serving(q)
    BY <1>1 DEF Serving, Working
  <2>2. pg[q].frame \in Frames
    BY <1>0, <1>1, Types DEF Locked, LockedBy, Working
  <2> QED BY <1>0, <2>1, <2>2, ServedUser DEF FaultsOnce
<1>3. ~InCore(p, g)
  BY <1>1, <1>2 DEF Kept, Absent, Seeks, Serving, Working, Zeros
<1>4. PICK b : b = FirstFree
  OBVIOUS
<1>5. /\ BlocksOf(p, g) = {} /\ freeBlocks # 0 /\ Allocate(p, g) /\ Settle(p, g, f, b)
      /\ pg' = [pg EXCEPT ![q].pc = "zeromap"]
      /\ queue' = queue /\ dirty' = dirty /\ content' = content /\ disk' = disk
  BY <1>2, <1>4 DEF SwapIn, mmuVars, blockVars, To
<1>6. b \in Blocks /\ block[b] = NoPage
      /\ \A d \in Blocks : block'[d] = IF d = b THEN << p, g >> ELSE block[d]
  BY <1>0, <1>4, <1>5, FirstFreeFree, AllocateCounts
<1>7. pg'[q].pc = "zeromap" /\ pg'[q].of = p
  BY <1>0, <1>2, <1>5 DEF PagerType
<1>8. ASSUME NEW r \in Users, NEW h \in Pages
      PROVE  /\ table'[r] = NoTable <=> table[r] = NoTable
             /\ InCore(r, h)' <=> InCore(r, h) \/ (r = p /\ h = g)
             /\ InCore(r, h)' => table'[r][h] = IF r = p /\ h = g THEN f ELSE table[r][h]
  <2>1. table' = Entered(p, g, f)
    BY <1>5 DEF Settle, Entered
  <2>2. f \in Frames \cup {None} /\ f # None
    BY NotEmpty
  <2>3. (table'[r] = NoTable <=> table[r] = NoTable)
        /\ (table[r] # NoTable => table'[r][h] = IF r = p /\ h = g THEN f ELSE table[r][h])
    BY <1>0, <1>2, <2>1, <2>2, EntrySet
  <2> QED BY <1>2, <2>2, <2>3 DEF InCore
<1>9. blockNum' = [blockNum EXCEPT ![f] = b]
  BY <1>5 DEF Settle
<1> USE DEF Kept
<1>10. Backed'
  <2> SUFFICES ASSUME NEW x \in Frames, blockNum'[x] # None
               PROVE  \E r \in Users, h \in Pages : InCore(r, h)' /\ table'[r][h] = x
    BY DEF Backed
  <2>1. CASE x = f
    BY <1>8, <2>1
  <2>2. CASE x # f
    <3>1. blockNum[x] # None
      BY <1>0, <1>9, <2>2 DEF VMTypeOK, SwapTypeOK
    <3>2. PICK r \in Users, h \in Pages : InCore(r, h) /\ table[r][h] = x
      BY <1>1, <3>1 DEF Backed, Alone, Outs
    <3> QED BY <1>3, <1>8, <3>2
  <2> QED BY <2>1, <2>2
<1>11. Dirtied'
  <2>1. \A r \in Users, h \in Pages : ~Zeroing(r, h)
    BY <1>1 DEF Zeroing, Alone
  <2>2. Zeroing(p, g)'
    BY <1>1, <1>2, <1>7 DEF Zeroing
  <2> QED BY <1>5, <1>8, <2>1, <2>2 DEF Dirtied
<1>12. Absent'
  <2>1. \A r \in Pagers : ~Seeks(r)'
    BY <1>1, <1>7 DEF Seeks, Serving, Working, Alone, Zeros
  <2>2. ASSUME NEW r \in Users, r \in Entries(queue)'
        PROVE  ~InCore(r, page[r])'
    <3>1. r \in Entries(queue) /\ r # p /\ page'[r] = page[r] /\ page[r] \in Pages
      BY <1>0, <1>1, <1>2, <1>5, <2>2, Types DEF Entries
    <3>2. ~InCore(r, page[r])
      BY <3>1 DEF Absent
    <3>3. PICK h \in Pages : h = page[r]
      BY <3>1
    <3>4. ~InCore(r, h)'
      BY <1>8, <3>1, <3>2, <3>3
    <3> QED BY <3>1, <3>3, <3>4 DEF InCore
  <2> QED BY <2>1, <2>2 DEF Absent
<1>13. Fetched'
  BY <1>1, <1>7 DEF Fetched, Fetches, Alone
<1>14. Bare'
  <2>1. 0 \in Pages
    BY SwapAssumption DEF Pages
  <2> QED BY <1>1, <1>8, <2>1 DEF Bare
<1>15. ASSUME NEW r \in Users, NEW h \in Pages
       PROVE  Here(q, r, h)' = Here(q, r, h)
  <2>1. ~Clearing(q, r, h) /\ ~Taking(q, r, h) /\ ~Taking(q, r, h)'
    BY <1>1, <1>7 DEF Clearing, Taking, Zeros, Outs
  <2>2. Clearing(q, r, h)' <=> r = p /\ h = g
    BY <1>1, <1>2, <1>7 DEF Clearing, Zeros
  <2>3. CASE r = p /\ h = g
    BY <1>3, <1>5, <2>1, <2>2, <2>3 DEF Here
  <2>4. CASE ~(r = p /\ h = g)
    <3>1. << r, h >> # << p, g >> /\ << r, h >> # NoPage
      BY <2>4, NotEmpty
    <3>2. BlocksOf(r, h)' = BlocksOf(r, h)
      BY <1>6, <3>1 DEF BlocksOf
    <3>3. content' = content /\ disk' = disk
      BY <1>5
    <3> QED BY <1>8, <2>1, <2>2, <2>4, <3>2, <3>3 DEF Here
  <2> QED BY <2>3, <2>4
<1> QED BY <1>10, <1>11, <1>12, <1>13, <1>14, <1>15

(* or fetches the page from its block, *)
LEMMA Brings ==
  ASSUME OnePager, OneInv, Kept, NEW q \in Pagers, ReadCopy(q)
  PROVE  Kept' /\ \A r \in Users, h \in Pages : Here(q, r, h)' = Here(q, r, h)
<1>0. VMTypeOK /\ FaultsOnce /\ Locked /\ Counted /\ pg \in [Pagers -> PagerType]
  BY DEF OneInv, SafeInv, VMTypeOK
<1>1. Alone(q) /\ Alone(q)' /\ (\A r \in Pagers : r # q => pg'[r] = pg[r])
      /\ at' = at /\ page' = page /\ pg[q].pc = "readcopy"
  BY PagerAlone DEF PagerStep, ReadCopy
<1>2. PICK p \in Users, g \in Pages, f \in Frames :
        p = pg[q].of /\ g = page[p] /\ f = pg[q].frame
        /\ table[p] # NoTable /\ Faults(p) /\ p \notin Entries(queue)
  <2>1. Serving(q)
    BY <1>1 DEF Serving, Working
  <2>2. pg[q].frame \in Frames
    BY <1>0, <1>1, Types DEF Locked, LockedBy, Working
  <2> QED BY <1>0, <2>1, <2>2, ServedUser DEF FaultsOnce
<1>3. ~InCore(p, g)
  BY <1>1, <1>2 DEF Kept, Absent, Seeks, Serving, Working, Zeros
<1>4. PICK b : b = Min(BlocksOf(p, g))
  OBVIOUS
<1>5. PICK v : v = pg[q].buf
  OBVIOUS
<1>6. /\ Touch(f, v) /\ Settle(p, g, f, b)
      /\ pg' = [pg EXCEPT ![q].pc = "update", ![q].buf = Zero]
      /\ queue' = queue /\ block' = block /\ disk' = disk
  BY <1>2, <1>4, <1>5 DEF ReadCopy, faultVars, blockVars
<1>7. /\ blockNum' = [blockNum EXCEPT ![f] = b] /\ pg'[q].pc = "update"
      /\ \A x \in Frames : content'[x] = IF x = f THEN v ELSE content[x]
      /\ \A x \in Frames : dirty[x] => dirty'[x]
      /\ dirty'[f]
  BY <1>0, <1>6 DEF Settle, Touch, PagerType, VMTypeOK, SwapTypeOK
<1>8. ASSUME NEW r \in Users, NEW h \in Pages
      PROVE  /\ table'[r] = NoTable <=> table[r] = NoTable
             /\ InCore(r, h)' <=> InCore(r, h) \/ (r = p /\ h = g)
             /\ InCore(r, h)' => table'[r][h] = IF r = p /\ h = g THEN f ELSE table[r][h]
             /\ InCore(r, h) => table[r][h] # f /\ table[r][h] \in Frames
  <2>1. table' = Entered(p, g, f)
    BY <1>6 DEF Settle, Entered
  <2>2. f \in Frames \cup {None} /\ f # None
    BY NotEmpty
  <2>3. (table'[r] = NoTable <=> table[r] = NoTable)
        /\ (table[r] # NoTable => table'[r][h] = IF r = p /\ h = g THEN f ELSE table[r][h])
    BY <1>0, <1>2, <2>1, <2>2, EntrySet
  <2>4. InCore(r, h) => table[r][h] # f
    BY <1>1, <1>2 DEF OneInv, Owned, PageOwned, Completes
  <2>5. InCore(r, h) => table[r][h] \in Frames
    BY <1>0, Types DEF InCore
  <2> QED BY <1>2, <2>2, <2>3, <2>4, <2>5 DEF InCore
<1> USE DEF Kept
<1>10. Backed'
  <2> SUFFICES ASSUME NEW x \in Frames, blockNum'[x] # None
               PROVE  \E r \in Users, h \in Pages : InCore(r, h)' /\ table'[r][h] = x
    BY DEF Backed
  <2>1. CASE x = f
    BY <1>8, <2>1
  <2>2. CASE x # f
    <3>1. blockNum[x] # None
      BY <1>0, <1>7, <2>2 DEF VMTypeOK, SwapTypeOK
    <3>2. PICK r \in Users, h \in Pages : InCore(r, h) /\ table[r][h] = x
      BY <1>1, <3>1 DEF Backed, Alone, Outs
    <3> QED BY <1>3, <1>8, <3>2
  <2> QED BY <2>1, <2>2
<1>11. Dirtied'
  <2>1. \A r \in Users, h \in Pages : ~Zeroing(r, h)
    BY <1>1 DEF Zeroing, Alone
  <2> QED BY <1>7, <1>8, <2>1 DEF Dirtied
<1>12. Absent'
  <2>1. \A r \in Pagers : ~Seeks(r)'
    BY <1>1, <1>7 DEF Seeks, Serving, Working, Alone, Zeros
  <2>2. ASSUME NEW r \in Users, r \in Entries(queue)'
        PROVE  ~InCore(r, page[r])'
    <3>1. r \in Entries(queue) /\ r # p /\ page'[r] = page[r] /\ page[r] \in Pages
      BY <1>0, <1>1, <1>2, <1>6, <2>2, Types DEF Entries
    <3>2. ~InCore(r, page[r])
      BY <3>1 DEF Absent
    <3>3. PICK h \in Pages : h = page[r]
      BY <3>1
    <3>4. ~InCore(r, h)'
      BY <1>8, <3>1, <3>2, <3>3
    <3> QED BY <3>1, <3>3, <3>4 DEF InCore
  <2> QED BY <2>1, <2>2 DEF Absent
<1>13. Fetched'
  BY <1>1, <1>7 DEF Fetched, Fetches, Alone
<1>14. Bare'
  <2>1. 0 \in Pages
    BY SwapAssumption DEF Pages
  <2> QED BY <1>1, <1>8, <2>1 DEF Bare
<1>15. ASSUME NEW r \in Users, NEW h \in Pages
       PROVE  Here(q, r, h)' = Here(q, r, h)
  <2>1. /\ ~Clearing(q, r, h) /\ ~Taking(q, r, h)
        /\ ~Clearing(q, r, h)' /\ ~Taking(q, r, h)'
    BY <1>1, <1>7 DEF Clearing, Taking, Zeros, Outs
  <2>2. BlocksOf(r, h)' = BlocksOf(r, h)
    BY <1>6 DEF BlocksOf
  <2>3. CASE r = p /\ h = g
    <3>1. BlocksOf(p, g) # {}
      BY <1>0, <1>1, <1>2 DEF Locked, LockedBy
    <3>2. v = disk[Min(BlocksOf(p, g))]
      BY <1>1, <1>2, <1>5 DEF Fetched, Fetches
    <3>3. Here(q, p, g) = v
      BY <1>2, <1>3, <2>1, <2>3, <3>1, <3>2 DEF Here
    <3>4. Here(q, p, g)' = content'[f]
      BY <1>2, <1>8, <2>1, <2>3 DEF Here
    <3> QED BY <1>7, <2>3, <3>3, <3>4
  <2>4. CASE ~(r = p /\ h = g)
    <3>1. InCore(r, h) => content'[table[r][h]] = content[table[r][h]]
      BY <1>7, <1>8
    <3>2. disk' = disk
      BY <1>6
    <3> QED BY <1>8, <2>1, <2>2, <2>4, <3>1, <3>2 DEF Here
  <2> QED BY <2>3, <2>4
<1> QED BY <1>10, <1>11, <1>12, <1>13, <1>14, <1>15

(* and the Pager clears the frame of a new page. *)
LEMMA Clears ==
  ASSUME OnePager, OneInv, Kept, NEW q \in Pagers, ZeroCopy(q)
  PROVE  Kept' /\ \A r \in Users, h \in Pages : Here(q, r, h)' = Here(q, r, h)
<1>0. VMTypeOK /\ FaultsOnce /\ Locked /\ Counted /\ pg \in [Pagers -> PagerType]
  BY DEF OneInv, SafeInv, VMTypeOK
<1>1. Alone(q) /\ Alone(q)' /\ (\A r \in Pagers : r # q => pg'[r] = pg[r])
      /\ at' = at /\ page' = page /\ pg[q].pc = "zerocopy"
  BY PagerAlone DEF PagerStep, ZeroCopy
<1>2. PICK p \in Users, g \in Pages, f \in Frames :
        p = pg[q].of /\ g = page[p] /\ f = pg[q].frame /\ table[p] # NoTable
  <2>1. Serving(q)
    BY <1>1 DEF Serving, Working
  <2>2. pg[q].frame \in Frames
    BY <1>0, <1>1, Types DEF Locked, LockedBy, Working
  <2> QED BY <1>0, <2>1, <2>2, ServedUser
<1>3. table[p][g] = f /\ InCore(p, g)
  BY <1>1, <1>2, NotEmpty DEF OneInv, Owned, HandOwned, InCore
<1>6. /\ Touch(f, Zero) /\ pg' = [pg EXCEPT ![q].pc = "update"]
      /\ table' = table /\ queue' = queue /\ block' = block /\ disk' = disk /\ blockNum' = blockNum
  BY <1>2 DEF ZeroCopy, To, faultVars, blockVars, infoVars
<1>7. /\ pg'[q].pc = "update"
      /\ \A x \in Frames : content'[x] = IF x = f THEN Zero ELSE content[x]
      /\ \A x \in Frames : dirty[x] => dirty'[x]
      /\ dirty'[f]
  BY <1>0, <1>6, SwapAssumption DEF Touch, PagerType, VMTypeOK, SwapTypeOK
<1>8. ASSUME NEW r \in Users, NEW h \in Pages
      PROVE  /\ InCore(r, h)' <=> InCore(r, h)
             /\ InCore(r, h) => table[r][h] \in Frames
             /\ InCore(r, h) /\ table[r][h] = f => r = p /\ h = g
  <2>1. InCore(r, h) => table[r][h] \in Frames
    BY <1>0, Types DEF InCore
  <2>2. InCore(r, h) /\ table[r][h] = f => r = p /\ h = g
    BY <1>2 DEF OneInv, Owned, PageOwned, Completes
  <2> QED BY <1>6, <2>1, <2>2 DEF InCore
<1> USE DEF Kept
<1>10. Backed'
  <2> SUFFICES ASSUME NEW x \in Frames, blockNum[x] # None
               PROVE  \E r \in Users, h \in Pages : InCore(r, h)' /\ table'[r][h] = x
    BY <1>6 DEF Backed
  <2>1. PICK r \in Users, h \in Pages : InCore(r, h) /\ table[r][h] = x
    BY <1>1 DEF Backed, Alone, Outs
  <2> QED BY <1>6, <1>8, <2>1
<1>11. Dirtied'
  <2>1. \A r \in Users, h \in Pages : Zeroing(r, h) => r = p /\ h = g
    BY <1>1, <1>2 DEF Zeroing, Alone
  <2> QED BY <1>3, <1>6, <1>7, <1>8, <2>1 DEF Dirtied
<1>12. Absent'
  <2>1. \A r \in Pagers : ~Seeks(r)'
    BY <1>1, <1>7 DEF Seeks, Serving, Working, Alone, Zeros
  <2>2. \A x : InCore(x, page[x])' <=> InCore(x, page[x])
    BY <1>1, <1>6 DEF InCore
  <2> QED BY <1>6, <2>1, <2>2 DEF Absent, Entries
<1>13. Fetched'
  BY <1>1, <1>7 DEF Fetched, Fetches, Alone
<1>14. Bare'
  BY <1>1, <1>6 DEF Bare
<1>15. ASSUME NEW r \in Users, NEW h \in Pages
       PROVE  Here(q, r, h)' = Here(q, r, h)
  <2>1. ~Taking(q, r, h) /\ ~Clearing(q, r, h)' /\ ~Taking(q, r, h)'
    BY <1>1, <1>7 DEF Clearing, Taking, Zeros, Outs
  <2>2. Clearing(q, r, h) <=> r = p /\ h = g
    BY <1>1, <1>2 DEF Clearing, Zeros
  <2>3. BlocksOf(r, h)' = BlocksOf(r, h)
    BY <1>6 DEF BlocksOf
  <2>4. CASE r = p /\ h = g
    BY <1>3, <1>6, <1>7, <1>8, <2>1, <2>2, <2>4 DEF Here
  <2>5. CASE ~(r = p /\ h = g)
    <3>1. InCore(r, h) => content'[table[r][h]] = content[table[r][h]]
      BY <1>7, <1>8, <2>5
    <3> QED BY <1>6, <1>8, <2>1, <2>2, <2>3, <2>5, <3>1 DEF Here
  <2> QED BY <2>4, <2>5
<1> QED BY <1>10, <1>11, <1>12, <1>13, <1>14, <1>15

LEMMA PagerKeeps ==
  ASSUME OnePager, OneInv, Kept, NEW q \in Pagers, PagerStep(q)
  PROVE  /\ Kept' /\ Alone(q) /\ Alone(q)' /\ at' = at
         /\ \A p \in Users, g \in Pages : Here(q, p, g)' = Here(q, p, g)
<1>1. /\ Alone(q) /\ Alone(q)' /\ \A r \in Pagers : r # q => pg'[r] = pg[r]
      /\ at' = at /\ page' = page
  BY PagerAlone
<1>2. CASE Quiet(q)
  BY <1>1, <1>2, QuietKeeps, QuietHolds DEF Alone
<1>3. CASE ~Quiet(q)
  <2>1. \/ ChooseTarget(q) /\ blockNum[Target] # None
        \/ WriteOut(q)
        \/ SwapIn(q) /\ block' # block
        \/ ReadCopy(q) \/ ZeroCopy(q)
    BY <1>3, QuietStep1, QuietStep2 DEF PagerStep
  <2> QED BY <1>1, <2>1, TakesOut, WritesOut, Allocates, Brings, Clears
<1> QED BY <1>2, <1>3

-----------------------------------------------------------------------------
(* What a process does *)
LEMMA ServedPage ==
  ASSUME SafeInv, NEW p \in Users, UserStep(p) \/ UserChoice(p), NEW q \in Pagers, Serving(q)
  PROVE  page'[pg[q].of] = page[pg[q].of] /\ pg' = pg
<1> USE DEF SafeInv
<1>1. Faults(pg[q].of) /\ wait[pg[q].of] = 0 /\ pg' = pg
  BY ServedUser, UserDoes
<1>2. pg[q].of \in Users
  BY ServedUser
<1>3. \A r \in Users : r # p => page'[r] = page[r]
  BY DEF UserStep, UserChoice, Fork, Write, Read, Fault, Signal, Return, Quit, ReapSwap,
         ReapFrames, ReapPlain, faultVars, VMTypeOK
<1>4. page'[p] = page[p] \/ ~Faults(p) \/ wait[p] # 0
  BY DEF UserStep, UserChoice, Fork, Write, Read, Fault, Signal, Return, Quit, ReapSwap,
         ReapFrames, ReapPlain, faultVars, VMTypeOK, Faults
<1> QED BY <1>1, <1>2, <1>3, <1>4

LEMMA StaysPut ==
  ASSUME OneInv, NEW p \in Users,
         Write(p) \/ Read(p) \/ Fault(p) \/ Signal(p) \/ Return(p) \/ Quit(p) \/ ReapPlain(p)
  PROVE  /\ table' = table /\ block' = block /\ blockNum' = blockNum /\ disk' = disk
         /\ \A f \in Frames : dirty[f] => dirty'[f]
         /\ pg' = pg
         /\ ~Write(p) => content' = content
         /\ \A q \in Pagers : Serving(q) => page'[pg[q].of] = page[pg[q].of]
<1>1. VMTypeOK /\ SafeInv
  BY DEF OneInv, SafeInv
<1>2. UserStep(p) \/ UserChoice(p)
  BY DEF UserStep, UserChoice
<1>3. pg' = pg /\ \A q \in Pagers : Serving(q) => page'[pg[q].of] = page[pg[q].of]
  BY <1>1, <1>2, ServedPage, UserDoes
<1>4. CASE Write(p)
  BY <1>1, <1>3, <1>4 DEF Write, Touch, infoVars, blockVars, VMTypeOK, SwapTypeOK
<1>5. CASE ~Write(p)
  BY <1>3, <1>5 DEF Read, Fault, Signal, Return, Quit, ReapPlain, swapVars, infoVars, blockVars, mmuVars
<1> QED BY <1>4, <1>5

LEMMA PutKeeps ==
  ASSUME OneInv, Kept, NEW p \in Users,
         Write(p) \/ Read(p) \/ Fault(p) \/ Signal(p) \/ Return(p) \/ Quit(p) \/ ReapPlain(p)
  PROVE  Kept'
<1>1. /\ table' = table /\ block' = block /\ blockNum' = blockNum /\ disk' = disk
      /\ \A f \in Frames : dirty[f] => dirty'[f]
      /\ pg' = pg
      /\ \A q \in Pagers : Serving(q) => page'[pg[q].of] = page[pg[q].of]
  BY StaysPut
<1>2. VMTypeOK /\ FaultsOnce
  BY DEF OneInv, SafeInv
<1>3. \A r, h : InCore(r, h)' <=> InCore(r, h)
  BY <1>1 DEF InCore
<1> USE DEF Kept
<1>4. Backed'
  BY <1>1, <1>3 DEF Backed
<1>5. Dirtied'
  <2>1. ASSUME NEW r \in Users, NEW h \in Pages, Zeroing(r, h)
        PROVE  Zeroing(r, h)'
    <3>1. PICK q \in Pagers : pg[q].pc \in Zeros /\ pg[q].of = r /\ page[r] = h
      BY <2>1 DEF Zeroing, Zeros
    <3>2. Serving(q)
      BY <3>1 DEF Serving, Working, Zeros
    <3> QED BY <1>1, <3>1, <3>2 DEF Zeroing, Zeros
  <2>2. \A r \in Users, h \in Pages : InCore(r, h) => table[r][h] \in Frames
    BY <1>2, Types DEF InCore
  <2> QED BY <1>1, <1>3, <2>1, <2>2 DEF Dirtied
<1>6. Absent'
  <2>1. ASSUME NEW q \in Pagers, Seeks(q)'
        PROVE  ~InCore(pg[q].of, page[pg[q].of])'
    <3>1. Seeks(q) /\ page'[pg[q].of] = page[pg[q].of]
      BY <1>1, <2>1 DEF Seeks, Serving
    <3> QED BY <1>1, <3>1 DEF Absent, InCore
  <2>2. ASSUME NEW r \in Users, r \in Entries(queue')
        PROVE  ~InCore(r, page[r])'
    <3>1. CASE r \in Entries(queue) /\ page'[r] = page[r]
      BY <1>1, <3>1 DEF Absent, InCore
    <3>2. CASE Fault(p) /\ r = p
      <4>1. PICK g \in Pages : ~InCore(p, g) /\ page' = [page EXCEPT ![p] = g]
        BY <3>2 DEF Fault
      <4>2. page'[p] = g
        BY <1>2, <4>1 DEF VMTypeOK
      <4> QED BY <1>1, <3>2, <4>1, <4>2 DEF InCore
    <3>3. r \in Entries(queue) \/ (Fault(p) /\ r = p)
      <4>1. CASE Fault(p)
        <5>1. p \in Users \cup {Boss} /\ p \notin Entries(queue) /\ Once(queue)
              /\ queue' = Append(queue, p) /\ queue \in Seq(Users \cup {Boss})
          BY <1>2, <4>1, QueuedUsers DEF Fault, FaultsOnce, Faults, VMTypeOK
        <5>2. Entries(queue') = Entries(queue) \cup {p}
          BY <5>1, AppendEntries
        <5> QED BY <2>2, <4>1, <5>2
      <4>2. CASE ~Fault(p)
        BY <2>2, <4>2 DEF Write, Read, Signal, Return, Quit, ReapPlain, faultVars
      <4> QED BY <4>1, <4>2
    <3>4. r \in Entries(queue) => page'[r] = page[r] \/ (Fault(p) /\ r = p)
      <4>1. CASE Return(p)
        <5>1. p \notin Entries(queue)
          BY <1>2, <4>1, QueuedUsers DEF Return, FaultsOnce
        <5> QED BY <1>2, <4>1, <5>1 DEF Return, VMTypeOK
      <4>2. CASE ~Return(p)
        BY <1>2, <4>2 DEF Write, Read, Fault, Signal, Quit, ReapPlain, faultVars, VMTypeOK
      <4> QED BY <4>1, <4>2
    <3> QED BY <3>1, <3>2, <3>3, <3>4
  <2> QED BY <1>1, <2>1, <2>2 DEF Absent, Entries
<1>7. Fetched'
  <2>1. \A x, g : BlocksOf(x, g)' = BlocksOf(x, g)
    BY <1>1 DEF BlocksOf
  <2>2. \A q \in Pagers : pg[q].pc \in Fetches => Serving(q)
    BY DEF Fetches, Serving, Working
  <2> QED BY <1>1, <2>1, <2>2 DEF Fetched
<1>8. Bare'
  BY <1>1, <1>2 DEF Bare, Write, Read, Fault, Signal, Return, Quit, ReapPlain, VMTypeOK
<1> QED BY <1>4, <1>5, <1>6, <1>7, <1>8

(* Nobody serves a fault of a process that is not in FaultHandler, and no  *)
(* block is kept for a process that has not begun or has given its back.   *)
LEMMA NotServed ==
  ASSUME SafeInv, NEW p \in Users, ~Faults(p)
  PROVE  \A q \in Pagers : Serving(q) => pg[q].of # p
BY ServedUser DEF SafeInv

LEMMA NoBlocks ==
  ASSUME SafeInv, NEW p \in Users, at[p] \in {"none", "swapped"}, NEW q, NEW g \in Pages
  PROVE  BlocksOf(p, g) = {} /\ ~Taking(q, p, g)
<1> USE DEF SafeInv
<1>1. ASSUME NEW b \in Blocks PROVE block[b] # << p, g >>
  <2> SUFFICES ASSUME block[b] = << p, g >> PROVE FALSE
    OBVIOUS
  <2>1. b \in Taken /\ block[b][1] = p
    BY NotEmpty DEF Taken
  <2> QED BY <2>1 DEF Counted
<1>2. ASSUME Taking(q, p, g) PROVE FALSE
  <2>1. q \in Pagers /\ pg[q].frame \in Frames /\ blockNum[pg[q].frame] # None
    BY <1>2, Types DEF Taking, Locked, LockedBy, Outs
  <2>2. blockNum[pg[q].frame] \in Blocks
    BY <2>1 DEF VMTypeOK, SwapTypeOK
  <2> QED BY <1>1, <1>2, <2>2 DEF Taking
<1> QED BY <1>1, <1>2 DEF BlocksOf

(* A process that begins, or gives its blocks or its frames back *)
Turns(p) == Fork(p) \/ ReapSwap(p) \/ ReapFrames(p)

LEMMA TurnsOver ==
  ASSUME OneInv, Kept, NEW p \in Users, Turns(p)
  PROVE  /\ ~Faults(p) /\ p \notin Entries(queue)
         /\ page' = page /\ queue' = queue /\ pg' = pg /\ disk' = disk
         /\ content' = content /\ dirty' = dirty
         /\ \A r \in Users, h \in Pages :
              /\ r # p => table'[r] = table[r]
              /\ InCore(r, h)' <=> InCore(r, h) /\ r # p
         /\ \A f \in Frames : blockNum'[f] # None =>
              blockNum'[f] = blockNum[f] /\ f \notin Resident(p)
         /\ ~ReapSwap(p) => block' = block /\ blockNum' = blockNum
         /\ ReapSwap(p) => swap = Free
         /\ at'[p] = "none" => table'[p] = NoTable
<1>1. VMTypeOK /\ FaultsOnce
  BY DEF OneInv, SafeInv
<1>2. at[p] \in {"none", "quit", "swapped"}
  BY DEF Turns, Fork, ReapSwap, ReapFrames
<1>3. ~Faults(p) /\ p \notin Entries(queue)
  BY <1>1, <1>2, QueuedUsers DEF Faults, FaultsOnce
<1>4. /\ page' = page /\ queue' = queue /\ pg' = pg /\ disk' = disk
      /\ content' = content /\ dirty' = dirty
      /\ ~ReapSwap(p) => block' = block /\ blockNum' = blockNum
      /\ ReapSwap(p) => swap = Free
  BY DEF Turns, Fork, ReapSwap, ReapFrames, faultVars, mmuVars, infoVars, blockVars
<1>5. table' = [table EXCEPT ![p] = Empty]
      \/ (table' = [table EXCEPT ![p] = NoTable] /\ ReapFrames(p))
  BY DEF Turns, Fork, ReapSwap, SwapFreeAll, ReapFrames
<1>6. ASSUME NEW r \in Users, NEW h \in Pages
      PROVE  /\ r # p => table'[r] = table[r]
             /\ InCore(r, h)' <=> InCore(r, h) /\ r # p
  BY <1>1, <1>5 DEF InCore, Empty, VMTypeOK, SwapTypeOK
<1>7. ASSUME NEW f \in Frames, blockNum'[f] # None
      PROVE  blockNum'[f] = blockNum[f] /\ f \notin Resident(p)
  <2>1. CASE ReapSwap(p)
    BY <1>7, <2>1 DEF ReapSwap, SwapFreeAll
  <2>2. CASE ReapFrames(p)
    BY <1>4, <2>2 DEF ReapFrames, ReapSwap, OneInv, Owned
  <2>3. CASE Fork(p)
    BY <1>4, <2>3 DEF Fork, ReapSwap, Kept, Bare, Resident
  <2> QED BY <2>1, <2>2, <2>3 DEF Turns
<1>8. at'[p] = "none" => table'[p] = NoTable
  BY <1>1 DEF Turns, Fork, ReapSwap, ReapFrames, VMTypeOK, SwapTypeOK
<1> QED BY <1>3, <1>4, <1>6, <1>7, <1>8

LEMMA TurnsKeep ==
  ASSUME OneInv, Kept, NEW p \in Users, Turns(p)
  PROVE  Kept'
<1>0. VMTypeOK /\ SafeInv /\ FaultsOnce /\ Locked
  BY DEF OneInv, SafeInv
<1>1. /\ ~Faults(p) /\ p \notin Entries(queue)
      /\ page' = page /\ queue' = queue /\ pg' = pg /\ disk' = disk
      /\ content' = content /\ dirty' = dirty
      /\ ~ReapSwap(p) => block' = block /\ blockNum' = blockNum
      /\ ReapSwap(p) => swap = Free
  BY TurnsOver
<1>2. ASSUME NEW r \in Users
      PROVE  /\ r # p => table'[r] = table[r]
             /\ \A h \in Pages : InCore(r, h)' <=> InCore(r, h) /\ r # p
  <2>1. ASSUME NEW h \in Pages
        PROVE  (r # p => table'[r] = table[r]) /\ (InCore(r, h)' <=> InCore(r, h) /\ r # p)
    BY TurnsOver
  <2>2. 0 \in Pages
    BY SwapAssumption DEF Pages
  <2> QED BY <2>1, <2>2
<1> USE DEF Kept
<1>3. Backed'
  <2> SUFFICES ASSUME NEW x \in Frames, blockNum'[x] # None
               PROVE  \/ \E q \in Pagers : pg[q].pc \in Outs /\ pg[q].frame = x
                      \/ \E r \in Users, h \in Pages : InCore(r, h)' /\ table'[r][h] = x
    BY <1>1 DEF Backed
  <2>1. blockNum[x] # None /\ x \notin Resident(p)
    BY TurnsOver
  <2>2. ASSUME NEW r \in Users, NEW h \in Pages, InCore(r, h), table[r][h] = x
        PROVE  InCore(r, h)' /\ table'[r][h] = x
    BY <1>2, <2>1, <2>2 DEF Resident, InCore
  <2> QED BY <2>1, <2>2 DEF Backed
<1>4. Dirtied'
  <2>1. \A r, h : Zeroing(r, h)' <=> Zeroing(r, h)
    BY <1>1 DEF Zeroing
  <2> QED BY <1>1, <1>2, <2>1 DEF Dirtied
<1>5. Absent'
  <2>1. ASSUME NEW q \in Pagers, Seeks(q)
        PROVE  ~InCore(pg[q].of, page[pg[q].of])'
    <3>1. PICK r \in Users, h \in Pages : r = pg[q].of /\ h = page[r]
      BY <1>0, <2>1, ServedUser DEF Seeks
    <3>2. ~InCore(r, h)
      BY <2>1, <3>1 DEF Absent
    <3>3. ~InCore(r, h)'
      BY <1>2, <3>2
    <3> QED BY <1>1, <3>1, <3>3 DEF InCore
  <2>2. ASSUME NEW r \in Users, r \in Entries(queue)
        PROVE  ~InCore(r, page[r])'
    <3>1. PICK h \in Pages : h = page[r]
      BY <1>0, Types
    <3>2. ~InCore(r, h)
      BY <2>2, <3>1 DEF Absent
    <3>3. ~InCore(r, h)'
      BY <1>2, <3>2
    <3> QED BY <1>1, <3>1, <3>3 DEF InCore
  <2>3. \A q \in Pagers : Seeks(q)' <=> Seeks(q)
    BY <1>1 DEF Seeks, Serving
  <2>4. Entries(queue)' = Entries(queue)
    BY <1>1 DEF Entries
  <2> QED BY <1>1, <2>1, <2>2, <2>3, <2>4 DEF Absent
<1>6. Fetched'
  <2>1. CASE ReapSwap(p)
    <3>1. \A q \in Pagers : pg[q].pc \notin Fetches
      BY <1>0, <1>1, <2>1, VMAssumption DEF Locked, LockedBy, Fetches
    <3> QED BY <1>1, <3>1 DEF Fetched
  <2>2. CASE ~ReapSwap(p)
    <3>1. \A x, g : BlocksOf(x, g)' = BlocksOf(x, g)
      BY <1>1, <2>2 DEF BlocksOf
    <3> QED BY <1>1, <3>1 DEF Fetched
  <2> QED BY <2>1, <2>2
<1>7. Bare'
  <2>1. ASSUME NEW r \in Users, at'[r] = "none" PROVE table'[r] = NoTable
    <3>1. CASE r = p
      BY <2>1, <3>1, TurnsOver
    <3>2. CASE r # p
      <4>1. at'[r] = at[r]
        BY <1>0, <3>2 DEF Turns, Fork, ReapSwap, ReapFrames, VMTypeOK
      <4> QED BY <1>2, <2>1, <3>2, <4>1 DEF Bare
    <3> QED BY <3>1, <3>2
  <2> QED BY <2>1 DEF Bare
<1> QED BY <1>3, <1>4, <1>5, <1>6, <1>7

LEMMA StillHolds ==
  ASSUME OneInv, NEW p \in Users, NEW q, NEW r \in Users, NEW h \in Pages,
         Read(p) \/ Fault(p) \/ Signal(p) \/ Return(p) \/ Quit(p) \/ ReapPlain(p)
  PROVE  Here(q, r, h)' = Here(q, r, h)
<1>0. VMTypeOK /\ SafeInv
  BY DEF OneInv, SafeInv
<1>1. /\ table' = table /\ block' = block /\ blockNum' = blockNum /\ disk' = disk
      /\ pg' = pg
      /\ ~Write(p) => content' = content
      /\ \A s \in Pagers : Serving(s) => page'[pg[s].of] = page[pg[s].of]
  BY StaysPut
<1>2. content' = content
  <2>1. CASE Write(p)
    <3>1. at[p] = "run" /\ at' = at
      BY <2>1 DEF Write
    <3>2. Read(p)
      BY <1>0, <3>1 DEF Fault, Signal, Return, Quit, ReapPlain, VMTypeOK
    <3> QED BY <3>2 DEF Read
  <2> QED BY <1>1, <2>1
<1>3. Clearing(q, r, h)' <=> Clearing(q, r, h)
  BY <1>1 DEF Clearing, Serving, Working, Zeros
<1>4. Taking(q, r, h)' <=> Taking(q, r, h)
  BY <1>1 DEF Taking
<1>5. BlocksOf(r, h)' = BlocksOf(r, h) /\ (InCore(r, h)' <=> InCore(r, h))
  BY <1>1 DEF BlocksOf, InCore
<1> QED BY <1>1, <1>2, <1>3, <1>4, <1>5 DEF Here

LEMMA WriteHolds ==
  ASSUME OneInv, NEW p \in Users, Write(p)
  PROVE  \E g \in Pages, v \in Values : \A q : \A r \in Users, h \in Pages :
           Here(q, r, h)' = IF r = p /\ h = g THEN v ELSE Here(q, r, h)
<1>0. VMTypeOK /\ SafeInv /\ at[p] = "run"
  BY DEF OneInv, SafeInv, Write
<1>1. PICK g \in Pages, v \in Values : InCore(p, g) /\ Touch(table[p][g], v)
  BY DEF Write
<1>2. PICK f \in Frames : f = table[p][g]
  BY <1>0, <1>1, Types DEF InCore
<1>3. /\ table' = table /\ block' = block /\ blockNum' = blockNum /\ disk' = disk
      /\ pg' = pg /\ page' = page
  BY DEF Write, infoVars, blockVars, faultVars
<1>4. \A x \in Frames : content'[x] = IF x = f THEN v ELSE content[x]
  BY <1>0, <1>1, <1>2 DEF Touch, VMTypeOK, SwapTypeOK
<1>5. ASSUME NEW q, NEW r \in Users, NEW h \in Pages
      PROVE  Here(q, r, h)' = IF r = p /\ h = g THEN v ELSE Here(q, r, h)
  <2>1. Clearing(q, r, h)' <=> Clearing(q, r, h)
    BY <1>3 DEF Clearing
  <2>2. Taking(q, r, h)' <=> Taking(q, r, h)
    BY <1>3 DEF Taking
  <2>3. BlocksOf(r, h)' = BlocksOf(r, h) /\ (InCore(r, h)' <=> InCore(r, h))
    BY <1>3 DEF BlocksOf, InCore
  <2>4. CASE r = p /\ h = g
    <3>1. ~Clearing(q, r, h)
      <4>1. ~Faults(p)
        BY <1>0 DEF Faults
      <4> QED BY <1>0, <2>4, <4>1, NotServed DEF Clearing, Serving, Working, Zeros
    <3> QED BY <1>1, <1>2, <1>3, <1>4, <2>1, <2>3, <2>4, <3>1 DEF Here, InCore
  <2>5. CASE ~(r = p /\ h = g)
    <3>1. InCore(r, h) => content'[table[r][h]] = content[table[r][h]]
      <4>1. InCore(r, h) => table[r][h] # f
        BY <1>1, <1>2, <2>5, FramesApart DEF OneInv
      <4>2. InCore(r, h) => table[r][h] \in Frames
        BY <1>0, Types DEF InCore
      <4> QED BY <1>4, <4>1, <4>2
    <3>2. Taking(q, r, h) => content'[pg[q].frame] = content[pg[q].frame]
      <4>1. Taking(q, r, h) => pg[q].frame # f
        BY <1>1, <1>2 DEF OneInv, Owned, PageOwned, Completes, Taking, Outs
      <4>2. Taking(q, r, h) => pg[q].frame \in Frames
        BY <1>0, Types DEF Taking, SafeInv, Locked, LockedBy, Outs
      <4> QED BY <1>4, <4>1, <4>2
    <3> QED BY <1>3, <2>1, <2>2, <2>3, <2>5, <3>1, <3>2 DEF Here
  <2> QED BY <2>4, <2>5
<1> QED BY <1>5

LEMMA TurnsHold ==
  ASSUME OneInv, Kept, NEW p \in Users, Turns(p), NEW q, NEW r \in Users, NEW h \in Pages
  PROVE  Here(q, r, h)' = IF ReapSwap(p) /\ r = p THEN Zero ELSE Here(q, r, h)
<1>0. VMTypeOK /\ SafeInv /\ Locked
  BY DEF OneInv, SafeInv
<1>1. /\ ~Faults(p) /\ page' = page /\ pg' = pg /\ disk' = disk /\ content' = content
      /\ ~ReapSwap(p) => block' = block /\ blockNum' = blockNum
      /\ ReapSwap(p) => swap = Free
      /\ r # p => table'[r] = table[r]
      /\ InCore(r, h)' <=> InCore(r, h) /\ r # p
  BY TurnsOver
<1>2. Clearing(q, r, h)' <=> Clearing(q, r, h)
  BY <1>1 DEF Clearing
<1>3. r = p => ~Clearing(q, r, h)
  BY <1>0, <1>1, NotServed DEF Clearing, Serving, Working, Zeros
<1>4. CASE ReapSwap(p)
  <2>1. ~Taking(q, r, h) /\ ~Taking(q, r, h)'
    BY <1>0, <1>1, <1>4, VMAssumption DEF Taking, Outs, Locked, LockedBy
  <2>2. \A b \in Blocks : block'[b] =
          IF block[b] # NoPage /\ block[b][1] = p THEN NoPage ELSE block[b]
    BY <1>4 DEF ReapSwap, SwapFreeAll, BlocksOfProcess
  <2>3. BlocksOf(r, h)' = IF r = p THEN {} ELSE BlocksOf(r, h)
    <3>1. << r, h >> # NoPage /\ << r, h >>[1] = r
      BY NotEmpty
    <3>2. \A b \in Blocks : block'[b] = << r, h >> <=> block[b] = << r, h >> /\ r # p
      BY <2>2, <3>1
    <3> QED BY <3>2 DEF BlocksOf
  <2> QED BY <1>1, <1>2, <1>3, <1>4, <2>1, <2>3 DEF Here
<1>5. CASE ~ReapSwap(p)
  <2>1. Taking(q, r, h)' <=> Taking(q, r, h)
    BY <1>1, <1>5 DEF Taking
  <2>2. BlocksOf(r, h)' = BlocksOf(r, h)
    BY <1>1, <1>5 DEF BlocksOf
  <2>3. CASE r = p
    <3>1. at[p] \in {"none", "swapped"} /\ ~InCore(p, h)
      BY <1>5 DEF Turns, Fork, ReapFrames, Kept, Bare, InCore, OneInv, Owned, Resident
    <3>2. BlocksOf(p, h) = {} /\ ~Taking(q, p, h)
      BY <1>0, <3>1, NoBlocks
    <3> QED BY <1>1, <1>2, <1>3, <1>5, <2>1, <2>2, <2>3, <3>1, <3>2 DEF Here
  <2>4. CASE r # p
    BY <1>1, <1>2, <1>5, <2>1, <2>2, <2>4 DEF Here
  <2> QED BY <2>3, <2>4
<1> QED BY <1>4, <1>5

-----------------------------------------------------------------------------
(* What the process does that starts and stops virtual memory *)
LEMMA BareHolds ==
  ASSUME NEW p, table[p] = NoTable, NEW g
  PROVE  Holds(p, g) = Zero
BY DEF Holds

LEMMA BareHoldsNext ==
  ASSUME NEW p, table'[p] = NoTable, NEW g
  PROVE  Holds(p, g)' = Zero
BY DEF Holds

LEMMA BareKept ==
  ASSUME \A p \in Users : table'[p] = NoTable, \A f \in Frames : blockNum'[f] = None,
         \A q \in Pagers : pg'[q].pc \in {"idle", "quit"}
  PROVE  Kept'
<1>1. \A p \in Users : \A g : ~InCore(p, g)'
  BY DEF InCore
<1>2. Backed'
  BY DEF Backed
<1>3. Dirtied'
  BY <1>1 DEF Dirtied
<1>4. Absent'
  <2>1. \A q \in Pagers : ~Seeks(q)'
    BY DEF Seeks, Serving, Working
  <2>2. \A p \in Users : ~InCore(p, page[p])'
    BY DEF InCore
  <2> QED BY <2>1, <2>2 DEF Absent
<1>5. Fetched'
  BY DEF Fetched, Fetches
<1>6. Bare'
  BY DEF Bare
<1> QED BY <1>2, <1>3, <1>4, <1>5, <1>6 DEF Kept

LEMMA BossKeeps ==
  ASSUME OneInv, Kept, VmShutdown \/ Abort \/ AbortSignal \/ AwaitAbort
  PROVE  Kept' /\ \A q, p, g : Here(q, p, g)' = Here(q, p, g)
<1>0. VMTypeOK /\ Stopping
  BY DEF OneInv, SafeInv
<1>1. /\ table' = table /\ block' = block /\ blockNum' = blockNum /\ dirty' = dirty
      /\ content' = content /\ disk' = disk /\ at' = at /\ page' = page /\ pg' = pg
  BY DEF VmShutdown, Abort, AbortSignal, AwaitAbort, swapVars, infoVars, blockVars, mmuVars
<1>2. \A p \in Users : p \in Entries(queue') => p \in Entries(queue)
  <2>1. CASE VmShutdown
    BY <2>1, NoEntries DEF VmShutdown
  <2>2. CASE Abort
    <3>1. Entries(queue') = Entries(queue) \cup {Boss}
      <4>1. queue' = Append(queue, Boss) /\ Boss \notin Entries(queue) /\ Once(queue)
            /\ queue \in Seq(Users \cup {Boss})
        BY <1>0, <2>2 DEF Abort, Stopping, VMTypeOK, OneInv, SafeInv, FaultsOnce
      <4> QED BY <4>1, AppendEntries
    <3> QED BY <3>1, VMAssumption
  <2>3. CASE AbortSignal \/ AwaitAbort
    BY <2>3 DEF AbortSignal, AwaitAbort
  <2> QED BY <2>1, <2>2, <2>3
<1> USE DEF Kept
<1>3. \A p, g : InCore(p, g)' <=> InCore(p, g)
  BY <1>1 DEF InCore
<1>4. \A p, g : BlocksOf(p, g)' = BlocksOf(p, g)
  BY <1>1 DEF BlocksOf
<1>5. Backed'
  BY <1>1, <1>3 DEF Backed
<1>6. Dirtied'
  <2>1. \A p, g : Zeroing(p, g)' <=> Zeroing(p, g)
    BY <1>1 DEF Zeroing
  <2> QED BY <1>1, <1>3, <2>1 DEF Dirtied
<1>7. Absent'
  <2>1. \A q \in Pagers : Seeks(q)' <=> Seeks(q)
    BY <1>1 DEF Seeks, Serving
  <2>2. \A p : InCore(p, page[p])' <=> InCore(p, page[p])
    BY <1>1 DEF InCore
  <2> QED BY <1>1, <1>2, <2>1, <2>2 DEF Absent, Entries
<1>8. Fetched' /\ Bare'
  BY <1>1, <1>4 DEF Fetched, Bare
<1>9. ASSUME NEW q, NEW p, NEW g
      PROVE  Here(q, p, g)' = Here(q, p, g)
  <2>1. (Clearing(q, p, g)' <=> Clearing(q, p, g)) /\ (Taking(q, p, g)' <=> Taking(q, p, g))
    BY <1>1 DEF Clearing, Taking
  <2> QED BY <1>1, <1>3, <1>4, <2>1 DEF Here
<1> QED BY <1>5, <1>6, <1>7, <1>8, <1>9

-----------------------------------------------------------------------------
(* VM implements Memory. *)
Mem == [p \in Users |-> [g \in Pages |-> Holds(p, g)]]
Running == {p \in Users : at[p] = "run"}

Unseen == Mem' = Mem /\ Running' = Running

LEMMA PagerUnseen ==
  ASSUME OnePager, OneInv, Kept, NEW q \in Pagers, PagerStep(q)
  PROVE  Kept' /\ Unseen
<1>1. /\ Kept' /\ Alone(q) /\ Alone(q)' /\ at' = at
      /\ \A p \in Users, g \in Pages : Here(q, p, g)' = Here(q, p, g)
  BY PagerKeeps
<1>2. \A p \in Users, g \in Pages : Holds(p, g)' = Holds(p, g)
  BY <1>1, HoldsHere, HoldsHereNext
<1> QED BY <1>1, <1>2 DEF Unseen, Mem, Running

LEMMA BossSeen ==
  ASSUME OnePager, OneInv, Kept, VmInit \/ VmShutdown \/ BossStep
  PROVE  Kept' /\ (Unseen \/ M!Shutdown)
<1>1. CASE VmShutdown \/ Abort \/ AbortSignal \/ AwaitAbort
  <2>1. PICK q : Alone(q)
    BY OneAtWork
  <2>2. pg' = pg /\ at' = at
    BY <1>1 DEF VmShutdown, Abort, AbortSignal, AwaitAbort
  <2>3. Alone(q)'
    BY <2>1, <2>2 DEF Alone
  <2>4. Kept' /\ \A p, g : Here(q, p, g)' = Here(q, p, g)
    BY <1>1, BossKeeps
  <2>5. \A p, g : Holds(p, g)' = Holds(p, g)
    BY <2>1, <2>3, <2>4, HoldsHere, HoldsHereNext
  <2> QED BY <2>2, <2>4, <2>5 DEF Unseen, Mem, Running
<1>2. CASE VmInit
  <2>1. \A p \in Users : table[p] = NoTable /\ table'[p] = NoTable
    BY <1>2 DEF VmInit, OneInv, SafeInv, Counted, Up
  <2>2. \A q \in Pagers : pg'[q].pc \in {"idle", "quit"}
    BY <1>2 DEF VmInit, OneInv, SafeInv, Stopping, Idle
  <2>3. \A f \in Frames : blockNum'[f] = None
    BY <1>2 DEF VmInit, Reset
  <2>4. \A p \in Users, g \in Pages : Holds(p, g)' = Holds(p, g)
    BY <2>1, BareHolds, BareHoldsNext
  <2>5. at' = at
    BY <1>2 DEF VmInit
  <2>6. Kept'
    BY <2>1, <2>2, <2>3, BareKept
  <2> QED BY <2>4, <2>5, <2>6 DEF Unseen, Mem, Running
<1>3. CASE Clean
  <2>1. \A p \in Users : table'[p] = NoTable
    BY <1>3 DEF Clean
  <2>2. \A q \in Pagers : pg'[q].pc \in {"idle", "quit"}
    BY <1>3, AllStopped DEF Clean, OneInv, SafeInv
  <2>3. \A f \in Frames : blockNum'[f] = None
    BY <1>3 DEF Clean, Reset
  <2>4. \A p \in Users, g \in Pages : Holds(p, g)' = Zero
    BY <2>1, BareHoldsNext
  <2>5. at' = at
    BY <1>3 DEF Clean
  <2>6. Kept'
    BY <2>1, <2>2, <2>3, BareKept
  <2>7. M!Shutdown
    BY <2>4, <2>5 DEF M!Shutdown, M!Blank
  <2> QED BY <2>6, <2>7
<1> QED BY <1>1, <1>2, <1>3 DEF BossStep

LEMMA RowWritten ==
  ASSUME NEW p \in Users, NEW g \in Pages, NEW v,
         \A r \in Users, h \in Pages :
           Holds(r, h)' = IF r = p /\ h = g THEN v ELSE Holds(r, h)
  PROVE  Mem' = [Mem EXCEPT ![p][g] = v]
<1> DEFINE row(r) == [h \in Pages |-> Holds(r, h)]
           next(r) == [h \in Pages |-> Holds(r, h)']
<1>1. next(p) = [row(p) EXCEPT ![g] = v]
  OBVIOUS
<1>2. \A r \in Users \ {p} : next(r) = row(r)
  OBVIOUS
<1>3. Mem' = [r \in Users |-> next(r)] /\ Mem = [r \in Users |-> row(r)]
  BY DEF Mem
<1>4. Mem[p] = row(p)
  BY <1>3
<1> HIDE DEF row, next
<1> QED BY <1>1, <1>2, <1>3, <1>4

LEMMA RowBlanked ==
  ASSUME NEW p \in Users,
         \A r \in Users, h \in Pages : Holds(r, h)' = IF r = p THEN Zero ELSE Holds(r, h)
  PROVE  Mem' = [Mem EXCEPT ![p] = [g \in Pages |-> Zero]]
<1> DEFINE row(r) == [h \in Pages |-> Holds(r, h)]
           next(r) == [h \in Pages |-> Holds(r, h)']
<1>1. next(p) = [g \in Pages |-> Zero]
  OBVIOUS
<1>2. \A r \in Users \ {p} : next(r) = row(r)
  OBVIOUS
<1>3. Mem' = [r \in Users |-> next(r)] /\ Mem = [r \in Users |-> row(r)]
  BY DEF Mem
<1> HIDE DEF row, next
<1> QED BY <1>1, <1>2, <1>3

LEMMA UserSeen ==
  ASSUME OnePager, OneInv, Kept, NEW p \in Users, UserStep(p) \/ UserChoice(p)
  PROVE  Kept' /\ (Unseen \/ M!MemNext)
<1>0. at \in [Users -> {"none", "run", "fault", "waiting", "quit", "swapped"}]
  BY DEF OneInv, SafeInv, VMTypeOK
<1>1. PICK q : Alone(q)
  BY OneAtWork
<1>2. Alone(q)'
  <2>1. pg' = pg
    BY UserDoes DEF OneInv, SafeInv
  <2> QED BY <1>1, <2>1 DEF Alone
<1>3. \A r \in Users, h \in Pages : Holds(r, h) = Here(q, r, h) /\ Holds(r, h)' = Here(q, r, h)'
  BY <1>1, <1>2, HoldsHere, HoldsHereNext
<1>4. ASSUME \A r \in Users, h \in Pages : Here(q, r, h)' = Here(q, r, h)
      PROVE  Mem' = Mem
  BY <1>3, <1>4 DEF Mem
<1>5. CASE Read(p) \/ Fault(p) \/ Signal(p) \/ Return(p) \/ Quit(p) \/ ReapPlain(p)
  <2>1. Kept'
    BY <1>5, PutKeeps
  <2>2. Mem' = Mem
    BY <1>4, <1>5, StillHolds
  <2>3. \/ Running' = Running
        \/ Running' = Running \ {p}
        \/ Running' = Running \cup {p}
    BY <1>0, <1>5 DEF Running, Read, Fault, Signal, Return, Quit, ReapPlain
  <2>4. Unseen \/ M!Stop(p) \/ M!Run(p)
    BY <2>2, <2>3 DEF Unseen, M!Stop, M!Run, Mem, Running
  <2> QED BY <2>1, <2>4 DEF M!MemNext
<1>6. CASE Write(p)
  <2>1. Kept'
    BY <1>6, PutKeeps
  <2>2. PICK g \in Pages, v \in Values : \A r \in Users, h \in Pages :
          Here(q, r, h)' = IF r = p /\ h = g THEN v ELSE Here(q, r, h)
    BY <1>6, WriteHolds
  <2>3. Mem' = [Mem EXCEPT ![p][g] = v]
    <3>1. \A r \in Users, h \in Pages :
            Holds(r, h)' = IF r = p /\ h = g THEN v ELSE Holds(r, h)
      BY <1>3, <2>2
    <3> QED BY <3>1, RowWritten
  <2>4. p \in Running /\ Running' = Running
    BY <1>6 DEF Write, Running
  <2>5. M!Write(p, g, v)
    BY <2>3, <2>4 DEF M!Write, Mem, Running
  <2> QED BY <2>1, <2>5 DEF M!MemNext
<1>7. CASE Turns(p)
  <2>1. Kept'
    BY <1>7, TurnsKeep
  <2>2. \A r \in Users, h \in Pages :
          Here(q, r, h)' = IF ReapSwap(p) /\ r = p THEN Zero ELSE Here(q, r, h)
    BY <1>7, TurnsHold
  <2>3. CASE ReapSwap(p)
    <3>1. Mem' = [Mem EXCEPT ![p] = [g \in Pages |-> Zero]]
      <4>1. \A r \in Users, h \in Pages : Holds(r, h)' = IF r = p THEN Zero ELSE Holds(r, h)
        BY <1>3, <2>2, <2>3
      <4> QED BY <4>1, RowBlanked
    <3>2. p \notin Running /\ Running' = Running
      BY <1>0, <2>3 DEF ReapSwap, Running
    <3>3. M!End(p)
      BY <3>1, <3>2 DEF M!End, M!Blank, Mem, Running
    <3> QED BY <2>1, <3>3 DEF M!MemNext
  <2>4. CASE ~ReapSwap(p)
    <3>1. Mem' = Mem
      BY <1>4, <2>2, <2>4
    <3>2. Running' = Running \/ Running' = Running \cup {p}
      BY <1>0, <1>7, <2>4 DEF Turns, Fork, ReapFrames, Running
    <3>3. Unseen \/ M!Run(p)
      BY <3>1, <3>2 DEF Unseen, M!Run, Mem, Running
    <3> QED BY <2>1, <3>3 DEF M!MemNext
  <2> QED BY <2>3, <2>4
<1> QED BY <1>5, <1>6, <1>7 DEF UserStep, UserChoice, Turns

LEMMA Quietly ==
  ASSUME OneInv, Kept, UNCHANGED vmVars
  PROVE  Kept' /\ Unseen
<1>1. /\ table' = table /\ block' = block /\ blockNum' = blockNum /\ dirty' = dirty
      /\ content' = content /\ disk' = disk /\ at' = at /\ page' = page /\ pg' = pg
      /\ queue' = queue
  BY DEF vmVars, swapVars, infoVars, blockVars, mmuVars, faultVars
<1>2. Backed' /\ Dirtied'
  BY <1>1 DEF Kept, Backed, Dirtied, InCore, Zeroing
<1>3. Absent' /\ Fetched' /\ Bare'
  BY <1>1 DEF Kept, Absent, Fetched, Bare, InCore, Seeks, Serving, Entries, BlocksOf
<1>4. \A p \in Users, g \in Pages : Holds(p, g)' = Holds(p, g)
  BY <1>1 DEF Holds, InCore, Zeroing, Outgoing, BlocksOf
<1> QED BY <1>1, <1>2, <1>3, <1>4 DEF Kept, Unseen, Mem, Running

LEMMA KeptNext ==
  ASSUME OnePager, OneInv, Kept, [VMNext]_vmVars
  PROVE  Kept' /\ [M!MemNext]_<< Mem, Running >>
<1>1. Kept' /\ (Unseen \/ M!MemNext)
  <2>1. M!Shutdown => M!MemNext
    BY DEF M!MemNext
  <2> QED BY <2>1, PagerUnseen, UserSeen, BossSeen, Quietly DEF VMNext
<1> QED BY <1>1 DEF Unseen

LEMMA KeptInit ==
  ASSUME VMInit
  PROVE  Kept /\ M!MemInit
<1>1. /\ \A p \in Users : table[p] = NoTable /\ at[p] = "none"
      /\ \A q \in Pagers : pg[q].pc = "quit" /\ \A f \in Frames : blockNum[f] = None
      /\ Entries(queue) = {}
  BY NoEntries DEF VMInit, SwapInitial, Idle
<1>2. \A p \in Users : \A g : ~InCore(p, g)
  BY <1>1 DEF InCore
<1>3. Backed /\ Dirtied /\ Absent /\ Fetched /\ Bare
  BY <1>1, <1>2 DEF VMInit, SwapInitial, Backed, Dirtied, Absent, Fetched, Fetches, Bare, Seeks,
                    Serving, Working
<1>4. \A p \in Users, g \in Pages : Holds(p, g) = Zero
  BY <1>1, BareHolds
<1> QED BY <1>1, <1>3, <1>4 DEF Kept, M!MemInit, M!Blank

(* With one pager, virtual memory keeps its promise (module Memory)        *)
(* whatever the pager moves about: what a process finds in its pages is    *)
(* what it has written there, zero before; nobody else changes it; and it  *)
(* is gone when the process has ended or virtual memory is off.            *)
THEOREM MemoryImplemented ==
  ASSUME OnePager
  PROVE  VMSpec => PagesKept
<1>1. VMInit => M!MemInit /\ Kept
  BY KeptInit
<1>2. OneInv /\ Kept /\ [VMNext]_vmVars => Kept' /\ [M!MemNext]_<< Mem, Running >>
  BY KeptNext
<1>3. VMSpec => []OneInv
  <2>1. AllInv => OneInv
    BY DEF AllInv
  <2> QED BY <2>1, AllAlways, PTL
<1>4. VMSpec => M!MemInit /\ [][M!MemNext]_<< Mem, Running >>
  BY <1>1, <1>2, <1>3, PTL DEF VMSpec
<1> QED BY <1>4, PTL DEF PagesKept, M!MemSpec, Mem, Running
=============================================================================
