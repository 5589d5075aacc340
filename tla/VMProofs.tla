------------------------------ MODULE VMProofs ------------------------------
(***************************************************************************)
(* Proofs about VM and Swap.  First what holds with any number of pagers:  *)
(* types, that no fault is handled or answered twice, the protocol of the  *)
(* shutdown, the counters of the blocks, and that a pager finds the frame  *)
(* and the block again that it has kept the mutex for (SafeInv).  Then, in *)
(* settings with one pager: frames belong to one page (Owned), and the     *)
(* semaphore of the faults counts their queue (QueueCounted).              *)
(***************************************************************************)
EXTENDS VM, QueueLemmas

Working == {"pick", "out", "hand", "outmap", "outcopy", "write", "in", "readmap", "readcopy",
            "zeromap", "zerocopy", "update"}

(* The pager has the fault of a process. *)
Serving(q) == pg[q].pc \in Working

(* The process is in FaultHandler. *)
Faults(p) == at[p] \in {"fault", "waiting"}

(* A fault is in the queue, with a pager or answered, and never two of     *)
(* these; its process has a page table meanwhile.                          *)
FaultsOnce ==
  /\ Once(queue)
  /\ \A p \in Entries(queue) : p # Boss => Faults(p) /\ wait[p] = 0 /\ table[p] # NoTable
  /\ \A q \in Pagers : Serving(q) =>
       /\ pg[q].of \in Users /\ pg[q].of \notin Entries(queue)
       /\ Faults(pg[q].of) /\ wait[pg[q].of] = 0 /\ table[pg[q].of] # NoTable
  /\ \A q, r \in Pagers : Serving(q) /\ Serving(r) /\ pg[q].of = pg[r].of => q = r
  /\ \A p \in Users : wait[p] = 1 => Faults(p)

Stopped == {q \in c.pagers : pg[q].pc = "quit"}
Up == boss \notin {"new", "off"}

(* P3PagerShutdown stops the pagers one by one. *)
Stopping ==
  /\ boss \in {"signal", "await"} => (Boss \in Entries(queue) <=> wait[Boss] = 0)
  /\ boss \notin {"signal", "await"} => Boss \notin Entries(queue) /\ wait[Boss] = 0
  /\ boss \in {"new", "off"} => \A q \in Pagers : pg[q].pc = "quit"
  /\ Up => Cardinality(Stopped) = turn + wait[Boss]
  /\ boss \in {"new", "up"} => turn = 0
  /\ \A q \in Pagers : pg[q].pc # "quit" => q \in c.pagers

Taken == {b \in Blocks : block[b] # NoPage}

(* Blocks are counted, and no page has two. *)
Counted ==
  /\ freeBlocks = (IF Up THEN c.blocks ELSE 0) - Cardinality(Taken)
  /\ \A b, d \in Blocks : block[b] = block[d] /\ block[b] # NoPage => b = d
  /\ \A b \in Taken :
       table[block[b][1]] # NoTable /\ at[block[b][1]] \notin {"none", "swapped"}
  /\ frames = IF Up THEN c.frames ELSE 0
  /\ boss # "off" => hand \in -1 .. frames - 1
  /\ ~Up => \A p \in Users : table[p] = NoTable

(* A pager that has to find its frame or block again has kept the mutex.   *)
LockedBy(q) ==
  /\ swap = q <=> pg[q].pc \in {"hand", "outmap", "outcopy", "write", "readmap", "readcopy"}
  /\ pg[q].pc \in {"outmap", "outcopy", "write"}
       => pg[q].frame # None /\ blockNum[pg[q].frame] # None
  /\ pg[q].pc \in {"readmap", "readcopy"} => BlocksOf(pg[q].of, page[pg[q].of]) # {}
  /\ pg[q].pc \in Working \ {"pick", "out", "hand"} => pg[q].frame \in 0 .. frames - 1

Locked == \A q \in Pagers : LockedBy(q)

SafeInv == VMTypeOK /\ FaultsOnce /\ Stopping /\ Counted /\ Locked

-----------------------------------------------------------------------------
(* With one pager. *)
OnePager == \A s \in Scenarios : \A q, r \in s.pagers : q = r

Maps(q) == pg[q].pc \in {"outcopy", "readcopy", "zerocopy"}

(* A page in core has its frame alone: the pager that has put it there may *)
(* still have to complete it, no other has the frame in its hand.          *)
Known(p, g, f) ==
  used[f] /\ ~busy[f] /\ blockNum[f] # None /\ block[blockNum[f]] = << p, g >>

Completes(q, p, g) ==
  pg[q].of = p /\ page[p] = g /\ pg[q].pc \in {"zeromap", "zerocopy", "update"}

PageOwned(p, g) == InCore(p, g) =>
  /\ Known(p, g, table[p][g])
  /\ \A q \in Pagers : pg[q].frame = table[p][g] => Completes(q, p, g)

HandOwned(q) ==
  /\ pg[q].pc \in {"out", "hand"} => FreePool = {}
  /\ pg[q].pc \in {"idle", "take", "pick", "out", "hand", "quit"} => pg[q].frame = None
  /\ pg[q].frame # None => used[pg[q].frame]
  /\ pg[q].pc \in {"zeromap", "zerocopy", "update"}
       => table[pg[q].of][page[pg[q].of]] = pg[q].frame
  /\ Maps(q) => mapped[pg[q].frame] = q

Owned ==
  /\ \A p \in Users, g \in Pages : PageOwned(p, g)
  /\ \A q \in Pagers : HandOwned(q)
  /\ \A p \in Users : at[p] = "swapped" => Resident(p) = {}

OneInv == SafeInv /\ Owned

(* There is a fault in the queue for each V of isPageFaultQueueReady: those *)
(* that no pager has taken, and those that are still to be counted.        *)
Due == {p \in Users : at[p] = "fault"}
Let == {q \in Pagers : pg[q].pc = "take"}

Owed == IF boss = "signal" THEN 1 ELSE 0

QueueCounted == ~c.late =>
  /\ Len(queue) = ready + Cardinality(Let) + Cardinality(Due) + Owed
  /\ \A p \in Users : Faults(p) => boss = "up"

AllInv == OneInv /\ QueueCounted /\ AssertsHold

-----------------------------------------------------------------------------
(* Numbers: the clock hand *)
LEMMA ModProps ==
  ASSUME NEW n \in Nat \ {0}, NEW f \in 0 .. n - 1
  PROVE  f % n = f /\ (n + f) % n = f /\ (2 * n + f) % n = f
OBVIOUS

LEMMA HandReaches ==
  ASSUME NEW n \in Nat \ {0}, NEW h \in -1 .. n - 1, NEW f \in 0 .. n - 1
  PROVE  \E k \in n + 1 .. 2 * n : (h + k) % n = f
<1>1. CASE f > h
  <2>1. n + f - h \in n + 1 .. 2 * n /\ h + (n + f - h) = n + f
    BY <1>1
  <2> QED BY <2>1, ModProps
<1>2. CASE f <= h
  <2>1. 2 * n + f - h \in n + 1 .. 2 * n /\ h + (2 * n + f - h) = 2 * n + f
    BY <1>2
  <2> QED BY <2>1, ModProps
<1> QED BY <1>1, <1>2

LEMMA TargetFree ==
  ASSUME VMTypeOK, hand \in -1 .. frames - 1, NotBusy # {}
  PROVE  Target \in NotBusy /\ Target \in Frames /\ Target \in 0 .. frames - 1
<1>1. frames \in Nat /\ NotBusy \subseteq 0 .. frames - 1 /\ frames <= MaxFrames /\ MaxFrames \in Nat
  BY SwapAssumption DEF VMTypeOK, SwapTypeOK, NotBusy
<1>2. PICK f \in NotBusy : TRUE
  OBVIOUS
<1>3. frames \in Nat \ {0} /\ f \in 0 .. frames - 1
  BY <1>1, <1>2
<1> DEFINE fresh == {k \in 1 .. frames : Nth(k) \in NotBusy /\ ~ref[Nth(k)]}
           later == {k \in frames + 1 .. 2 * frames : Nth(k) \in NotBusy}
           those == IF fresh # {} THEN fresh ELSE later
<1>4. later # {}
  <2>1. PICK k \in frames + 1 .. 2 * frames : (hand + k) % frames = f
    BY <1>3, HandReaches
  <2>2. k \in later
    BY <2>1 DEF Nth
  <2> QED BY <2>2
<1>5. those # {} /\ those \subseteq Nat /\ \A k \in those : Nth(k) \in NotBusy
  BY <1>1, <1>4
<1>6. Steps = Min(those)
  BY DEF Steps
<1> HIDE DEF those
<1>7. Steps \in those
  BY <1>5, <1>6, MinNat
<1>8. Target \in NotBusy
  BY <1>5, <1>7 DEF Target
<1> QED BY <1>1, <1>8 DEF Frames

-----------------------------------------------------------------------------
(* Types *)
LEMMA NotEmpty ==
  /\ \A t \in [Pages -> Frames \cup {None}] : t # NoTable
  /\ \A x \in Users \X Pages : x # NoPage
  /\ Empty \in [Pages -> Frames \cup {None}]
  /\ None \notin Frames /\ None \notin Blocks
<1>1. 0 \in Pages
  BY SwapAssumption DEF Pages
<1>2. ASSUME NEW t \in [Pages -> Frames \cup {None}] PROVE t # NoTable
  <2>1. DOMAIN t = Pages /\ DOMAIN NoTable = {}
    BY DEF NoTable
  <2> QED BY <1>1, <2>1
<1>3. \A x \in Users \X Pages : x # NoPage
  BY DEF NoPage
<1> QED BY <1>2, <1>3 DEF Empty, None, Frames, Blocks

LEMMA Types ==
  ASSUME VMTypeOK
  PROVE  /\ \A p \in Users :
              /\ table[p] \in [Pages -> Frames \cup {None}] \cup {NoTable}
              /\ table[p] # NoTable => table[p] \in [Pages -> Frames \cup {None}]
              /\ page[p] \in Pages
         /\ \A q \in Pagers :
              /\ pg[q].pc \in PagerPCs /\ pg[q].of \in Users \cup {Boss}
              /\ pg[q].frame \in Frames \cup {None} /\ pg[q].isNew \in BOOLEAN
              /\ pg[q].buf \in Values
         /\ \A b \in Blocks : block[b] # NoPage => block[b] \in Users \X Pages
         /\ c \in ScenarioType
         /\ c.frames \in 1 .. MaxFrames /\ c.blocks \in 0 .. MaxBlocks /\ c.pagers \subseteq Pagers
         /\ frames \in Nat /\ frames <= MaxFrames /\ MaxFrames \in Nat /\ MaxBlocks \in Nat
         /\ 0 .. frames - 1 \subseteq Frames
<1>1. c \in ScenarioType
  BY VMAssumption DEF VMTypeOK
<1>2. c.frames \in 1 .. MaxFrames /\ c.blocks \in 0 .. MaxBlocks /\ c.pagers \subseteq Pagers
  BY <1>1 DEF ScenarioType
<1>3. /\ \A p \in Users :
              /\ table[p] \in [Pages -> Frames \cup {None}] \cup {NoTable}
              /\ page[p] \in Pages
      /\ \A b \in Blocks : block[b] # NoPage => block[b] \in Users \X Pages
      /\ frames \in Nat /\ frames <= MaxFrames /\ MaxFrames \in Nat /\ MaxBlocks \in Nat
  BY SwapAssumption DEF VMTypeOK, SwapTypeOK
<1>4. \A q \in Pagers :
              /\ pg[q].pc \in PagerPCs /\ pg[q].of \in Users \cup {Boss}
              /\ pg[q].frame \in Frames \cup {None} /\ pg[q].isNew \in BOOLEAN
              /\ pg[q].buf \in Values
  BY DEF VMTypeOK, PagerType
<1> QED BY <1>1, <1>2, <1>3, <1>4 DEF Frames

(* Page tables: an entry is written, a page is evicted. *)
Tables == [Users -> [Pages -> Frames \cup {None}] \cup {NoTable}]

Entered(p, g, f) == [table EXCEPT ![p][g] = f]

LEMMA EntrySet ==
  ASSUME VMTypeOK, NEW p \in Users, table[p] # NoTable, NEW g \in Pages,
         NEW f \in Frames \cup {None}
  PROVE  /\ Entered(p, g, f) \in Tables
         /\ \A r \in Users : Entered(p, g, f)[r] = NoTable <=> table[r] = NoTable
         /\ \A r \in Users, h \in Pages : table[r] # NoTable =>
              Entered(p, g, f)[r][h] = IF r = p /\ h = g THEN f ELSE table[r][h]
<1> DEFINE t == Entered(p, g, f)
<1>1. table \in Tables
  BY DEF VMTypeOK, SwapTypeOK, Tables
<1>2. table[p] \in [Pages -> Frames \cup {None}]
  BY Types
<1>3. [table[p] EXCEPT ![g] = f] \in [Pages -> Frames \cup {None}]
  BY <1>2
<1>4. t = [table EXCEPT ![p] = [table[p] EXCEPT ![g] = f]]
  BY DEF Entered
<1> HIDE DEF t
<1>5. t \in Tables /\ t[p] = [table[p] EXCEPT ![g] = f]
      /\ \A r \in Users : r # p => t[r] = table[r]
  BY <1>1, <1>3, <1>4 DEF Tables
<1>6. t[p] # NoTable
  BY <1>3, <1>5, NotEmpty
<1>7. \A h \in Pages : t[p][h] = IF h = g THEN f ELSE table[p][h]
  BY <1>2, <1>5
<1> QED BY <1>5, <1>6, <1>7 DEF t

LEMMA EvictedPage ==
  ASSUME VMTypeOK, Counted, NEW f \in Frames
  PROVE  /\ Evicted(f) \in Tables
         /\ \A r \in Users : Evicted(f)[r] = NoTable <=> table[r] = NoTable
         /\ \A r \in Users, h \in Pages : table[r] # NoTable =>
              Evicted(f)[r][h] = IF blockNum[f] # None /\ block[blockNum[f]] = << r, h >>
                                 THEN None ELSE table[r][h]
<1>1. CASE blockNum[f] # None /\ block[blockNum[f]] # NoPage
  <2>1. blockNum[f] \in Blocks
    BY <1>1 DEF VMTypeOK, SwapTypeOK
  <2>2. PICK p \in Users, g \in Pages : block[blockNum[f]] = << p, g >>
    BY <1>1, <2>1, Types
  <2>3. table[p] # NoTable
    <3>1. blockNum[f] \in Taken /\ block[blockNum[f]][1] = p
      BY <1>1, <2>1, <2>2 DEF Taken
    <3> QED BY <3>1 DEF Counted
  <2>4. Evicted(f) = Entered(p, g, None)
    BY <1>1, <2>2 DEF Evicted, Entered
  <2>5. /\ Evicted(f) \in Tables
        /\ \A r \in Users : Evicted(f)[r] = NoTable <=> table[r] = NoTable
        /\ \A r \in Users, h \in Pages : table[r] # NoTable =>
             Evicted(f)[r][h] = IF r = p /\ h = g THEN None ELSE table[r][h]
    BY <2>3, <2>4, EntrySet
  <2>6. \A r \in Users, h \in Pages : block[blockNum[f]] = << r, h >> <=> r = p /\ h = g
    BY <2>2
  <2> QED BY <1>1, <2>5, <2>6
<1>2. CASE ~(blockNum[f] # None /\ block[blockNum[f]] # NoPage)
  <2>1. Evicted(f) = table
    BY <1>2 DEF Evicted
  <2>2. \A r \in Users, h \in Pages : << r, h >> # NoPage
    BY NotEmpty
  <2> QED BY <1>2, <2>1, <2>2 DEF VMTypeOK, SwapTypeOK, Tables
<1> QED BY <1>1, <1>2

(* Blocks *)
LEMMA BlockOfPage ==
  ASSUME VMTypeOK, NEW p, NEW g, BlocksOf(p, g) # {}
  PROVE  Min(BlocksOf(p, g)) \in BlocksOf(p, g) /\ Min(BlocksOf(p, g)) \in Blocks
<1>1. BlocksOf(p, g) \subseteq Blocks /\ Blocks \subseteq Nat
  BY DEF BlocksOf, Blocks
<1> QED BY <1>1, MinNat

LEMMA Disjoint ==
  ASSUME NEW S, NEW T, IsFiniteSet(S), IsFiniteSet(T), S \cap T = {}
  PROVE  /\ Cardinality(S \cup T) = Cardinality(S) + Cardinality(T)
         /\ Cardinality(S) \in Nat /\ Cardinality(T) \in Nat
<1>1. Cardinality(S \cap T) = 0
  BY FS_EmptySet
<1>2. Cardinality(S \cup T) = Cardinality(S) + Cardinality(T) - Cardinality(S \cap T)
  BY FS_Union
<1>3. PICK m \in Nat, n \in Nat : m = Cardinality(S) /\ n = Cardinality(T)
  BY FS_CardinalityType
<1> QED BY <1>1, <1>2, <1>3

LEMMA BlocksFinite ==
  /\ IsFiniteSet(Blocks) /\ Cardinality(Blocks) = MaxBlocks /\ MaxBlocks \in Nat
  /\ IsFiniteSet(Taken) /\ Cardinality(Taken) \in Nat /\ Taken \subseteq Blocks
<1>1. MaxBlocks \in Nat
  BY SwapAssumption
<1>2. IsFiniteSet(Blocks) /\ Cardinality(Blocks) = MaxBlocks
  BY <1>1, FS_Interval DEF Blocks
<1>3. Taken \subseteq Blocks
  BY DEF Taken
<1> QED BY <1>1, <1>2, <1>3, FS_Subset, FS_CardinalityType

LEMMA FirstFreeFree ==
  ASSUME VMTypeOK, Counted, freeBlocks # 0
  PROVE  FirstFree \in Blocks /\ block[FirstFree] = NoPage /\ FirstFree \notin Taken
<1>1. Cardinality(Taken) < MaxBlocks
  <2>1. PICK m \in 0 .. MaxBlocks : freeBlocks = m - Cardinality(Taken)
    BY Types DEF Counted
  <2>2. freeBlocks \in Nat
    BY DEF VMTypeOK, SwapTypeOK
  <2> QED BY <2>1, <2>2, BlocksFinite
<1>2. Taken # Blocks
  BY <1>1, BlocksFinite
<1> DEFINE free == {b \in Blocks : block[b] = NoPage}
<1>3. free # {} /\ free \subseteq Nat
  BY <1>2 DEF Taken, Blocks
<1>4. Min(free) \in free
  <2> HIDE DEF free
  <2> QED BY <1>3, MinNat
<1> QED BY <1>4 DEF FirstFree, Taken

LEMMA AllocateCounts ==
  ASSUME VMTypeOK, Counted, freeBlocks # 0, NEW p \in Users, NEW g \in Pages, Allocate(p, g)
  PROVE  /\ block' \in [Blocks -> (Users \X Pages) \cup {NoPage}]
         /\ freeBlocks' \in 0 .. MaxBlocks /\ freeBlocks' <= freeBlocks
         /\ \A b \in Blocks : block'[b] = IF b = FirstFree THEN << p, g >> ELSE block[b]
         /\ freeBlocks' + Cardinality(Taken') = freeBlocks + Cardinality(Taken)
<1>1. FirstFree \in Blocks /\ FirstFree \notin Taken
  BY FirstFreeFree
<1>2. \A b \in Blocks : block'[b] = IF b = FirstFree THEN << p, g >> ELSE block[b]
  BY <1>1 DEF Allocate, VMTypeOK, SwapTypeOK
<1>3. << p, g >> # NoPage /\ << p, g >> \in Users \X Pages
  BY NotEmpty
<1>4. Taken' = Taken \cup {FirstFree}
  BY <1>1, <1>2, <1>3 DEF Taken
<1>5. Cardinality(Taken') = Cardinality(Taken) + 1
  BY <1>1, <1>4, BlocksFinite, FS_AddElement
<1>6. freeBlocks' = freeBlocks - 1 /\ freeBlocks \in 0 .. MaxBlocks
  BY DEF Allocate, VMTypeOK, SwapTypeOK
<1>7. block' \in [Blocks -> (Users \X Pages) \cup {NoPage}]
  BY <1>3 DEF Allocate, VMTypeOK, SwapTypeOK
<1> QED BY <1>2, <1>5, <1>6, <1>7, BlocksFinite

LEMMA FreeAllCounts ==
  ASSUME VMTypeOK, Counted, NEW p \in Users, SwapFreeAll(p), table[p] # NoTable, Up
  PROVE  /\ block' \in [Blocks -> (Users \X Pages) \cup {NoPage}]
         /\ freeBlocks' \in 0 .. MaxBlocks /\ freeBlocks' <= c.blocks
         /\ \A b \in Blocks :
              block'[b] = IF block[b] # NoPage /\ block[b][1] = p THEN NoPage ELSE block[b]
         /\ freeBlocks' + Cardinality(Taken') = freeBlocks + Cardinality(Taken)
<1>1. BlocksOfProcess(p) \subseteq Taken
  BY DEF BlocksOfProcess, Taken
<1>2. \A b \in Blocks :
        block'[b] = IF b \in BlocksOfProcess(p) THEN NoPage ELSE block[b]
  BY DEF SwapFreeAll
<1>3. Taken' = Taken \ BlocksOfProcess(p)
  BY <1>2 DEF Taken
<1>4. /\ IsFiniteSet(BlocksOfProcess(p)) /\ IsFiniteSet(Taken')
      /\ Cardinality(BlocksOfProcess(p)) \in Nat /\ Cardinality(Taken') \in Nat
  BY <1>1, <1>3, BlocksFinite, FS_Subset, FS_CardinalityType
<1>5. Taken = Taken' \cup BlocksOfProcess(p) /\ Taken' \cap BlocksOfProcess(p) = {}
  BY <1>1, <1>3
<1>6. Cardinality(Taken) = Cardinality(Taken') + Cardinality(BlocksOfProcess(p))
  BY <1>4, <1>5, Disjoint
<1>7. freeBlocks' = freeBlocks + Cardinality(BlocksOfProcess(p)) /\ freeBlocks \in 0 .. MaxBlocks
  BY DEF SwapFreeAll, Freed, VMTypeOK, SwapTypeOK
<1>8. freeBlocks = c.blocks - Cardinality(Taken) /\ c.blocks \in 0 .. MaxBlocks
  BY Types DEF Counted
<1>9. block' \in [Blocks -> (Users \X Pages) \cup {NoPage}]
  BY DEF SwapFreeAll, VMTypeOK, SwapTypeOK
<1> QED BY <1>2, <1>4, <1>6, <1>7, <1>8, <1>9, BlocksFinite DEF BlocksOfProcess

-----------------------------------------------------------------------------
(* What a step changes of a pager keeps its type. *)
LEMMA ToType ==
  ASSUME pg \in [Pagers -> PagerType], NEW q \in Pagers, NEW x \in PagerPCs, To(q, x)
  PROVE  pg' \in [Pagers -> PagerType]
BY DEF To, PagerType

LEMMA FrameType ==
  ASSUME pg \in [Pagers -> PagerType], NEW q \in Pagers, NEW x \in PagerPCs,
         NEW f \in Frames \cup {None}
  PROVE  [pg EXCEPT ![q].pc = x, ![q].frame = f] \in [Pagers -> PagerType]
BY DEF PagerType

LEMMA NewFrameType ==
  ASSUME pg \in [Pagers -> PagerType], NEW q \in Pagers, NEW x \in PagerPCs,
         NEW f \in Frames \cup {None}, NEW n \in BOOLEAN
  PROVE  [pg EXCEPT ![q].pc = x, ![q].frame = f, ![q].isNew = n] \in [Pagers -> PagerType]
<1> DEFINE r == [pg[q] EXCEPT !.pc = x, !.frame = f, !.isNew = n]
<1>1. r \in PagerType
  BY DEF PagerType
<1>2. [pg EXCEPT ![q].pc = x, ![q].frame = f, ![q].isNew = n] = [pg EXCEPT ![q] = r]
  OBVIOUS
<1> HIDE DEF r
<1> QED BY <1>1, <1>2

LEMMA BufferType ==
  ASSUME pg \in [Pagers -> PagerType], NEW q \in Pagers, NEW x \in PagerPCs, NEW v \in Values
  PROVE  [pg EXCEPT ![q].pc = x, ![q].buf = v] \in [Pagers -> PagerType]
BY DEF PagerType

LEMMA ClaimedType ==
  ASSUME pg \in [Pagers -> PagerType], NEW q \in Pagers, NEW x \in PagerPCs,
         NEW f \in Frames \cup {None}, NEW n \in BOOLEAN, NEW v \in Values
  PROVE  [pg EXCEPT ![q].pc = x, ![q].frame = f, ![q].isNew = n, ![q].buf = v]
           \in [Pagers -> PagerType]
<1> DEFINE r == [pg[q] EXCEPT !.pc = x, !.frame = f, !.isNew = n, !.buf = v]
           s == [pg[q] EXCEPT !.pc = x, !.frame = f]
<1>1. s \in PagerType
  BY DEF PagerType
<1>2. r \in PagerType
  <2>1. r = [s EXCEPT !.isNew = n, !.buf = v]
    OBVIOUS
  <2> HIDE DEF r, s
  <2> QED BY <1>1, <2>1 DEF PagerType
<1>3. [pg EXCEPT ![q].pc = x, ![q].frame = f, ![q].isNew = n, ![q].buf = v] = [pg EXCEPT ![q] = r]
  OBVIOUS
<1> HIDE DEF r
<1> QED BY <1>2, <1>3

LEMMA Points ==
  {"idle", "take", "pick", "out", "hand", "outmap", "outcopy", "write", "in", "readmap",
   "readcopy", "zeromap", "zerocopy", "update", "quit"} \subseteq PagerPCs
BY DEF PagerPCs

LEMMA IdlePager == Idle \in PagerType
BY SwapAssumption DEF Idle, PagerType, PagerPCs

LEMMA ResetType ==
  ASSUME NEW n \in 0 .. MaxFrames, NEW m \in 0 .. MaxBlocks, Reset(n, m)
  PROVE  /\ frames' \in 0 .. MaxFrames /\ freeFrames' \in Int /\ freeBlocks' = m
         /\ used' \in [Frames -> BOOLEAN] /\ mapped' \in [Frames -> Pagers \cup {None}]
         /\ busy' \in [Frames -> BOOLEAN] /\ blockNum' \in [Frames -> Blocks \cup {None}]
         /\ block' \in [Blocks -> (Users \X Pages) \cup {NoPage}]
         /\ ref' \in [Frames -> BOOLEAN] /\ dirty' \in [Frames -> BOOLEAN]
         /\ content' \in [Frames -> Values]
BY SwapAssumption DEF Reset

LEMMA TouchType ==
  ASSUME VMTypeOK, NEW f \in Frames, NEW v \in Values, Touch(f, v)
  PROVE  /\ content' \in [Frames -> Values]
         /\ ref' \in [Frames -> BOOLEAN] /\ dirty' \in [Frames -> BOOLEAN]
BY DEF Touch, VMTypeOK, SwapTypeOK

LEMMA SettleType ==
  ASSUME VMTypeOK, NEW p \in Users, table[p] # NoTable, NEW g \in Pages, NEW f \in Frames,
         NEW b \in Blocks, Settle(p, g, f, b)
  PROVE  /\ table' = Entered(p, g, f) /\ table' \in Tables
         /\ busy' \in [Frames -> BOOLEAN] /\ blockNum' \in [Frames -> Blocks \cup {None}]
<1>1. table' = Entered(p, g, f)
  BY DEF Settle, Entered
<1>2. table' \in Tables
  BY <1>1, EntrySet
<1> QED BY <1>1, <1>2 DEF Settle, VMTypeOK, SwapTypeOK

LEMMA AnswerType ==
  ASSUME VMTypeOK, FaultsOnce, NEW q \in Pagers, Serving(q), NEW yes \in BOOLEAN, Answer(q, yes)
  PROVE  /\ ok' \in [Users -> BOOLEAN] /\ wait' \in [Users \cup {Boss} -> 0 .. 1]
         /\ pg' \in [Pagers -> PagerType]
<1>1. pg[q].of \in Users /\ wait[pg[q].of] = 0
  BY DEF FaultsOnce
<1> QED BY <1>1, IdlePager DEF Answer, VMTypeOK

LEMMA UserType ==
  ASSUME VMTypeOK, FaultsOnce, Stopping, Counted, NEW p \in Users, UserStep(p) \/ UserChoice(p)
  PROVE  VMTypeOK'
<1> USE DEF VMTypeOK, SwapTypeOK, swapVars, poolVars, infoVars, blockVars, mmuVars, faultVars,
            lockVars, bossVars
<1>1. CASE Fork(p)
  <2>1. table' \in Tables
    BY <1>1, NotEmpty DEF Fork, Tables
  <2> QED BY <1>1, <2>1 DEF Fork, Tables
<1>2. CASE Write(p)
  <2>1. PICK g \in Pages, v \in Values : InCore(p, g) /\ Touch(table[p][g], v)
    BY <1>2 DEF Write
  <2>2. table[p][g] \in Frames
    BY <2>1, Types DEF InCore
  <2>3. /\ content' \in [Frames -> Values]
        /\ ref' \in [Frames -> BOOLEAN] /\ dirty' \in [Frames -> BOOLEAN]
    BY <2>1, <2>2, TouchType
  <2> QED BY <1>2, <2>3 DEF Write
<1>3. CASE Read(p)
  <2>1. ref' \in [Frames -> BOOLEAN]
    BY <1>3 DEF Read
  <2> QED BY <1>3, <2>1 DEF Read
<1>4. CASE Fault(p)
  <2>1. queue' \in Seq(Users \cup {Boss})
    BY <1>4, AppendProperties DEF Fault
  <2>2. page' \in [Users -> Pages]
    BY <1>4 DEF Fault
  <2> QED BY <1>4, <2>1, <2>2 DEF Fault
<1>5. CASE Signal(p)
  BY <1>5 DEF Signal
<1>6. CASE Return(p)
  <2>1. wait' \in [Users \cup {Boss} -> 0 .. 1]
    BY <1>6 DEF Return
  <2>2. page' \in [Users -> Pages]
    BY <1>6, SwapAssumption DEF Return, Pages
  <2> QED BY <1>6, <2>1, <2>2 DEF Return
<1>7. CASE Quit(p)
  BY <1>7 DEF Quit
<1>8. CASE ReapSwap(p)
  <2>0. Up
    BY <1>8 DEF ReapSwap, Counted
  <2>1. /\ block' \in [Blocks -> (Users \X Pages) \cup {NoPage}]
        /\ freeBlocks' \in 0 .. MaxBlocks /\ freeBlocks' <= c.blocks
    BY <1>8, <2>0, FreeAllCounts DEF ReapSwap
  <2>2. table' \in Tables
    BY <1>8, NotEmpty DEF ReapSwap, SwapFreeAll, Tables
  <2>3. busy' \in [Frames -> BOOLEAN] /\ blockNum' \in [Frames -> Blocks \cup {None}]
    BY <1>8 DEF ReapSwap, SwapFreeAll
  <2> QED BY <1>8, <2>1, <2>2, <2>3 DEF ReapSwap, Tables
<1>9. CASE ReapFrames(p)
  <2>1. freeFrames' \in Int
    BY <1>9 DEF ReapFrames, FrameFreeAll
  <2>2. used' \in [Frames -> BOOLEAN] /\ mapped' \in [Frames -> Pagers \cup {None}]
    BY <1>9 DEF ReapFrames, FrameFreeAll
  <2>3. table' \in Tables
    BY <1>9 DEF ReapFrames, Tables
  <2> QED BY <1>9, <2>1, <2>2, <2>3 DEF ReapFrames, Tables
<1>10. CASE ReapPlain(p)
  BY <1>10 DEF ReapPlain
<1> QED BY <1>1, <1>2, <1>3, <1>4, <1>5, <1>6, <1>7, <1>8, <1>9, <1>10 DEF UserStep, UserChoice

LEMMA HeadTail ==
  ASSUME VMTypeOK, FaultsOnce, queue # << >>
  PROVE  /\ Tail(queue) \in Seq(Users \cup {Boss}) /\ Len(Tail(queue)) = Len(queue) - 1
         /\ Head(queue) \in Users \cup {Boss} /\ Head(queue) \in Entries(queue)
         /\ Once(Tail(queue)) /\ Entries(Tail(queue)) = Entries(queue) \ {Head(queue)}
BY TailEntries DEF VMTypeOK, FaultsOnce

LEMMA ServedUser ==
  ASSUME VMTypeOK, FaultsOnce, NEW q \in Pagers, Serving(q)
  PROVE  /\ pg[q].of \in Users /\ page[pg[q].of] \in Pages
         /\ table[pg[q].of] # NoTable /\ Faults(pg[q].of) /\ wait[pg[q].of] = 0
BY Types DEF FaultsOnce

LEMMA ServingUp ==
  ASSUME Stopping, NEW q \in Pagers, pg[q].pc # "quit"
  PROVE  Up
BY DEF Stopping, Up

(* What a pager that serves a fault does with its own variables *)
LEMMA PagerType1 ==
  ASSUME VMTypeOK, FaultsOnce, Stopping, Counted, Locked, NEW q \in Pagers,
         Ready(q) \/ Take(q) \/ TakeFrame(q) \/ SwapOut(q) \/ OutMap(q) \/ OutCopy(q)
  PROVE  VMTypeOK'
<1> USE DEF VMTypeOK, SwapTypeOK, swapVars, poolVars, infoVars, blockVars, mmuVars, faultVars,
            lockVars, bossVars
<1>0. pg \in [Pagers -> PagerType]
  OBVIOUS
<1>1. CASE Ready(q)
  <2>1. pg' \in [Pagers -> PagerType]
    BY <1>0, <1>1, ToType, Points DEF Ready
  <2> QED BY <1>1, <2>1 DEF Ready
<1>2. CASE Take(q)
  <2>1. CASE queue = << >>
    BY <1>2, <2>1 DEF Take
  <2>2. CASE queue # << >> /\ Head(queue) = Boss
    <3>1. pg' \in [Pagers -> PagerType]
      BY <1>0, <1>2, <2>2, ToType, Points DEF Take
    <3>2. wait[Boss] = 0
      BY <2>2, HeadTail DEF Stopping
    <3>3. wait' \in [Users \cup {Boss} -> 0 .. 1]
      BY <1>2, <2>2, <3>2 DEF Take
    <3>4. queue' \in Seq(Users \cup {Boss})
      BY <1>2, <2>2, HeadTail DEF Take
    <3> QED BY <1>2, <2>2, <3>1, <3>3, <3>4 DEF Take
  <2>3. CASE queue # << >> /\ Head(queue) # Boss
    <3>1. pg' \in [Pagers -> PagerType]
      <4>1. Head(queue) \in Users \cup {Boss} /\ pg[q] \in PagerType
        BY <2>3, HeadTail
      <4>2. pg' = [pg EXCEPT ![q].pc = "pick", ![q].of = Head(queue)]
        BY <1>2, <2>3 DEF Take
      <4> QED BY <4>1, <4>2 DEF PagerType, PagerPCs
    <3>2. queue' \in Seq(Users \cup {Boss})
      BY <1>2, <2>3, HeadTail DEF Take
    <3> QED BY <1>2, <2>3, <3>1, <3>2 DEF Take
  <2> QED BY <2>1, <2>2, <2>3
<1>3. CASE TakeFrame(q)
  <2>1. CASE FreePool # {}
    <3>0. FreePool \subseteq Nat
      BY Types DEF FreePool
    <3>1. Min(FreePool) \in FreePool
      BY <2>1, <3>0, MinNat
    <3>2. Min(FreePool) \in Frames
      BY <3>1, Types DEF FreePool
    <3>3. pg' \in [Pagers -> PagerType]
      <4>1. PICK f \in Frames : f = Min(FreePool)
        BY <3>2
      <4>2. pg' = [pg EXCEPT ![q].pc = "in", ![q].frame = f, ![q].isNew = TRUE]
        BY <1>3, <2>1, <4>1 DEF TakeFrame
      <4>3. "in" \in PagerPCs
        BY DEF PagerPCs
      <4> QED BY <1>0, <4>2, <4>3, NewFrameType
    <3>4. used' \in [Frames -> BOOLEAN]
      BY <1>3, <2>1, <3>2 DEF TakeFrame, Pick
    <3> QED BY <1>3, <2>1, <3>3, <3>4 DEF TakeFrame
  <2>2. CASE FreePool = {}
    <3>1. pg' \in [Pagers -> PagerType]
      BY <1>0, <1>3, <2>2, ToType, Points DEF TakeFrame
    <3>2. pool' \in Pagers \cup {Free}
      BY <1>3, <2>2 DEF TakeFrame
    <3> QED BY <1>3, <2>2, <3>1, <3>2 DEF TakeFrame
  <2> QED BY <2>1, <2>2
<1>4. CASE SwapOut(q)
  <2>1. pg' \in [Pagers -> PagerType]
    BY <1>0, <1>4, ToType, Points DEF SwapOut
  <2> QED BY <1>4, <2>1 DEF SwapOut
<1>5. CASE OutMap(q)
  <2>1. pg' \in [Pagers -> PagerType]
    BY <1>0, <1>5, ToType, Points DEF OutMap, FrameMap
  <2>2. mapped' \in [Frames -> Pagers \cup {None}]
    BY <1>5 DEF OutMap, FrameMap
  <2> QED BY <1>5, <2>1, <2>2 DEF OutMap, FrameMap
<1>6. CASE OutCopy(q)
  <2>1. content[pg[q].frame] \in Values
    BY <1>6, Types DEF OutCopy, Locked, LockedBy
  <2>2. pg' \in [Pagers -> PagerType]
    BY <1>0, <1>6, <2>1, BufferType, Points DEF OutCopy
  <2>3. mapped' \in [Frames -> Pagers \cup {None}] /\ failed' \in BOOLEAN
    BY <1>6 DEF OutCopy, FrameUnmap
  <2> QED BY <1>6, <2>2, <2>3 DEF OutCopy
<1> QED BY <1>1, <1>2, <1>3, <1>4, <1>5, <1>6

LEMMA EndSwapOutType ==
  ASSUME VMTypeOK, NEW q \in Pagers, NEW f \in Frames, EndSwapOut(q, f)
  PROVE  /\ pg' \in [Pagers -> PagerType]
         /\ swap' \in Pagers \cup {Free} /\ pool' \in Pagers \cup {Free}
         /\ busy' \in [Frames -> BOOLEAN] /\ blockNum' \in [Frames -> Blocks \cup {None}]
<1>1. pg \in [Pagers -> PagerType] /\ Zero \in Values /\ "in" \in PagerPCs
  BY SwapAssumption DEF VMTypeOK, PagerPCs
<1>2. pg' = [pg EXCEPT ![q].pc = "in", ![q].frame = f, ![q].isNew = FALSE, ![q].buf = Zero]
  BY DEF EndSwapOut
<1>3. pg' \in [Pagers -> PagerType]
  BY <1>1, <1>2, ClaimedType
<1> QED BY <1>3 DEF EndSwapOut, Claim, VMTypeOK, SwapTypeOK

LEMMA PagerType2 ==
  ASSUME VMTypeOK, FaultsOnce, Stopping, Counted, Locked, NEW q \in Pagers,
         ChooseTarget(q) \/ WriteOut(q) \/ SwapIn(q)
  PROVE  VMTypeOK'
<1> USE DEF VMTypeOK, SwapTypeOK, swapVars, poolVars, infoVars, blockVars, mmuVars, faultVars,
            lockVars, bossVars
<1>0. pg \in [Pagers -> PagerType]
  OBVIOUS
<1>1. CASE ChooseTarget(q)
  <2>1. Target \in Frames
    BY <1>1, ServingUp, TargetFree DEF ChooseTarget, Counted, Up
  <2>2. table' \in Tables
    BY <1>1, <2>1, EvictedPage DEF ChooseTarget
  <2>3. hand' \in Frames \cup {None} /\ ref' \in [Frames -> BOOLEAN]
    BY <1>1, <2>1 DEF ChooseTarget, TurnHand
  <2>4. CASE dirty[Target] /\ blockNum[Target] # None
    <3>1. pg' \in [Pagers -> PagerType]
      <4>1. PICK f \in Frames : f = Target
        BY <2>1
      <4>2. pg' = [pg EXCEPT ![q].pc = "outmap", ![q].frame = f]
        BY <1>1, <2>4, <4>1 DEF ChooseTarget
      <4>3. "outmap" \in PagerPCs
        BY DEF PagerPCs
      <4> QED BY <1>0, <4>2, <4>3, FrameType
    <3> QED BY <1>1, <2>2, <2>3, <2>4, <3>1 DEF ChooseTarget, Tables
  <2>5. CASE ~(dirty[Target] /\ blockNum[Target] # None)
    <3>1. EndSwapOut(q, Target)
      BY <1>1, <2>5 DEF ChooseTarget
    <3>2. /\ pg' \in [Pagers -> PagerType]
          /\ swap' \in Pagers \cup {Free} /\ pool' \in Pagers \cup {Free}
          /\ busy' \in [Frames -> BOOLEAN] /\ blockNum' \in [Frames -> Blocks \cup {None}]
      BY <2>1, <3>1, EndSwapOutType
    <3> QED BY <1>1, <2>2, <2>3, <3>2 DEF ChooseTarget, Tables
  <2> QED BY <2>4, <2>5
<1>2. CASE WriteOut(q)
  <2>1. pg[q].frame \in Frames /\ blockNum[pg[q].frame] \in Blocks /\ pg[q].buf \in Values
    BY <1>2, Types DEF WriteOut, Locked, LockedBy
  <2>2. EndSwapOut(q, pg[q].frame)
    BY <1>2 DEF WriteOut
  <2>3. /\ pg' \in [Pagers -> PagerType]
        /\ swap' \in Pagers \cup {Free} /\ pool' \in Pagers \cup {Free}
        /\ busy' \in [Frames -> BOOLEAN] /\ blockNum' \in [Frames -> Blocks \cup {None}]
    BY <2>1, <2>2, EndSwapOutType
  <2>4. /\ disk' \in [Blocks -> Values]
        /\ dirty' \in [Frames -> BOOLEAN] /\ ref' \in [Frames -> BOOLEAN]
    BY <1>2, <2>1 DEF WriteOut
  <2> QED BY <1>2, <2>3, <2>4 DEF WriteOut
<1>3. CASE SwapIn(q)
  <2> DEFINE p == pg[q].of
             g == page[p]
             f == pg[q].frame
  <2>1. pg[q].pc = "in" /\ p \in Users /\ g \in Pages /\ table[p] # NoTable /\ Serving(q)
    BY <1>3, ServedUser DEF SwapIn, Serving, Working
  <2>2. f \in Frames
    BY <2>1, Types DEF Locked, LockedBy, Working
  <2>3. CASE BlocksOf(p, g) # {}
    <3>1. disk[Min(BlocksOf(p, g))] \in Values
      BY <2>3, BlockOfPage
    <3>2. pg' \in [Pagers -> PagerType]
      <4>1. PICK v \in Values : v = disk[Min(BlocksOf(p, g))]
        BY <3>1
      <4>2. pg' = [pg EXCEPT ![q].pc = "readmap", ![q].buf = v]
        BY <1>3, <2>3, <4>1 DEF SwapIn
      <4>3. "readmap" \in PagerPCs
        BY DEF PagerPCs
      <4> QED BY <1>0, <4>2, <4>3, BufferType
    <3> QED BY <1>3, <2>3, <3>2 DEF SwapIn
  <2>4. CASE BlocksOf(p, g) = {} /\ freeBlocks = 0
    <3>1. Answer(q, FALSE)
      BY <1>3, <2>4 DEF SwapIn
    <3>2. /\ ok' \in [Users -> BOOLEAN] /\ wait' \in [Users \cup {Boss} -> 0 .. 1]
          /\ pg' \in [Pagers -> PagerType]
      BY <2>1, <3>1, AnswerType
    <3>3. busy' \in [Frames -> BOOLEAN]
      BY <1>3, <2>4 DEF SwapIn
    <3> QED BY <1>3, <2>4, <3>2, <3>3 DEF SwapIn
  <2>5. CASE BlocksOf(p, g) = {} /\ freeBlocks # 0
    <3>1. Allocate(p, g) /\ Settle(p, g, f, FirstFree) /\ To(q, "zeromap")
      BY <1>3, <2>5 DEF SwapIn
    <3>2. /\ block' \in [Blocks -> (Users \X Pages) \cup {NoPage}]
          /\ freeBlocks' \in 0 .. MaxBlocks /\ freeBlocks' <= c.blocks
      <4>1. freeBlocks <= c.blocks /\ freeBlocks \in Nat /\ c.blocks \in Nat
        BY Types
      <4>2. freeBlocks' \in 0 .. MaxBlocks /\ freeBlocks' <= freeBlocks
        BY <2>1, <2>5, <3>1, AllocateCounts
      <4>3. block' \in [Blocks -> (Users \X Pages) \cup {NoPage}]
        BY <2>1, <2>5, <3>1, AllocateCounts
      <4>4. freeBlocks' \in Nat
        BY <4>2, Types
      <4> QED BY <4>1, <4>2, <4>3, <4>4
    <3>3. FirstFree \in Blocks
      BY <2>5, FirstFreeFree
    <3>4. /\ table' \in Tables
          /\ busy' \in [Frames -> BOOLEAN] /\ blockNum' \in [Frames -> Blocks \cup {None}]
      BY <2>1, <2>2, <3>1, <3>3, SettleType
    <3>5. pg' \in [Pagers -> PagerType]
      BY <1>0, <3>1, ToType, Points
    <3> QED BY <1>3, <2>5, <3>2, <3>4, <3>5 DEF SwapIn, Tables
  <2> QED BY <2>3, <2>4, <2>5
<1> QED BY <1>1, <1>2, <1>3

LEMMA PagerType3 ==
  ASSUME VMTypeOK, FaultsOnce, Stopping, Counted, Locked, NEW q \in Pagers,
         ReadMap(q) \/ ReadCopy(q) \/ ZeroMap(q) \/ ZeroCopy(q) \/ Update(q)
  PROVE  VMTypeOK'
<1> USE DEF VMTypeOK, SwapTypeOK, swapVars, poolVars, infoVars, blockVars, mmuVars, faultVars,
            lockVars, bossVars
<1>0. pg \in [Pagers -> PagerType] /\ Zero \in Values
  BY SwapAssumption
<1>1. CASE ReadMap(q)
  <2>1. pg' \in [Pagers -> PagerType]
    BY <1>0, <1>1, ToType, Points DEF ReadMap, FrameMap
  <2>2. mapped' \in [Frames -> Pagers \cup {None}]
    BY <1>1 DEF ReadMap, FrameMap
  <2> QED BY <1>1, <2>1, <2>2 DEF ReadMap, FrameMap
<1>2. CASE ReadCopy(q)
  <2> DEFINE p == pg[q].of
             g == page[p]
             f == pg[q].frame
  <2>1. pg[q].pc = "readcopy" /\ p \in Users /\ g \in Pages /\ table[p] # NoTable
    BY <1>2, ServedUser DEF ReadCopy, Serving, Working
  <2>2. f \in Frames /\ pg[q].buf \in Values
    BY <2>1, Types DEF Locked, LockedBy, Working
  <2>3. Min(BlocksOf(p, g)) \in Blocks
    BY <2>1, BlockOfPage DEF Locked, LockedBy
  <2>4. Touch(f, pg[q].buf) /\ Settle(p, g, f, Min(BlocksOf(p, g))) /\ FrameUnmap(q)
    BY <1>2 DEF ReadCopy
  <2>5. /\ table' \in Tables
        /\ busy' \in [Frames -> BOOLEAN] /\ blockNum' \in [Frames -> Blocks \cup {None}]
    BY <2>1, <2>2, <2>3, <2>4, SettleType
  <2>6. /\ content' \in [Frames -> Values]
        /\ ref' \in [Frames -> BOOLEAN] /\ dirty' \in [Frames -> BOOLEAN]
    BY <2>2, <2>4, TouchType
  <2>7. pg' \in [Pagers -> PagerType]
    BY <1>0, <1>2, BufferType, Points DEF ReadCopy
  <2>8. mapped' \in [Frames -> Pagers \cup {None}] /\ failed' \in BOOLEAN
    BY <2>4 DEF FrameUnmap
  <2> QED BY <1>2, <2>5, <2>6, <2>7, <2>8 DEF ReadCopy, Tables
<1>3. CASE ZeroMap(q)
  <2>1. pg' \in [Pagers -> PagerType]
    BY <1>0, <1>3, ToType, Points DEF ZeroMap, FrameMap
  <2>2. mapped' \in [Frames -> Pagers \cup {None}]
    BY <1>3 DEF ZeroMap, FrameMap
  <2> QED BY <1>3, <2>1, <2>2 DEF ZeroMap, FrameMap
<1>4. CASE ZeroCopy(q)
  <2>1. pg[q].frame \in Frames
    BY <1>4, Types DEF ZeroCopy, Locked, LockedBy, Working
  <2>2. /\ content' \in [Frames -> Values]
        /\ ref' \in [Frames -> BOOLEAN] /\ dirty' \in [Frames -> BOOLEAN]
    BY <1>0, <1>4, <2>1, TouchType DEF ZeroCopy
  <2>3. pg' \in [Pagers -> PagerType]
    BY <1>0, <1>4, ToType, Points DEF ZeroCopy
  <2>4. mapped' \in [Frames -> Pagers \cup {None}] /\ failed' \in BOOLEAN
    BY <1>4 DEF ZeroCopy, FrameUnmap
  <2> QED BY <1>4, <2>2, <2>3, <2>4 DEF ZeroCopy
<1>5. CASE Update(q)
  <2> DEFINE p == pg[q].of
             g == page[p]
  <2>1. p \in Users /\ g \in Pages /\ table[p] # NoTable /\ Serving(q)
    BY <1>5, ServedUser DEF Update, Serving, Working
  <2>2. table' = Entered(p, g, pg[q].frame)
    BY <1>5 DEF Update, Entered
  <2>3. table' \in Tables
    BY <2>1, <2>2, EntrySet, Types
  <2>4. /\ ok' \in [Users -> BOOLEAN] /\ wait' \in [Users \cup {Boss} -> 0 .. 1]
        /\ pg' \in [Pagers -> PagerType]
    BY <1>5, <2>1, AnswerType DEF Update
  <2>5. freeFrames' \in Int
    BY <1>5 DEF Update
  <2> QED BY <1>5, <2>3, <2>4, <2>5 DEF Update, Tables
<1> QED BY <1>1, <1>2, <1>3, <1>4, <1>5

LEMMA StoppedFew ==
  ASSUME VMTypeOK
  PROVE  /\ IsFiniteSet(Stopped) /\ Cardinality(Stopped) \in Nat
         /\ Cardinality(Stopped) <= Cardinality(c.pagers)
         /\ Cardinality(c.pagers) <= Cardinality(Pagers)
         /\ Cardinality(c.pagers) \in Nat /\ Cardinality(Pagers) \in Nat
<1>1. Stopped \subseteq c.pagers /\ c.pagers \subseteq Pagers /\ IsFiniteSet(Pagers)
  BY VMAssumption, Types DEF Stopped
<1> QED BY <1>1, FS_Subset, FS_CardinalityType

(* What the process does that starts and stops virtual memory *)
LEMMA BossType ==
  ASSUME VMTypeOK, Stopping, VmInit \/ VmShutdown \/ BossStep
  PROVE  VMTypeOK'
<1> USE DEF VMTypeOK, SwapTypeOK, swapVars, poolVars, infoVars, blockVars, mmuVars, faultVars,
            lockVars, bossVars
<1>1. CASE VmInit
  <2>1. c.frames \in 0 .. MaxFrames /\ c.blocks \in 0 .. MaxBlocks
    BY Types
  <2>2. Reset(c.frames, c.blocks)
    BY <1>1 DEF VmInit
  <2>3. /\ frames' \in 0 .. MaxFrames /\ freeFrames' \in Int /\ freeBlocks' = c.blocks
        /\ used' \in [Frames -> BOOLEAN] /\ mapped' \in [Frames -> Pagers \cup {None}]
        /\ busy' \in [Frames -> BOOLEAN] /\ blockNum' \in [Frames -> Blocks \cup {None}]
        /\ block' \in [Blocks -> (Users \X Pages) \cup {NoPage}]
        /\ ref' \in [Frames -> BOOLEAN] /\ dirty' \in [Frames -> BOOLEAN]
        /\ content' \in [Frames -> Values]
    BY <2>1, <2>2, ResetType
  <2>4. pg' \in [Pagers -> PagerType]
    BY <1>1, IdlePager DEF VmInit
  <2>5. freeBlocks' <= c.blocks
    BY <2>1, <2>3
  <2> QED BY <1>1, <2>1, <2>3, <2>4, <2>5 DEF VmInit
<1>2. CASE VmShutdown
  <2>1. turn' \in 0 .. Cardinality(Pagers) /\ queue' \in Seq(Users \cup {Boss})
    BY <1>2, StoppedFew DEF VmShutdown
  <2> QED BY <1>2, <2>1 DEF VmShutdown
<1>3. CASE Abort
  <2>1. queue' \in Seq(Users \cup {Boss})
    BY <1>3, AppendProperties DEF Abort
  <2> QED BY <1>3, <2>1 DEF Abort
<1>4. CASE AbortSignal
  BY <1>4 DEF AbortSignal
<1>5. CASE AwaitAbort
  <2>1. wait[Boss] = 1 /\ Up
    BY <1>5 DEF AwaitAbort, Up
  <2>2. Cardinality(Stopped) = turn + 1
    BY <2>1 DEF Stopping
  <2>3. turn' \in 0 .. Cardinality(Pagers)
    BY <1>5, <2>2, StoppedFew DEF AwaitAbort
  <2>4. wait' \in [Users \cup {Boss} -> 0 .. 1]
    BY <1>5, <2>1 DEF AwaitAbort
  <2> QED BY <1>5, <2>3, <2>4 DEF AwaitAbort
<1>6. CASE Clean
  <2>1. Reset(0, 0) /\ 0 \in 0 .. MaxFrames /\ 0 \in 0 .. MaxBlocks
    BY <1>6, SwapAssumption DEF Clean
  <2>2. /\ frames' \in 0 .. MaxFrames /\ freeFrames' \in Int /\ freeBlocks' = 0
        /\ used' \in [Frames -> BOOLEAN] /\ mapped' \in [Frames -> Pagers \cup {None}]
        /\ busy' \in [Frames -> BOOLEAN] /\ blockNum' \in [Frames -> Blocks \cup {None}]
        /\ block' \in [Blocks -> (Users \X Pages) \cup {NoPage}]
        /\ ref' \in [Frames -> BOOLEAN] /\ dirty' \in [Frames -> BOOLEAN]
        /\ content' \in [Frames -> Values]
    BY <2>1, ResetType
  <2>3. freeBlocks' <= c.blocks
    BY <2>2, Types
  <2> QED BY <1>6, <2>1, <2>2, <2>3 DEF Clean
<1> QED BY <1>1, <1>2, <1>3, <1>4, <1>5, <1>6 DEF BossStep

-----------------------------------------------------------------------------
(* What a pager's step is for the others: it only works on, or answers a   *)
(* fault, or takes one from the queue, or stops.                           *)
Beside(q) ==
  /\ at' = at /\ page' = page /\ c' = c /\ bossVars' = bossVars
  /\ \A r \in Pagers : r # q => pg'[r] = pg[r]
  /\ \A p \in Users : table'[p] = NoTable <=> table[p] = NoTable

WorksOn(q) ==
  /\ queue' = queue /\ wait' = wait /\ pg'[q].of = pg[q].of
  /\ pg'[q].pc \in Working <=> Serving(q)
  /\ pg[q].pc # "quit" /\ pg'[q].pc # "quit"

Answers(q) ==
  /\ Serving(q) /\ queue' = queue /\ wait' = [wait EXCEPT ![pg[q].of] = @ + 1]
  /\ pg'[q] = Idle

TakesFault(q) ==
  /\ pg[q].pc = "take" /\ queue # << >> /\ Head(queue) # Boss
  /\ queue' = Tail(queue) /\ wait' = wait
  /\ pg'[q].pc = "pick" /\ pg'[q].of = Head(queue)

TakesStop(q) ==
  /\ pg[q].pc = "take" /\ queue # << >> /\ Head(queue) = Boss
  /\ queue' = Tail(queue) /\ wait' = [wait EXCEPT ![Boss] = @ + 1]
  /\ pg'[q].pc = "quit"

LEMMA OthersKeep ==
  ASSUME VMTypeOK, FaultsOnce, Stopping, Counted, Locked, NEW q \in Pagers, PagerStep(q)
  PROVE  Beside(q)
<1>1. /\ at' = at /\ page' = page /\ c' = c /\ bossVars' = bossVars
      /\ \A r \in Pagers : r # q => pg'[r] = pg[r]
  <2>0. pg \in [Pagers -> PagerType]
    BY DEF VMTypeOK
  <2> USE DEF faultVars, To
  <2>1. CASE Ready(q) \/ Take(q) \/ TakeFrame(q) \/ SwapOut(q)
    BY <2>0, <2>1 DEF Ready, Take, TakeFrame, SwapOut
  <2>2. CASE ChooseTarget(q)
    BY <2>0, <2>2 DEF ChooseTarget, EndSwapOut
  <2>3. CASE OutMap(q) \/ OutCopy(q) \/ WriteOut(q)
    BY <2>0, <2>3 DEF OutMap, OutCopy, WriteOut, FrameMap, EndSwapOut
  <2>4. CASE SwapIn(q)
    BY <2>0, <2>4 DEF SwapIn, Answer
  <2>5. CASE ReadMap(q) \/ ReadCopy(q)
    BY <2>0, <2>5 DEF ReadMap, ReadCopy, FrameMap
  <2>6. CASE ZeroMap(q) \/ ZeroCopy(q) \/ Update(q)
    BY <2>0, <2>6 DEF ZeroMap, ZeroCopy, Update, FrameMap, Answer
  <2> QED BY <2>1, <2>2, <2>3, <2>4, <2>5, <2>6 DEF PagerStep
<1>2. \A p \in Users : table'[p] = NoTable <=> table[p] = NoTable
  <2>1. CASE table' = table
    BY <2>1
  <2>2. CASE ChooseTarget(q)
    <3>1. Target \in Frames
      BY <2>2, ServingUp, TargetFree DEF ChooseTarget, Counted, Up
    <3>2. table' = Evicted(Target)
      BY <2>2 DEF ChooseTarget
    <3> QED BY <3>1, <3>2, EvictedPage
  <2>3. CASE SwapIn(q)
    <3>1. pg[q].pc = "in"
      BY <2>3 DEF SwapIn
    <3>2. pg[q].of \in Users /\ page[pg[q].of] \in Pages /\ table[pg[q].of] # NoTable
          /\ pg[q].frame \in Frames
      BY <3>1, ServedUser, Types DEF Serving, Working, Locked, LockedBy
    <3>3. table' = table \/ table' = Entered(pg[q].of, page[pg[q].of], pg[q].frame)
      BY <2>3 DEF SwapIn, Settle, Entered
    <3> QED BY <2>1, <3>2, <3>3, EntrySet
  <2>4. CASE ReadCopy(q) \/ Update(q)
    <3>1. pg[q].pc \in {"readcopy", "update"}
      BY <2>4 DEF ReadCopy, Update
    <3>2. pg[q].of \in Users /\ page[pg[q].of] \in Pages /\ table[pg[q].of] # NoTable
          /\ pg[q].frame \in Frames
      BY <3>1, ServedUser, Types DEF Serving, Working, Locked, LockedBy
    <3>3. table' = Entered(pg[q].of, page[pg[q].of], pg[q].frame)
      BY <2>4 DEF ReadCopy, Update, Settle, Entered
    <3> QED BY <3>2, <3>3, EntrySet
  <2>5. ChooseTarget(q) \/ SwapIn(q) \/ ReadCopy(q) \/ Update(q) \/ table' = table
    BY DEF PagerStep, Ready, Take, TakeFrame, SwapOut, OutMap, OutCopy, WriteOut, ReadMap,
           ZeroMap, ZeroCopy, swapVars
  <2> QED BY <2>1, <2>2, <2>3, <2>4, <2>5
<1> QED BY <1>1, <1>2 DEF Beside

LEMMA PagerDoes ==
  ASSUME VMTypeOK, NEW q \in Pagers, PagerStep(q)
  PROVE  WorksOn(q) \/ Answers(q) \/ TakesFault(q) \/ TakesStop(q)
<1>0. pg \in [Pagers -> PagerType]
  BY DEF VMTypeOK
<1> USE DEF faultVars, To, Working, Serving
<1>1. CASE Ready(q) \/ SwapOut(q)
  BY <1>0, <1>1 DEF Ready, SwapOut, WorksOn, PagerType
<1>2. CASE Take(q)
  BY <1>0, <1>2 DEF Take, WorksOn, TakesFault, TakesStop, PagerType
<1>3. CASE TakeFrame(q)
  BY <1>0, <1>3 DEF TakeFrame, WorksOn, PagerType
<1>4. CASE ChooseTarget(q)
  <2>1. PICK f : f = Target
    OBVIOUS
  <2>2. \/ pg' = [pg EXCEPT ![q].pc = "outmap", ![q].frame = f]
        \/ pg' = [pg EXCEPT ![q].pc = "in", ![q].frame = f, ![q].isNew = FALSE, ![q].buf = Zero]
    BY <1>4, <2>1 DEF ChooseTarget, EndSwapOut
  <2>3. queue' = queue /\ wait' = wait /\ pg[q].pc = "hand"
    BY <1>4 DEF ChooseTarget
  <2> QED BY <1>0, <2>2, <2>3 DEF WorksOn, PagerType
<1>5. CASE OutMap(q) \/ OutCopy(q)
  BY <1>0, <1>5 DEF OutMap, OutCopy, FrameMap, WorksOn, PagerType
<1>6. CASE WriteOut(q)
  BY <1>0, <1>6 DEF WriteOut, EndSwapOut, WorksOn, PagerType
<1>7. CASE SwapIn(q)
  <2>1. CASE pg[q].pc = "in" /\ Answer(q, FALSE) /\ queue' = queue
    BY <1>0, <2>1 DEF Answer, Answers
  <2>2. CASE ~Answer(q, FALSE)
    <3>1. PICK v : v = disk[Min(BlocksOf(pg[q].of, page[pg[q].of]))]
      OBVIOUS
    <3>2. \/ pg' = [pg EXCEPT ![q].pc = "readmap", ![q].buf = v]
          \/ pg' = [pg EXCEPT ![q].pc = "zeromap"]
      BY <1>7, <2>2, <3>1 DEF SwapIn
    <3>3. queue' = queue /\ wait' = wait /\ pg[q].pc = "in"
      BY <1>7, <2>2 DEF SwapIn
    <3> QED BY <1>0, <3>2, <3>3 DEF WorksOn, PagerType
  <2>3. pg[q].pc = "in" /\ queue' = queue
    BY <1>7 DEF SwapIn
  <2> QED BY <2>1, <2>2, <2>3
<1>8. CASE ReadMap(q) \/ ZeroMap(q)
  BY <1>0, <1>8 DEF ReadMap, ZeroMap, FrameMap, WorksOn, PagerType
<1>9. CASE ReadCopy(q)
  BY <1>0, <1>9 DEF ReadCopy, WorksOn, PagerType
<1>10. CASE ZeroCopy(q)
  BY <1>0, <1>10 DEF ZeroCopy, WorksOn, PagerType
<1>11. CASE Update(q)
  BY <1>0, <1>11 DEF Update, Answer, Answers
<1> QED BY <1>1, <1>2, <1>3, <1>4, <1>5, <1>6, <1>7, <1>8, <1>9, <1>10, <1>11 DEF PagerStep

LEMMA QueuedUsers ==
  ASSUME VMTypeOK
  PROVE  Entries(queue) \subseteq Users \cup {Boss} /\ Boss \notin Users
BY VMAssumption, ElementOfSeq DEF Entries, VMTypeOK

LEMMA FaultsPager ==
  ASSUME VMTypeOK, FaultsOnce, Stopping, NEW q \in Pagers, Beside(q),
         WorksOn(q) \/ Answers(q) \/ TakesFault(q) \/ TakesStop(q)
  PROVE  FaultsOnce'
<1>1. \A p \in Users : /\ Faults(p)' <=> Faults(p)
                       /\ table'[p] = NoTable <=> table[p] = NoTable
  BY DEF Beside, Faults
<1>2. \A r \in Pagers : r # q => (Serving(r)' <=> Serving(r)) /\ pg'[r].of = pg[r].of
  BY DEF Beside, Serving
<1>3. CASE WorksOn(q)
  <2>1. \A r \in Pagers : (Serving(r)' <=> Serving(r)) /\ pg'[r].of = pg[r].of
    BY <1>2, <1>3 DEF WorksOn, Serving
  <2>2. queue' = queue /\ wait' = wait
    BY <1>3 DEF WorksOn
  <2>3. Entries(queue)' = Entries(queue) /\ Once(queue)'
    BY <2>2 DEF FaultsOnce, Entries
  <2> QED BY <1>1, <2>1, <2>2, <2>3, QueuedUsers DEF FaultsOnce
<1>4. CASE Answers(q)
  <2>1. ~Serving(q)' /\ queue' = queue
    BY <1>4 DEF Answers, Idle, Serving, Working
  <2>2. \A o \in Users \cup {Boss} : o # pg[q].of => wait'[o] = wait[o]
    BY <1>4 DEF Answers, VMTypeOK
  <2>3. Serving(q) /\ pg[q].of \in Users /\ pg[q].of \notin Entries(queue) /\ Faults(pg[q].of)
    BY <1>4 DEF Answers, FaultsOnce
  <2>4. \A r \in Pagers : r # q /\ Serving(r) => pg[r].of # pg[q].of
    BY <2>3 DEF FaultsOnce
  <2>5. Entries(queue)' = Entries(queue) /\ Once(queue)'
    BY <2>1 DEF FaultsOnce, Entries
  <2> QED BY <1>1, <1>2, <2>1, <2>2, <2>3, <2>4, <2>5, QueuedUsers DEF FaultsOnce
<1>5. CASE TakesFault(q)
  <2>1. /\ Once(queue') /\ Entries(queue') = Entries(queue) \ {Head(queue)}
        /\ Head(queue) \in Entries(queue)
    BY <1>5, HeadTail DEF TakesFault
  <2>2. Serving(q)' /\ ~Serving(q) /\ pg'[q].of = Head(queue) /\ wait' = wait /\ Head(queue) # Boss
    BY <1>5 DEF TakesFault, Serving, Working
  <2>3. Entries(queue)' = Entries(queue')
    BY DEF Entries
  <2> QED BY <1>1, <1>2, <2>1, <2>2, <2>3, QueuedUsers DEF FaultsOnce
<1>6. CASE TakesStop(q)
  <2>1. /\ Once(queue') /\ Entries(queue') = Entries(queue) \ {Head(queue)}
        /\ Head(queue) \in Entries(queue)
    BY <1>6, HeadTail DEF TakesStop
  <2>2. ~Serving(q)'
    BY <1>6 DEF TakesStop, Serving, Working
  <2>3. \A p \in Users : wait'[p] = wait[p]
    BY <1>6, QueuedUsers DEF TakesStop, VMTypeOK
  <2>4. Entries(queue)' = Entries(queue')
    BY DEF Entries
  <2> QED BY <1>1, <1>2, <2>1, <2>2, <2>3, <2>4, QueuedUsers DEF FaultsOnce
<1> QED BY <1>3, <1>4, <1>5, <1>6

LEMMA StoppingPager ==
  ASSUME VMTypeOK, FaultsOnce, Stopping, NEW q \in Pagers, Beside(q),
         WorksOn(q) \/ Answers(q) \/ TakesFault(q) \/ TakesStop(q)
  PROVE  Stopping'
<1>1. c' = c /\ boss' = boss /\ turn' = turn /\ \A r \in Pagers : r # q => pg'[r] = pg[r]
  BY DEF Beside, bossVars
<1>2. c.pagers \subseteq Pagers /\ (Up' <=> Up)
  BY <1>1, Types DEF Up
<1>3. CASE WorksOn(q) \/ Answers(q) \/ TakesFault(q)
  <2>1. pg[q].pc # "quit" /\ pg'[q].pc # "quit"
    BY <1>3 DEF WorksOn, Answers, TakesFault, Serving, Working, Idle
  <2>2. Stopped' = Stopped
    BY <1>1, <1>2, <2>1 DEF Stopped
  <2>3. Boss \in Entries(queue') <=> Boss \in Entries(queue)
    BY <1>3, HeadTail DEF WorksOn, Answers, TakesFault
  <2>4. wait'[Boss] = wait[Boss]
    <3>1. Answers(q) => pg[q].of # Boss
      BY QueuedUsers DEF Answers, FaultsOnce
    <3> QED BY <1>3, <3>1 DEF WorksOn, Answers, TakesFault, VMTypeOK
  <2>5. Entries(queue)' = Entries(queue')
    BY DEF Entries
  <2> QED BY <1>1, <1>2, <2>1, <2>2, <2>3, <2>4, <2>5 DEF Stopping
<1>4. CASE TakesStop(q)
  <2>1. Head(queue) = Boss /\ Boss \in Entries(queue) /\ Entries(queue') = Entries(queue) \ {Boss}
    BY <1>4, HeadTail DEF TakesStop
  <2>2. pg[q].pc = "take" /\ pg'[q].pc = "quit"
    BY <1>4 DEF TakesStop
  <2>3. boss \in {"signal", "await"} /\ wait[Boss] = 0 /\ Up /\ q \in c.pagers
    BY <2>1, <2>2 DEF Stopping, Up
  <2>4. wait'[Boss] = 1
    BY <1>4, <2>3 DEF TakesStop, VMTypeOK
  <2>5. Stopped' = Stopped \cup {q} /\ q \notin Stopped
    BY <1>1, <1>2, <2>2, <2>3 DEF Stopped
  <2>6. Cardinality(Stopped') = Cardinality(Stopped) + 1
    BY <2>5, StoppedFew, FS_AddElement
  <2>7. Cardinality(Stopped') = turn' + wait'[Boss]
    BY <1>1, <2>3, <2>4, <2>6 DEF Stopping, VMTypeOK
  <2>8. Entries(queue)' = Entries(queue')
    BY DEF Entries
  <2> QED BY <1>1, <1>2, <2>1, <2>2, <2>3, <2>4, <2>7, <2>8 DEF Stopping
<1> QED BY <1>3, <1>4

(* What a step of a user process is for the pagers: nothing, a new fault,  *)
(* or the end of one *)
Goes(p) ==
  /\ queue' = queue /\ wait' = wait /\ (Faults(p)' <=> Faults(p))
  /\ Faults(p) => table'[p] = table[p]

Enters(p) ==
  /\ ~Faults(p) /\ Faults(p)' /\ table[p] # NoTable /\ table' = table
  /\ queue' = Append(queue, p) /\ wait' = wait

Leaves(p) ==
  /\ wait[p] = 1 /\ table' = table /\ queue' = queue
  /\ wait' = [wait EXCEPT ![p] = @ - 1] /\ ~Faults(p)'

LEMMA UserDoes ==
  ASSUME VMTypeOK, NEW p \in Users, UserStep(p) \/ UserChoice(p)
  PROVE  /\ pg' = pg /\ c' = c /\ boss' = boss /\ turn' = turn
         /\ \A r \in Users : r # p => at'[r] = at[r] /\ table'[r] = table[r]
         /\ Goes(p) \/ Enters(p) \/ Leaves(p)
<1> USE DEF VMTypeOK, SwapTypeOK, swapVars, faultVars, bossVars, Faults
<1>1. CASE Fork(p)
  BY <1>1 DEF Fork, Goes
<1>2. CASE Write(p) \/ Read(p)
  BY <1>2 DEF Write, Read, Goes
<1>3. CASE Fault(p)
  BY <1>3 DEF Fault, Enters
<1>4. CASE Signal(p) \/ Quit(p) \/ ReapPlain(p)
  BY <1>4 DEF Signal, Quit, ReapPlain, Goes
<1>5. CASE Return(p)
  BY <1>5 DEF Return, Leaves
<1>6. CASE ReapSwap(p) \/ ReapFrames(p)
  BY <1>6 DEF ReapSwap, ReapFrames, SwapFreeAll, Goes
<1> QED BY <1>1, <1>2, <1>3, <1>4, <1>5, <1>6 DEF UserStep, UserChoice

LEMMA FaultsUser ==
  ASSUME VMTypeOK, FaultsOnce, Stopping, NEW p \in Users, UserStep(p) \/ UserChoice(p)
  PROVE  FaultsOnce' /\ Stopping'
<1>1. /\ pg' = pg /\ c' = c /\ boss' = boss /\ turn' = turn
      /\ \A r \in Users : r # p => (Faults(r)' <=> Faults(r)) /\ table'[r] = table[r]
      /\ Goes(p) \/ Enters(p) \/ Leaves(p)
  BY UserDoes DEF Faults
<1>2. /\ \A q \in Pagers : Serving(q)' <=> Serving(q)
      /\ Stopped' = Stopped /\ (Up' <=> Up)
  BY <1>1 DEF Serving, Stopped, Up
<1>3. p # Boss /\ \A o \in Entries(queue) : o \in Users \cup {Boss}
  BY QueuedUsers
<1>4. CASE Goes(p)
  <2>1. queue' = queue /\ wait' = wait
    BY <1>4 DEF Goes
  <2>2. Entries(queue)' = Entries(queue) /\ (Once(queue)' <=> Once(queue))
    BY <2>1 DEF Entries
  <2>3. \A r \in Users : (Faults(r)' <=> Faults(r)) /\ (Faults(r) => table'[r] = table[r])
    BY <1>1, <1>4 DEF Goes
  <2>4. FaultsOnce'
    BY <1>1, <1>2, <1>3, <2>1, <2>2, <2>3 DEF FaultsOnce
  <2> QED BY <1>1, <1>2, <2>1, <2>2, <2>4 DEF Stopping
<1>5. CASE Enters(p)
  <2>1. p \notin Entries(queue) /\ wait[p] = 0
    BY <1>3, <1>5 DEF Enters, FaultsOnce, VMTypeOK
  <2>2. \A q \in Pagers : Serving(q) => pg[q].of # p
    BY <1>5 DEF Enters, FaultsOnce
  <2>3. Once(queue') /\ Entries(queue') = Entries(queue) \cup {p}
    BY <1>5, <2>1, AppendEntries DEF Enters, VMTypeOK, FaultsOnce
  <2>4. Entries(queue)' = Entries(queue') /\ (Once(queue)' <=> Once(queue'))
    BY DEF Entries
  <2>5. wait' = wait /\ table' = table /\ Faults(p)' /\ table[p] # NoTable
    BY <1>5 DEF Enters
  <2>6. FaultsOnce'
    BY <1>1, <1>2, <1>3, <2>1, <2>2, <2>3, <2>4, <2>5 DEF FaultsOnce
  <2> QED BY <1>1, <1>2, <1>3, <2>3, <2>4, <2>5, <2>6 DEF Stopping
<1>6. CASE Leaves(p)
  <2>1. queue' = queue /\ table' = table /\ wait[p] = 1
    BY <1>6 DEF Leaves
  <2>2. Entries(queue)' = Entries(queue) /\ (Once(queue)' <=> Once(queue))
    BY <2>1 DEF Entries
  <2>3. p \notin Entries(queue) /\ \A q \in Pagers : Serving(q) => pg[q].of # p
    BY <1>3, <2>1 DEF FaultsOnce
  <2>4. wait'[p] = 0 /\ \A o \in Users \cup {Boss} : o # p => wait'[o] = wait[o]
    BY <1>6, <2>1 DEF Leaves, VMTypeOK
  <2>5. FaultsOnce'
    BY <1>1, <1>2, <1>3, <2>1, <2>2, <2>3, <2>4 DEF FaultsOnce
  <2> QED BY <1>1, <1>2, <1>3, <2>2, <2>4, <2>5 DEF Stopping
<1> QED BY <1>1, <1>4, <1>5, <1>6

LEMMA AllStopped ==
  ASSUME VMTypeOK, Stopping, boss = "abort", turn = Cardinality(c.pagers)
  PROVE  \A q \in Pagers : pg[q].pc = "quit"
<1>1. Cardinality(Stopped) = turn
  BY StoppedFew DEF Stopping, Up, VMTypeOK
<1>2. Stopped = c.pagers
  <2>1. IsFiniteSet(c.pagers) /\ Stopped \subseteq c.pagers
    BY VMAssumption, Types, FS_Subset DEF Stopped
  <2> QED BY <1>1, <2>1, FS_Subset
<1> QED BY <1>2 DEF Stopped, Stopping

LEMMA FaultsBoss ==
  ASSUME VMTypeOK, FaultsOnce, Stopping, VmInit \/ VmShutdown \/ BossStep
  PROVE  FaultsOnce' /\ Stopping'
<1>1. Boss \notin Users /\ at' = at /\ c' = c
  BY VMAssumption DEF VmInit, VmShutdown, BossStep, Abort, AbortSignal, AwaitAbort, Clean
<1>2. \A r \in Users : Faults(r)' <=> Faults(r)
  BY <1>1 DEF Faults
<1>0. Entries(queue) \subseteq Users \cup {Boss}
  BY QueuedUsers
<1>3. CASE VmInit
  <2>1. queue' = queue /\ wait' = wait /\ table' = table /\ boss = "new" /\ boss' = "up"
        /\ turn' = turn
    BY <1>3 DEF VmInit
  <2>2. Entries(queue)' = Entries(queue) /\ (Once(queue)' <=> Once(queue))
    BY <2>1 DEF Entries
  <2>3. \A q \in Pagers : pg[q].pc = "quit"
    BY <2>1 DEF Stopping
  <2>4. \A q \in Pagers : pg'[q] = IF q \in c.pagers THEN Idle ELSE pg[q]
    BY <1>3 DEF VmInit
  <2>5. \A q \in Pagers : ~Serving(q)'
    BY <2>3, <2>4 DEF Serving, Working, Idle
  <2>6. FaultsOnce'
    BY <1>0, <1>2, <2>1, <2>2, <2>5 DEF FaultsOnce
  <2>7. Stopped' = {}
    BY <1>1, <2>4, Types DEF Stopped, Idle
  <2>8. Cardinality(Stopped') = 0
    BY <2>7, FS_EmptySet
  <2>9. turn = 0 /\ wait[Boss] = 0
    BY <2>1 DEF Stopping
  <2>10. \A q \in Pagers : pg'[q].pc # "quit" => q \in c.pagers
    BY <2>3, <2>4
  <2> QED BY <1>1, <2>1, <2>2, <2>6, <2>8, <2>9, <2>10 DEF Stopping
<1>4. CASE VmShutdown
  <2>1. queue' = << >> /\ wait' = wait /\ table' = table /\ pg' = pg /\ boss = "up"
        /\ boss' = "abort" /\ turn' = 0
    BY <1>4 DEF VmShutdown, swapVars
  <2>2. Entries(queue)' = {} /\ Once(queue)'
    BY <2>1, NoEntries DEF Entries, Once
  <2>3. \A q \in Pagers : Serving(q)' <=> Serving(q)
    BY <2>1 DEF Serving
  <2>4. Stopped' = Stopped
    BY <1>1, <2>1 DEF Stopped
  <2>5. FaultsOnce'
    BY <1>0, <1>2, <2>1, <2>2, <2>3 DEF FaultsOnce
  <2> QED BY <1>1, <2>1, <2>2, <2>4, <2>5 DEF Stopping, Up
<1>5. CASE Abort
  <2>1. queue' = Append(queue, Boss) /\ wait' = wait /\ table' = table /\ pg' = pg
        /\ boss = "abort" /\ boss' = "signal" /\ turn' = turn
    BY <1>5 DEF Abort, swapVars
  <2>2. Boss \notin Entries(queue) /\ wait[Boss] = 0
    BY <2>1 DEF Stopping
  <2>3. Once(queue') /\ Entries(queue') = Entries(queue) \cup {Boss}
    BY <2>1, <2>2, AppendEntries DEF VMTypeOK, FaultsOnce
  <2>4. Entries(queue)' = Entries(queue') /\ (Once(queue)' <=> Once(queue'))
    BY DEF Entries
  <2>5. \A q \in Pagers : Serving(q)' <=> Serving(q)
    BY <2>1 DEF Serving
  <2>6. Stopped' = Stopped
    BY <1>1, <2>1 DEF Stopped
  <2>7. FaultsOnce'
    BY <1>0, <1>1, <1>2, <2>1, <2>3, <2>4, <2>5 DEF FaultsOnce
  <2> QED BY <1>1, <2>1, <2>2, <2>3, <2>4, <2>6, <2>7 DEF Stopping, Up
<1>6. CASE AbortSignal
  <2>1. queue' = queue /\ wait' = wait /\ table' = table /\ pg' = pg
        /\ boss = "signal" /\ boss' = "await" /\ turn' = turn
    BY <1>6 DEF AbortSignal, swapVars
  <2>2. Entries(queue)' = Entries(queue) /\ (Once(queue)' <=> Once(queue))
    BY <2>1 DEF Entries
  <2>3. (\A q \in Pagers : Serving(q)' <=> Serving(q)) /\ Stopped' = Stopped
    BY <1>1, <2>1 DEF Serving, Stopped
  <2>4. FaultsOnce'
    BY <1>0, <1>2, <2>1, <2>2, <2>3 DEF FaultsOnce
  <2> QED BY <1>1, <2>1, <2>2, <2>3, <2>4 DEF Stopping, Up
<1>7. CASE AwaitAbort
  <2>1. queue' = queue /\ table' = table /\ pg' = pg
        /\ boss = "await" /\ boss' = "abort" /\ turn' = turn + 1 /\ wait[Boss] > 0
    BY <1>7 DEF AwaitAbort, swapVars
  <2>2. Entries(queue)' = Entries(queue) /\ (Once(queue)' <=> Once(queue))
    BY <2>1 DEF Entries
  <2>3. (\A q \in Pagers : Serving(q)' <=> Serving(q)) /\ Stopped' = Stopped
    BY <1>1, <2>1 DEF Serving, Stopped
  <2>4. wait[Boss] = 1 /\ wait'[Boss] = 0 /\ \A p \in Users : wait'[p] = wait[p]
    BY <1>1, <1>7, <2>1 DEF AwaitAbort, VMTypeOK
  <2>5. FaultsOnce'
    BY <1>0, <1>2, <2>1, <2>2, <2>3, <2>4 DEF FaultsOnce
  <2>6. Cardinality(Stopped') = turn' + wait'[Boss]
    <3>1. Cardinality(Stopped) = turn + 1
      BY <2>1, <2>4 DEF Stopping, Up
    <3>2. turn \in Int
      BY StoppedFew DEF VMTypeOK
    <3> QED BY <2>1, <2>3, <2>4, <3>1, <3>2
  <2> QED BY <1>1, <2>1, <2>2, <2>4, <2>5, <2>6 DEF Stopping, Up
<1>8. CASE Clean
  <2>1. queue' = << >> /\ wait' = wait /\ pg' = pg /\ boss = "abort" /\ boss' = "off"
        /\ turn = Cardinality(c.pagers)
    BY <1>8 DEF Clean
  <2>2. \A q \in Pagers : pg'[q].pc = "quit"
    BY <2>1, AllStopped
  <2>3. \A q \in Pagers : ~Serving(q)'
    BY <2>2 DEF Serving, Working
  <2>4. Entries(queue)' = {} /\ Once(queue)'
    BY <2>1, NoEntries DEF Entries, Once
  <2>5. FaultsOnce'
    BY <1>2, <2>1, <2>3, <2>4 DEF FaultsOnce
  <2> QED BY <1>1, <2>1, <2>2, <2>4, <2>5 DEF Stopping, Up
<1> QED BY <1>3, <1>4, <1>5, <1>6, <1>7, <1>8 DEF BossStep

-----------------------------------------------------------------------------
(* Blocks *)
LEMMA BlocksStay ==
  ASSUME VMTypeOK, Counted, block' = block, freeBlocks' = freeBlocks, c' = c,
         frames' = frames, (Up' <=> Up), boss' # "off" => boss # "off",
         hand' \in -1 .. frames - 1 \/ hand' = hand,
         \A p \in Users : ~Up => table'[p] = NoTable,
         \A b \in Taken : LET p == block[b][1]
                          IN  table'[p] # NoTable /\ at'[p] \notin {"none", "swapped"}
  PROVE  Counted'
<1>1. Taken' = Taken
  BY DEF Taken
<1> QED BY <1>1 DEF Counted

LEMMA CountedUser ==
  ASSUME VMTypeOK, Counted, NEW p \in Users, UserStep(p) \/ UserChoice(p)
  PROVE  Counted'
<1>1. \A b \in Taken : block[b] # NoPage /\ block[b][1] \in Users
  BY Types DEF Taken
<1>2. pg' = pg /\ c' = c /\ boss' = boss /\ (Up' <=> Up)
      /\ \A r \in Users : r # p => at'[r] = at[r] /\ table'[r] = table[r]
  BY UserDoes DEF Up
<1>3. Up' <=> Up
  BY <1>2 DEF Up
<1>4. \A b \in Taken : block[b][1] # p =>
        LET r == block[b][1] IN table'[r] # NoTable /\ at'[r] \notin {"none", "swapped"}
  BY <1>1, <1>2 DEF Counted
<1>5. ASSUME block' = block, freeBlocks' = freeBlocks, frames' = frames, hand' = hand,
             ~Up => table'[p] = NoTable,
             (\E b \in Taken : block[b][1] = p)
               => table'[p] # NoTable /\ at'[p] \notin {"none", "swapped"}
      PROVE  Counted'
  <2>1. \A r \in Users : ~Up => table'[r] = NoTable
    BY <1>2, <1>5 DEF Counted
  <2>2. \A b \in Taken : LET r == block[b][1]
                         IN  table'[r] # NoTable /\ at'[r] \notin {"none", "swapped"}
    BY <1>4, <1>5
  <2> QED BY <1>2, <1>3, <1>5, <2>1, <2>2, BlocksStay
<1>6. (\E b \in Taken : block[b][1] = p) => table[p] # NoTable /\ at[p] \notin {"none", "swapped"}
  BY DEF Counted
<1>7. ~Up => table[p] = NoTable
  BY DEF Counted
<1> USE DEF swapVars, poolVars, infoVars, blockVars, faultVars
<1>8. CASE Fork(p)
  BY <1>5, <1>6, <1>8 DEF Fork, Up
<1>9. CASE Write(p) \/ Read(p)
  BY <1>5, <1>6, <1>7, <1>9 DEF Write, Read
<1>10. CASE Fault(p) \/ Signal(p) \/ Quit(p)
  BY <1>5, <1>6, <1>7, <1>10 DEF Fault, Signal, Quit, VMTypeOK
<1>11. CASE Return(p)
  BY <1>5, <1>6, <1>7, <1>11 DEF Return, VMTypeOK
<1>12. CASE ReapFrames(p)
  <2>1. table'[p] = NoTable
    BY <1>12 DEF ReapFrames, VMTypeOK, SwapTypeOK
  <2> QED BY <1>5, <1>6, <1>12, <2>1 DEF ReapFrames
<1>13. CASE ReapPlain(p)
  BY <1>5, <1>6, <1>7, <1>13 DEF ReapPlain
<1>14. CASE ReapSwap(p)
  <2>1. Up
    BY <1>7, <1>14 DEF ReapSwap
  <2>2. /\ freeBlocks' \in Int /\ freeBlocks \in Int
        /\ \A b \in Blocks :
              block'[b] = IF block[b] # NoPage /\ block[b][1] = p THEN NoPage ELSE block[b]
        /\ freeBlocks' + Cardinality(Taken') = freeBlocks + Cardinality(Taken)
    BY <1>14, <2>1, FreeAllCounts DEF ReapSwap, VMTypeOK, SwapTypeOK
  <2>3. Taken' \subseteq Taken /\ \A b \in Taken' : block'[b] = block[b] /\ block[b][1] # p
    BY <2>2 DEF Taken
  <2>4. IsFiniteSet(Taken') /\ Cardinality(Taken') \in Nat
    BY <2>3, BlocksFinite, FS_Subset, FS_CardinalityType
  <2>5. freeBlocks' = c.blocks - Cardinality(Taken')
    BY <2>1, <2>2, <2>4, Types, BlocksFinite DEF Counted
  <2>6. frames' = frames /\ hand' = hand
    BY <1>14 DEF ReapSwap
  <2>7. \A b, d \in Blocks : block'[b] = block'[d] /\ block'[b] # NoPage => b = d
    BY <2>2 DEF Counted
  <2>8. \A b \in Taken' : table'[block'[b][1]] # NoTable
                          /\ at'[block'[b][1]] \notin {"none", "swapped"}
    BY <1>4, <2>3
  <2>9. freeBlocks' = (IF Up' THEN c'.blocks ELSE 0) - Cardinality(Taken')
    BY <1>2, <1>3, <2>1, <2>5
  <2>10. frames' = (IF Up' THEN c'.frames ELSE 0)
    BY <1>2, <1>3, <2>6 DEF Counted
  <2>11. boss' # "off" => hand' \in -1 .. frames' - 1
    BY <1>2, <2>6 DEF Counted
  <2> QED BY <1>3, <2>1, <2>7, <2>8, <2>9, <2>10, <2>11 DEF Counted
<1> QED BY <1>8, <1>9, <1>10, <1>11, <1>12, <1>13, <1>14 DEF UserStep, UserChoice

LEMMA CountedPager ==
  ASSUME VMTypeOK, FaultsOnce, Stopping, Counted, Locked, NEW q \in Pagers, PagerStep(q)
  PROVE  Counted'
<1>1. \A b \in Taken : block[b] # NoPage /\ block[b][1] \in Users
  BY Types DEF Taken
<1>2. /\ at' = at /\ c' = c /\ boss' = boss /\ \A p \in Users : table'[p] = NoTable <=> table[p] = NoTable
      /\ (Up' <=> Up)
  BY OthersKeep DEF Beside, bossVars, Up
<1>3. Up' <=> Up
  BY <1>2 DEF Up
<1>4. frames' = frames
  BY DEF PagerStep, Ready, Take, TakeFrame, SwapOut, OutMap, OutCopy, WriteOut, ReadMap, ReadCopy,
         ZeroMap, ZeroCopy, ChooseTarget, SwapIn, Update, swapVars
<1>5. hand' = hand \/ (ChooseTarget(q) /\ hand' = Target)
  BY DEF PagerStep, Ready, Take, TakeFrame, SwapOut, OutMap, OutCopy, WriteOut, ReadMap, ReadCopy,
         ZeroMap, ZeroCopy, ChooseTarget, SwapIn, Update, swapVars, infoVars, TurnHand
<1>6. hand' = hand \/ hand' \in -1 .. frames - 1
  <2>1. ChooseTarget(q) => Target \in 0 .. frames - 1 /\ frames \in Nat
    BY ServingUp, TargetFree, Types DEF ChooseTarget, Counted, Up
  <2> HIDE DEF Target
  <2> QED BY <1>5, <2>1
<1>7. CASE block' = block /\ freeBlocks' = freeBlocks
  <2>1. \A b \in Taken : LET p == block[b][1]
                         IN  table'[p] # NoTable /\ at'[p] \notin {"none", "swapped"}
    BY <1>1, <1>2 DEF Counted
  <2>2. \A p \in Users : ~Up => table'[p] = NoTable
    BY <1>2 DEF Counted
  <2> QED BY <1>2, <1>3, <1>4, <1>6, <1>7, <2>1, <2>2, BlocksStay
<1>8. CASE ~(block' = block /\ freeBlocks' = freeBlocks)
  <2> DEFINE p == pg[q].of
             g == page[p]
  <2>1. SwapIn(q)
    BY <1>8 DEF PagerStep, Ready, Take, TakeFrame, SwapOut, OutMap, OutCopy, WriteOut, ReadMap,
         ReadCopy, ZeroMap, ZeroCopy, ChooseTarget, Update, swapVars, blockVars
  <2>2. BlocksOf(p, g) = {} /\ freeBlocks # 0 /\ Allocate(p, g) /\ pg[q].pc = "in"
    BY <1>8, <2>1 DEF SwapIn, blockVars
  <2>3. p \in Users /\ g \in Pages /\ table[p] # NoTable /\ Faults(p) /\ Up
    BY <2>2, ServedUser, ServingUp DEF Serving, Working
  <2> HIDE DEF p, g
  <2>4. /\ freeBlocks' \in Int /\ freeBlocks \in Int
        /\ \A b \in Blocks : block'[b] = IF b = FirstFree THEN << p, g >> ELSE block[b]
        /\ freeBlocks' + Cardinality(Taken') = freeBlocks + Cardinality(Taken)
    BY <2>2, <2>3, AllocateCounts DEF VMTypeOK, SwapTypeOK
  <2>5. Taken' \subseteq Blocks
    BY DEF Taken
  <2>6. IsFiniteSet(Taken') /\ Cardinality(Taken') \in Nat
    BY <2>5, BlocksFinite, FS_Subset, FS_CardinalityType
  <2>7. freeBlocks' = c.blocks - Cardinality(Taken')
    BY <2>3, <2>4, <2>6, Types, BlocksFinite DEF Counted
  <2>8. \A b \in Blocks : block[b] # << p, g >>
    BY <2>2 DEF BlocksOf
  <2>9. \A b, d \in Blocks : block'[b] = block'[d] /\ block'[b] # NoPage => b = d
    BY <2>4, <2>8 DEF Counted
  <2>10. \A b \in Taken' : table'[block'[b][1]] # NoTable
                          /\ at'[block'[b][1]] \notin {"none", "swapped"}
    <3> SUFFICES ASSUME NEW b \in Taken'
                 PROVE  table'[block'[b][1]] # NoTable /\ at'[block'[b][1]] \notin {"none", "swapped"}
      OBVIOUS
    <3>1. CASE b = FirstFree
      BY <1>2, <2>3, <2>4, <3>1 DEF Taken, Faults
    <3>2. CASE b # FirstFree
      <4>1. b \in Taken /\ block'[b] = block[b]
        BY <2>4, <3>2 DEF Taken
      <4> QED BY <1>1, <1>2, <4>1 DEF Counted
    <3> QED BY <3>1, <3>2
  <2>11. freeBlocks' = (IF Up' THEN c'.blocks ELSE 0) - Cardinality(Taken')
    BY <1>2, <1>3, <2>3, <2>7
  <2>12. frames' = (IF Up' THEN c'.frames ELSE 0)
    BY <1>2, <1>3, <1>4 DEF Counted
  <2>13. boss' # "off" => hand' \in -1 .. frames' - 1
    BY <1>2, <1>4, <1>6 DEF Counted
  <2> QED BY <1>3, <2>3, <2>9, <2>10, <2>11, <2>12, <2>13 DEF Counted
<1> QED BY <1>7, <1>8

LEMMA CountedBoss ==
  ASSUME VMTypeOK, Stopping, Counted, VmInit \/ VmShutdown \/ BossStep
  PROVE  Counted'
<1>1. at' = at /\ c' = c
  BY DEF VmInit, VmShutdown, BossStep, Abort, AbortSignal, AwaitAbort, Clean
<1>2. ASSUME NEW n, NEW m, Reset(n, m)
      PROVE  Taken' = {} /\ Cardinality(Taken') = 0 /\ \A b \in Blocks : block'[b] = NoPage
  <2>1. \A b \in Blocks : block'[b] = NoPage
    BY <1>2 DEF Reset
  <2>2. Taken' = {}
    BY <2>1 DEF Taken
  <2> QED BY <2>1, <2>2, FS_EmptySet
<1>3. CASE VmInit
  <2>1. Reset(c.frames, c.blocks) /\ boss = "new" /\ boss' = "up" /\ hand' = hand
    BY <1>3 DEF VmInit
  <2>2. frames' = c.frames /\ freeBlocks' = c.blocks
    BY <2>1 DEF Reset
  <2>3. hand = -1
    <3>1. frames = 0 /\ hand \in -1 .. frames - 1
      BY <2>1 DEF Counted, Up
    <3> QED BY <3>1
  <2>4. freeBlocks' = c.blocks - Cardinality(Taken')
    BY <1>2, <2>1, <2>2, Types
  <2>5. hand' \in -1 .. frames' - 1
    BY <2>1, <2>2, <2>3, Types
  <2> QED BY <1>1, <1>2, <2>1, <2>2, <2>4, <2>5 DEF Counted, Up
<1>4. CASE Clean
  <2>1. Reset(0, 0) /\ boss' = "off" /\ \A p \in Users : table'[p] = NoTable
    BY <1>4 DEF Clean
  <2>2. frames' = 0 /\ freeBlocks' = 0
    BY <2>1 DEF Reset
  <2> QED BY <1>1, <1>2, <2>1, <2>2 DEF Counted, Up
<1>5. CASE VmShutdown \/ Abort \/ AbortSignal \/ AwaitAbort
  <2>1. swapVars' = swapVars /\ Up' /\ Up /\ boss' # "off" /\ boss # "off"
    BY <1>5 DEF VmShutdown, Abort, AbortSignal, AwaitAbort, Up
  <2>2. block' = block /\ freeBlocks' = freeBlocks /\ frames' = frames /\ table' = table /\ hand' = hand
    BY <2>1 DEF swapVars, blockVars, infoVars
  <2> QED BY <1>1, <2>1, <2>2, BlocksStay DEF Counted
<1> QED BY <1>3, <1>4, <1>5 DEF BossStep

-----------------------------------------------------------------------------
(* Who has blockPoolMutex is alone with the blocks. *)
LEMMA SwapAlone ==
  ASSUME VMTypeOK, FaultsOnce, Stopping, Counted, Locked, NEW q \in Pagers, PagerStep(q)
  PROVE  /\ frames' = frames
         /\ \A r \in Pagers : r # q => (swap' = r <=> swap = r)
         /\ \A r \in Pagers : r # q /\ swap = r => blockNum' = blockNum /\ block' = block
<1>1. Free \notin Pagers /\ (LockedBy(q))
  BY VMAssumption DEF Locked
<1> USE DEF swapVars, infoVars, blockVars, lockVars
<1>2. CASE Ready(q) \/ Take(q) \/ TakeFrame(q)
  BY <1>2 DEF Ready, Take, TakeFrame
<1>3. CASE SwapOut(q)
  BY <1>1, <1>3 DEF SwapOut
<1>4. CASE OutMap(q) \/ OutCopy(q) \/ ReadMap(q) \/ ZeroMap(q) \/ ZeroCopy(q) \/ Update(q)
  BY <1>4 DEF OutMap, OutCopy, ReadMap, ZeroMap, ZeroCopy, Update
<1>5. CASE ChooseTarget(q)
  <2>1. swap = q /\ (swap' = swap \/ swap' = Free) /\ frames' = frames
    BY <1>1, <1>5 DEF ChooseTarget, EndSwapOut, LockedBy
  <2> QED BY <1>1, <2>1
<1>6. CASE WriteOut(q)
  <2>1. swap = q /\ swap' = Free /\ frames' = frames
    BY <1>1, <1>6 DEF WriteOut, EndSwapOut, LockedBy
  <2> QED BY <1>1, <2>1
<1>7. CASE SwapIn(q)
  <2>1. swap = Free /\ (swap' = swap \/ swap' = q) /\ frames' = frames
    BY <1>1, <1>7 DEF SwapIn
  <2> QED BY <1>1, <2>1
<1>8. CASE ReadCopy(q)
  <2>1. swap = q /\ swap' = Free /\ frames' = frames
    BY <1>1, <1>8 DEF ReadCopy, LockedBy
  <2> QED BY <1>1, <2>1
<1> QED BY <1>2, <1>3, <1>4, <1>5, <1>6, <1>7, <1>8 DEF PagerStep

LEMMA LockedOthers ==
  ASSUME VMTypeOK, FaultsOnce, Stopping, Counted, Locked, NEW q \in Pagers, PagerStep(q),
         NEW r \in Pagers, r # q
  PROVE  LockedBy(r)'
<1>1. LockedBy(r)
  BY DEF Locked
<1>2. pg'[r] = pg[r] /\ page' = page
  BY OthersKeep DEF Beside
<1>3. frames' = frames /\ (swap' = r <=> swap = r)
      /\ (swap = r => blockNum' = blockNum /\ block' = block)
  BY SwapAlone
<1>4. swap = r => BlocksOf(pg[r].of, page[pg[r].of])' = BlocksOf(pg[r].of, page[pg[r].of])
  BY <1>2, <1>3 DEF BlocksOf
<1> QED BY <1>1, <1>2, <1>3, <1>4 DEF LockedBy

LEMMA LockedOwn ==
  ASSUME VMTypeOK, FaultsOnce, Stopping, Counted, Locked, NEW q \in Pagers, PagerStep(q)
  PROVE  LockedBy(q)'
<1>0. pg \in [Pagers -> PagerType] /\ LockedBy(q) /\ swap \in Pagers \cup {Free} /\ Free \notin Pagers
      /\ frames' = frames /\ page' = page
  BY VMAssumption, SwapAlone, OthersKeep DEF Locked, VMTypeOK, Beside
<1> USE DEF lockVars, To
<1>1. CASE Ready(q) \/ Take(q) \/ TakeFrame(q)
  <2>1. CASE Ready(q)
    BY <1>0, <2>1 DEF Ready, LockedBy, Working, PagerType
  <2>2. CASE Take(q)
    <3>1. CASE pg' = pg
      <4>1. pg[q].pc = "take" /\ swap' = swap
        BY <2>2 DEF Take
      <4> QED BY <1>0, <3>1, <4>1 DEF LockedBy, Working
    <3>2. CASE pg' # pg
      <4>1. pg[q].pc = "take" /\ swap' = swap /\ pg'[q].pc \in {"quit", "pick"}
        BY <1>0, <2>2, <3>2 DEF Take, PagerType
      <4> QED BY <1>0, <4>1 DEF LockedBy, Working
    <3> QED BY <3>1, <3>2
  <2>3. CASE TakeFrame(q)
    <3>1. CASE FreePool # {}
      <4>0. FreePool \subseteq Nat
        BY Types DEF FreePool
      <4>1. Min(FreePool) \in 0 .. frames - 1
        BY <3>1, <4>0, MinNat DEF FreePool
      <4>2. pg[q].pc = "pick" /\ swap' = swap
        BY <2>3 DEF TakeFrame
      <4>3. pg' = [pg EXCEPT ![q].pc = "in", ![q].frame = Min(FreePool), ![q].isNew = TRUE]
        BY <2>3, <3>1 DEF TakeFrame
      <4>4. pg'[q].pc = "in" /\ pg'[q].frame \in 0 .. frames - 1
        BY <1>0, <4>1, <4>3 DEF PagerType
      <4> QED BY <1>0, <4>2, <4>4 DEF LockedBy
    <3>2. CASE FreePool = {}
      <4>1. pg[q].pc = "pick" /\ swap' = swap /\ pg'[q].pc = "out"
        BY <1>0, <2>3, <3>2 DEF TakeFrame, PagerType
      <4> QED BY <1>0, <4>1 DEF LockedBy
    <3> QED BY <3>1, <3>2
  <2> QED BY <1>1, <2>1, <2>2, <2>3
<1>2. CASE SwapOut(q)
  <2>1. swap' = q /\ pg'[q].pc = "hand"
    BY <1>0, <1>2 DEF SwapOut, PagerType
  <2> QED BY <1>0, <2>1 DEF LockedBy
<1>3. CASE ChooseTarget(q)
  <2>1. PICK f \in 0 .. frames - 1 : f = Target
    BY <1>3, ServingUp, TargetFree DEF ChooseTarget, Counted, Up
  <2>2. f # None /\ pg[q].pc = "hand" /\ swap = q
    BY <1>0, <1>3, Types DEF None, ChooseTarget, LockedBy
  <2>3. CASE dirty[f] /\ blockNum[f] # None
    <3>1. blockNum' = blockNum /\ swap' = swap
          /\ pg' = [pg EXCEPT ![q].pc = "outmap", ![q].frame = f]
      BY <1>3, <2>1, <2>3 DEF ChooseTarget
    <3>2. pg'[q].pc = "outmap" /\ pg'[q].frame = f
      BY <1>0, <3>1 DEF PagerType
    <3> QED BY <1>0, <2>2, <2>3, <3>1, <3>2 DEF LockedBy
  <2>4. CASE ~(dirty[f] /\ blockNum[f] # None)
    <3>1. EndSwapOut(q, f)
      BY <1>3, <2>1, <2>4 DEF ChooseTarget
    <3>2. swap' = Free /\ pg'[q].pc = "in" /\ pg'[q].frame = f
      BY <1>0, <3>1 DEF EndSwapOut, PagerType
    <3> QED BY <1>0, <3>2 DEF LockedBy
  <2> QED BY <2>3, <2>4
<1>4. CASE OutMap(q) \/ OutCopy(q)
  <2>1. /\ pg[q].pc \in {"outmap", "outcopy"} /\ pg'[q].pc \in {"outcopy", "write"}
        /\ pg'[q].frame = pg[q].frame /\ swap' = swap /\ blockNum' = blockNum
    BY <1>0, <1>4 DEF OutMap, OutCopy, FrameMap, infoVars, PagerType
  <2> QED BY <1>0, <2>1 DEF LockedBy, Working
<1>5. CASE WriteOut(q)
  <2>1. pg[q].pc = "write" /\ EndSwapOut(q, pg[q].frame)
    BY <1>5 DEF WriteOut
  <2>2. swap' = Free /\ pg'[q].pc = "in" /\ pg'[q].frame = pg[q].frame
    BY <1>0, <2>1 DEF EndSwapOut, PagerType
  <2> QED BY <1>0, <2>1, <2>2 DEF LockedBy, Working
<1>6. CASE SwapIn(q)
  <2> DEFINE p == pg[q].of
             g == page[p]
  <2>1. pg[q].pc = "in" /\ swap = Free
    BY <1>6 DEF SwapIn
  <2>2. CASE BlocksOf(p, g) # {}
    <3>1. PICK v : v = disk[Min(BlocksOf(p, g))]
      OBVIOUS
    <3>2. swap' = q /\ block' = block /\ pg' = [pg EXCEPT ![q].pc = "readmap", ![q].buf = v]
      BY <1>6, <2>2, <3>1 DEF SwapIn, blockVars
    <3>3. pg'[q].pc = "readmap" /\ pg'[q].frame = pg[q].frame /\ pg'[q].of = p
      BY <1>0, <3>2 DEF PagerType
    <3>4. BlocksOf(pg[q].of, page[pg[q].of])' = BlocksOf(p, g)
      BY <1>0, <3>2, <3>3 DEF BlocksOf
    <3> QED BY <1>0, <2>1, <2>2, <3>2, <3>3, <3>4 DEF LockedBy, Working
  <2>3. CASE BlocksOf(p, g) = {} /\ freeBlocks = 0
    <3>1. pg'[q] = Idle /\ swap' = swap
      BY <1>0, <1>6, <2>3 DEF SwapIn, Answer
    <3> QED BY <1>0, <2>1, <3>1 DEF LockedBy, Idle, Working
  <2>4. CASE BlocksOf(p, g) = {} /\ freeBlocks # 0
    <3>1. swap' = swap /\ To(q, "zeromap")
      BY <1>6, <2>4 DEF SwapIn
    <3>2. pg'[q].pc = "zeromap" /\ pg'[q].frame = pg[q].frame
      BY <1>0, <3>1 DEF PagerType
    <3> QED BY <1>0, <2>1, <3>1, <3>2 DEF LockedBy, Working
  <2> QED BY <2>2, <2>3, <2>4
<1>7. CASE ReadMap(q)
  <2>1. /\ pg[q].pc = "readmap" /\ pg'[q].pc = "readcopy" /\ pg'[q].frame = pg[q].frame
        /\ pg'[q].of = pg[q].of /\ swap' = swap /\ block' = block
    BY <1>0, <1>7 DEF ReadMap, FrameMap, blockVars, PagerType
  <2>2. BlocksOf(pg[q].of, page[pg[q].of])' = BlocksOf(pg[q].of, page[pg[q].of])
    BY <1>0, <2>1 DEF BlocksOf
  <2> QED BY <1>0, <2>1, <2>2 DEF LockedBy, Working
<1>8. CASE ReadCopy(q)
  <2>1. /\ pg[q].pc = "readcopy" /\ pg'[q].pc = "update" /\ pg'[q].frame = pg[q].frame
        /\ swap' = Free
    BY <1>0, <1>8 DEF ReadCopy, PagerType
  <2> QED BY <1>0, <2>1 DEF LockedBy, Working
<1>9. CASE ZeroMap(q) \/ ZeroCopy(q)
  <2>1. /\ pg[q].pc \in {"zeromap", "zerocopy"} /\ pg'[q].pc \in {"zerocopy", "update"}
        /\ pg'[q].frame = pg[q].frame /\ swap' = swap
    BY <1>0, <1>9 DEF ZeroMap, ZeroCopy, FrameMap, PagerType
  <2> QED BY <1>0, <2>1 DEF LockedBy, Working
<1>10. CASE Update(q)
  <2>1. pg[q].pc = "update" /\ pg'[q] = Idle /\ swap' = swap
    BY <1>0, <1>10 DEF Update, Answer
  <2> QED BY <1>0, <2>1 DEF LockedBy, Idle, Working
<1> QED BY <1>1, <1>2, <1>3, <1>4, <1>5, <1>6, <1>7, <1>8, <1>9, <1>10 DEF PagerStep

LEMMA LockedUser ==
  ASSUME VMTypeOK, FaultsOnce, Locked, NEW p \in Users, UserStep(p) \/ UserChoice(p)
  PROVE  Locked'
<1> SUFFICES ASSUME NEW q \in Pagers
             PROVE  LockedBy(q)'
  BY DEF Locked
<1>0. LockedBy(q) /\ Free \notin Pagers
  BY VMAssumption DEF Locked
<1>1. pg' = pg /\ (Goes(p) \/ Enters(p) \/ Leaves(p))
  BY UserDoes
<1> USE DEF swapVars, infoVars, blockVars, faultVars, lockVars
<1>2. frames' = frames /\ swap' = swap /\ (swap = q => blockNum' = blockNum /\ block' = block)
  BY <1>0 DEF UserStep, UserChoice, Fork, Write, Read, Fault, Signal, Return, Quit, ReapSwap,
              ReapFrames, ReapPlain
<1>3. Serving(q) => page'[pg[q].of] = page[pg[q].of]
  <2>1. page' = page \/ (page' = [page EXCEPT ![p] = page'[p]] /\ (Fault(p) \/ Return(p)))
    BY DEF UserStep, UserChoice, Fork, Write, Read, Fault, Signal, Return, Quit, ReapSwap,
              ReapFrames, ReapPlain, VMTypeOK
  <2>2. Serving(q) => Faults(pg[q].of) /\ wait[pg[q].of] = 0 /\ pg[q].of \in Users
    BY DEF FaultsOnce
  <2>3. Fault(p) \/ Return(p) => ~Faults(p) \/ wait[p] > 0
    BY DEF Fault, Return, Faults
  <2> QED BY <2>1, <2>2, <2>3 DEF VMTypeOK
<1>4. pg[q].pc \in {"readmap", "readcopy"}
        => BlocksOf(pg[q].of, page[pg[q].of])' = BlocksOf(pg[q].of, page[pg[q].of])
  BY <1>0, <1>1, <1>2, <1>3 DEF BlocksOf, Serving, Working, LockedBy
<1> QED BY <1>0, <1>1, <1>2, <1>4 DEF LockedBy

LEMMA LockedBoss ==
  ASSUME VMTypeOK, Stopping, Locked, VmInit \/ VmShutdown \/ BossStep
  PROVE  Locked'
<1> SUFFICES ASSUME NEW q \in Pagers
             PROVE  LockedBy(q)'
  BY DEF Locked
<1>0. LockedBy(q)
  BY DEF Locked
<1>1. swap' = swap /\ page' = page
  BY DEF VmInit, VmShutdown, BossStep, Abort, AbortSignal, AwaitAbort, Clean, lockVars
<1>2. CASE VmInit \/ Clean
  <2>1. pg[q].pc = "quit" /\ pg'[q].pc \in {"quit", "idle"}
    <3>1. CASE VmInit
      BY <3>1 DEF VmInit, Stopping, Idle
    <3>2. CASE Clean
      BY <3>2, AllStopped DEF Clean
    <3> QED BY <1>2, <3>1, <3>2
  <2> QED BY <1>0, <1>1, <2>1 DEF LockedBy, Working
<1>3. CASE VmShutdown \/ Abort \/ AbortSignal \/ AwaitAbort
  <2>1. pg' = pg /\ blockNum' = blockNum /\ block' = block /\ frames' = frames
    BY <1>3 DEF VmShutdown, Abort, AbortSignal, AwaitAbort, swapVars, infoVars, blockVars
  <2>2. BlocksOf(pg[q].of, page[pg[q].of])' = BlocksOf(pg[q].of, page[pg[q].of])
    BY <1>1, <2>1 DEF BlocksOf
  <2> QED BY <1>0, <1>1, <2>1, <2>2 DEF LockedBy
<1> QED BY <1>2, <1>3 DEF BossStep

-----------------------------------------------------------------------------
LEMMA SafeInit ==
  ASSUME VMInit
  PROVE  SafeInv
<1>1. VMTypeOK
  <2>1. << >> \in Seq(Users \cup {Boss}) /\ 0 \in 0 .. Cardinality(Pagers) /\ 0 \in Pages
    BY StoppedFew, VMAssumption, SwapAssumption, FS_CardinalityType DEF Pages
  <2>2. [Idle EXCEPT !.pc = "quit"] \in PagerType
    BY SwapAssumption DEF Idle, PagerType, PagerPCs
  <2>3. c \in ScenarioType
    BY VMAssumption DEF VMInit
  <2>4. freeBlocks <= c.blocks
    BY <2>3 DEF VMInit, SwapInitial, ScenarioType
  <2>5. SwapTypeOK
    BY SwapAssumption DEF VMInit, SwapInitial, SwapTypeOK
  <2>6. mapped \in [Frames -> Pagers \cup {None}] /\ pg \in [Pagers -> PagerType]
    BY <2>2 DEF VMInit, SwapInitial
  <2>7. /\ at \in [Users -> {"none", "run", "fault", "waiting", "quit", "swapped"}]
        /\ page \in [Users -> Pages] /\ ok \in [Users -> BOOLEAN]
        /\ wait \in [Users \cup {Boss} -> 0 .. 1]
    BY <2>1 DEF VMInit
  <2> QED BY <2>1, <2>4, <2>5, <2>6, <2>7 DEF VMInit, VMTypeOK
<1>2. \A q \in Pagers : pg[q].pc = "quit" /\ ~Serving(q)
  BY DEF VMInit, Idle, Serving, Working
<1>3. FaultsOnce
  BY <1>2, NoEntries DEF VMInit, FaultsOnce
<1>4. Stopping
  BY <1>2, NoEntries DEF VMInit, Stopping, Up
<1>5. Counted
  <2>1. Taken = {}
    BY DEF VMInit, SwapInitial, Taken
  <2>2. Cardinality(Taken) = 0
    BY <2>1, FS_EmptySet
  <2> QED BY <2>1, <2>2 DEF VMInit, SwapInitial, Counted, Up, None
<1>6. Locked
  BY <1>2, VMAssumption DEF VMInit, Locked, LockedBy, Working
<1> QED BY <1>1, <1>3, <1>4, <1>5, <1>6 DEF SafeInv

LEMMA SafeStays ==
  ASSUME SafeInv, UNCHANGED vmVars
  PROVE  SafeInv'
<1> USE DEF vmVars, swapVars, poolVars, infoVars, blockVars, mmuVars, faultVars, lockVars, bossVars
<1>1. VMTypeOK'
  BY DEF SafeInv, VMTypeOK, SwapTypeOK
<1>2. FaultsOnce'
  BY DEF SafeInv, FaultsOnce, Once, Entries, Faults, Serving
<1>3. Stopping'
  BY DEF SafeInv, Stopping, Entries, Stopped, Up
<1>4. Counted'
  BY DEF SafeInv, Counted, Taken, Up
<1>5. Locked'
  BY DEF SafeInv, Locked, LockedBy, BlocksOf
<1> QED BY <1>1, <1>2, <1>3, <1>4, <1>5 DEF SafeInv

LEMMA SafeNext ==
  ASSUME SafeInv, [VMNext]_vmVars
  PROVE  SafeInv'
<1> USE DEF SafeInv
<1>1. CASE VmInit \/ VmShutdown \/ BossStep
  BY <1>1, BossType, FaultsBoss, CountedBoss, LockedBoss
<1>2. ASSUME NEW p \in Users, UserStep(p) \/ UserChoice(p)
      PROVE  SafeInv'
  BY <1>2, UserType, FaultsUser, CountedUser, LockedUser
<1>3. ASSUME NEW q \in Pagers, PagerStep(q)
      PROVE  SafeInv'
  <2>1. VMTypeOK'
    BY <1>3, PagerType1, PagerType2, PagerType3 DEF PagerStep
  <2>2. FaultsOnce' /\ Stopping'
    BY <1>3, OthersKeep, PagerDoes, FaultsPager, StoppingPager
  <2>3. Counted'
    BY <1>3, CountedPager
  <2>4. Locked'
    BY <1>3, LockedOthers, LockedOwn DEF Locked
  <2> QED BY <2>1, <2>2, <2>3, <2>4
<1> QED BY <1>1, <1>2, <1>3, SafeStays DEF VMNext

LEMMA SafeAlways == VMSpec => []SafeInv
BY SafeInit, SafeNext, PTL DEF VMSpec

(* All variables keep their types, with any number of pagers: an answer is *)
(* a V that its process has not had yet, the faults of a process that ends *)
(* are not answered twice, no more blocks are free than there are, and the *)
(* process that shuts down waits for no more pagers than it has started.   *)
THEOREM VMTypeCorrect == VMSpec => []VMTypeOK
<1>1. SafeInv => VMTypeOK
  BY DEF SafeInv
<1> QED BY <1>1, SafeAlways, PTL

-----------------------------------------------------------------------------
(* Who has a frame, with one pager *)
LEMMA FramesApart ==
  ASSUME Owned, NEW p \in Users, NEW g \in Pages, NEW r \in Users, NEW h \in Pages,
         InCore(p, g), InCore(r, h), table[p][g] = table[r][h]
  PROVE  p = r /\ g = h
<1>1. << p, g >> = << r, h >>
  BY DEF Owned, PageOwned, Known
<1> QED BY <1>1

LEMMA ResidentIn ==
  ASSUME NEW p, NEW f, f \in Resident(p)
  PROVE  table[p] # NoTable /\ \E g \in Pages : InCore(p, g) /\ table[p][g] = f
BY DEF Resident, InCore

LEMMA OwnedUser ==
  ASSUME SafeInv, Owned, NEW p \in Users, UserStep(p) \/ UserChoice(p)
  PROVE  Owned'
<1> USE DEF SafeInv
<1>1. pg' = pg /\ \A r \in Users : r # p => at'[r] = at[r] /\ table'[r] = table[r]
  BY UserDoes
<1>2. \A q \in Pagers : Serving(q) =>
        /\ pg[q].of \in Users /\ Faults(pg[q].of) /\ wait[pg[q].of] = 0
        /\ page[pg[q].of] \in Pages
  BY Types DEF FaultsOnce
<1> USE DEF swapVars, poolVars, infoVars, blockVars, faultVars
<1>3. \A r \in Users : r # p => page'[r] = page[r]
  BY DEF UserStep, UserChoice, Fork, Write, Read, Fault, Signal, Return, Quit, ReapSwap,
         ReapFrames, ReapPlain, VMTypeOK
<1>4. page'[p] = page[p] \/ ~Faults(p) \/ wait[p] # 0
  BY DEF UserStep, UserChoice, Fork, Write, Read, Fault, Signal, Return, Quit, ReapSwap,
         ReapFrames, ReapPlain, VMTypeOK, Faults
<1>5. ASSUME NEW q \in Pagers, Serving(q)
      PROVE  page'[pg[q].of] = page[pg[q].of]
  BY <1>2, <1>3, <1>4, <1>5
<1>6. ASSUME NEW q \in Pagers, NEW r \in Users, NEW h \in Pages, Completes(q, r, h)
      PROVE  Completes(q, r, h)'
  <2>1. Serving(q)
    BY <1>6 DEF Completes, Serving, Working
  <2> QED BY <1>1, <1>5, <1>6, <2>1 DEF Completes
<1>7. CASE ReapSwap(p)
  <2>1. /\ table' = [table EXCEPT ![p] = Empty] /\ used' = used /\ mapped' = mapped /\ frames' = frames
        /\ at[p] = "quit" /\ page' = page
        /\ \A f \in Frames : /\ busy'[f] => busy[f]
                             /\ f \notin Resident(p) => blockNum'[f] = blockNum[f]
        /\ \A b \in Blocks : block[b] # NoPage /\ block[b][1] # p => block'[b] = block[b]
    BY <1>7 DEF ReapSwap, SwapFreeAll, BlocksOfProcess
  <2>2. table'[p] = Empty /\ \A g \in Pages : ~InCore(p, g)'
    BY <2>1 DEF VMTypeOK, SwapTypeOK, InCore, Empty
  <2>3. ASSUME NEW r \in Users, NEW h \in Pages
        PROVE  PageOwned(r, h)'
    <3>1. CASE r = p
      BY <2>2, <3>1 DEF PageOwned
    <3>2. CASE r # p /\ InCore(r, h)
      <4>0. PICK f : f = table[r][h]
        OBVIOUS
      <4>1. f \in Frames /\ f # None
        BY <3>2, <4>0, Types DEF InCore
      <4>2. f \notin Resident(p)
        BY <3>2, <4>0, FramesApart, ResidentIn
      <4>3. Known(r, h, f) /\ blockNum[f] \in Blocks
        BY <3>2, <4>0, <4>1 DEF Owned, PageOwned, Known, VMTypeOK, SwapTypeOK
      <4>4. << r, h >> # NoPage /\ << r, h >>[1] = r
        BY NotEmpty
      <4>5. Known(r, h, f)'
        BY <2>1, <3>2, <4>1, <4>2, <4>3, <4>4 DEF Known
      <4>6. table'[r] = table[r]
        BY <1>1, <3>2
      <4>7. \A q \in Pagers : pg[q].frame = f => Completes(q, r, h)
        BY <3>2, <4>0 DEF Owned, PageOwned
      <4>8. \A q \in Pagers : pg'[q].frame = f => Completes(q, r, h)'
        BY <1>1, <1>6, <4>7
      <4> QED BY <4>0, <4>5, <4>6, <4>8 DEF PageOwned
    <3>3. CASE r # p /\ ~InCore(r, h)
      BY <1>1, <3>3 DEF PageOwned, InCore
    <3> QED BY <3>1, <3>2, <3>3
  <2>4. \A q \in Pagers : HandOwned(q)'
    <3> SUFFICES ASSUME NEW q \in Pagers
                 PROVE  HandOwned(q)'
      OBVIOUS
    <3>1. HandOwned(q)
      BY DEF Owned
    <3>2. FreePool' = FreePool
      BY <2>1 DEF FreePool
    <3>3. Serving(q) => table'[pg[q].of] = table[pg[q].of]
      BY <1>1, <1>2, <2>1 DEF Faults
    <3> QED BY <1>1, <2>1, <3>1, <3>2, <3>3 DEF HandOwned, Maps, Serving, Working
  <2>5. \A r \in Users : at'[r] = "swapped" => Resident(r)' = {}
    BY <1>1, <2>2 DEF Owned, Resident, InCore
  <2> QED BY <2>3, <2>4, <2>5 DEF Owned
<1>8. CASE ~ReapSwap(p)
  <2>0. Resident(p) = {} \/ ~ReapFrames(p)
    BY DEF ReapFrames, Owned
  <2>1. /\ used' = used /\ mapped' = mapped /\ frames' = frames /\ busy' = busy
        /\ blockNum' = blockNum /\ block' = block
    <3>1. CASE ReapFrames(p)
      <4>1. used' = used /\ mapped' = mapped
        BY <2>0, <3>1 DEF ReapFrames, FrameFreeAll, VMTypeOK, SwapTypeOK
      <4> QED BY <3>1, <4>1 DEF ReapFrames
    <3> QED BY <1>8, <3>1 DEF UserStep, UserChoice, Fork, Write, Read, Fault, Signal, Return, Quit,
                 ReapPlain
  <2>2. /\ table'[p] = table[p] \/ table'[p] = Empty \/ table'[p] = NoTable
        /\ Faults(p) => table'[p] = table[p]
    BY <1>8 DEF UserStep, UserChoice, Fork, Write, Read, Fault, Signal, Return, Quit, ReapFrames,
            ReapPlain, VMTypeOK, SwapTypeOK, Faults
  <2>3. ASSUME NEW r \in Users, NEW h \in Pages
        PROVE  PageOwned(r, h)'
    <3>1. CASE table'[r] = table[r]
      <4>1. \A f : Known(r, h, f)' <=> Known(r, h, f)
        BY <2>1 DEF Known
      <4>2. PageOwned(r, h) /\ (InCore(r, h)' <=> InCore(r, h))
        BY <3>1 DEF Owned, InCore
      <4> QED BY <1>1, <1>6, <2>1, <3>1, <4>2 DEF PageOwned, Known
    <3>2. CASE table'[r] = NoTable \/ table'[r] = Empty
      BY <3>2 DEF PageOwned, InCore, Empty
    <3> QED BY <1>1, <2>2, <3>1, <3>2
  <2>4. \A q \in Pagers : HandOwned(q)'
    <3> SUFFICES ASSUME NEW q \in Pagers
                 PROVE  HandOwned(q)'
      OBVIOUS
    <3>1. HandOwned(q)
      BY DEF Owned
    <3>2. FreePool' = FreePool
      BY <2>1 DEF FreePool
    <3>3. Serving(q) => table'[pg[q].of] = table[pg[q].of] /\ page'[pg[q].of] = page[pg[q].of]
      BY <1>1, <1>2, <1>5, <2>2
    <3> QED BY <1>1, <2>1, <3>1, <3>2, <3>3 DEF HandOwned, Maps, Serving, Working
  <2>5. at'[p] = "swapped" => at[p] = "swapped" /\ table'[p] = table[p]
    BY <1>8 DEF UserStep, UserChoice, Fork, Write, Read, Fault, Signal, Return, Quit, ReapFrames,
            ReapPlain, VMTypeOK, SwapTypeOK
  <2>6. \A r \in Users : at'[r] = "swapped" => Resident(r)' = {}
    BY <1>1, <2>5 DEF Owned, Resident
  <2> QED BY <2>3, <2>4, <2>6 DEF Owned
<1> QED BY <1>7, <1>8

LEMMA AtWork ==
  ASSUME NEW q \in Pagers, PagerStep(q)
  PROVE  pg[q].pc # "quit"
BY DEF PagerStep, Ready, Take, TakeFrame, SwapOut, OutMap, OutCopy, WriteOut, ReadMap, ReadCopy,
       ZeroMap, ZeroCopy, ChooseTarget, SwapIn, Update

LEMMA OthersQuit ==
  ASSUME OnePager, SafeInv, Owned, NEW q \in Pagers, PagerStep(q), NEW r \in Pagers, r # q
  PROVE  pg'[r] = pg[r] /\ pg[r].pc = "quit" /\ pg[r].frame = None /\ HandOwned(r)'
<1>1. c \in Scenarios /\ pg'[r] = pg[r]
  BY OthersKeep DEF SafeInv, VMTypeOK, Beside
<1>2. pg[r].pc = "quit"
  BY <1>1, AtWork DEF OnePager, SafeInv, Stopping
<1>3. pg[r].frame = None
  BY <1>2 DEF Owned, HandOwned
<1> QED BY <1>1, <1>2, <1>3 DEF HandOwned, Maps

(* A step of q that touches frame x and leaves page g of p where it is *)
LEMMA PageStays ==
  ASSUME VMTypeOK, Owned, NEW q \in Pagers, \A r \in Pagers : r # q => pg'[r].frame = None,
         NEW x, NEW p \in Users, NEW g \in Pages,
         InCore(p, g)' => InCore(p, g) /\ table'[p][g] = table[p][g] /\ x # table[p][g],
         \A f \in Frames : f # x =>
           (used[f] => used'[f]) /\ (busy'[f] => busy[f]) /\ blockNum'[f] = blockNum[f],
         \A b \in Blocks : block[b] # NoPage => block'[b] = block[b],
         pg'[q].frame \in {None, x, pg[q].frame},
         Completes(q, p, g) => Completes(q, p, g)' \/ pg'[q].frame = None
  PROVE  PageOwned(p, g)'
<1> SUFFICES ASSUME InCore(p, g)'
             PROVE  /\ Known(p, g, table[p][g])'
                    /\ \A r \in Pagers : pg'[r].frame = table'[p][g] => Completes(r, p, g)'
  BY DEF PageOwned
<1>0. PICK f : f = table[p][g]
  OBVIOUS
<1>1. f \in Frames /\ f # None /\ f # x /\ table'[p][g] = f /\ InCore(p, g)
  BY <1>0, Types DEF InCore
<1>2. Known(p, g, f) /\ (pg[q].frame = f => Completes(q, p, g))
  BY <1>0, <1>1 DEF Owned, PageOwned
<1>3. blockNum[f] \in Blocks /\ block[blockNum[f]] # NoPage
  BY <1>1, <1>2, NotEmpty DEF Known, VMTypeOK, SwapTypeOK
<1>4. Known(p, g, f)'
  BY <1>1, <1>2, <1>3 DEF Known
<1>5. \A r \in Pagers : pg'[r].frame = f => Completes(r, p, g)'
  BY <1>1, <1>2
<1> QED BY <1>1, <1>4, <1>5

(* Steps that leave the frames to their pages *)
LEMMA OwnedQuiet ==
  ASSUME OnePager, SafeInv, Owned, NEW q \in Pagers,
         Ready(q) \/ Take(q) \/ SwapOut(q) \/ OutMap(q) \/ OutCopy(q) \/ ReadMap(q)
           \/ ZeroMap(q) \/ ZeroCopy(q) \/ Update(q) \/ (TakeFrame(q) /\ FreePool = {})
  PROVE  Owned'
<1> USE DEF SafeInv
<1>0. PagerStep(q)
  BY DEF PagerStep
<1>1. /\ at' = at /\ page' = page
      /\ \A r \in Pagers : r # q => pg'[r] = pg[r] /\ pg[r].frame = None /\ HandOwned(r)'
  BY <1>0, OthersKeep, OthersQuit DEF Beside
<1>2. pg \in [Pagers -> PagerType] /\ HandOwned(q)
  BY DEF VMTypeOK, Owned
<1>3. /\ used' = used /\ busy' = busy /\ blockNum' = blockNum /\ block' = block /\ frames' = frames
  BY DEF Ready, Take, SwapOut, OutMap, OutCopy, ReadMap, ZeroMap, ZeroCopy, Update, TakeFrame,
         swapVars, poolVars, infoVars, blockVars
<1>4. /\ \A p \in Users : table'[p] = NoTable <=> table[p] = NoTable
      /\ \A p \in Users, g \in Pages : table[p] # NoTable => table'[p][g] = table[p][g]
  <2>1. CASE Update(q)
    <3>1. pg[q].pc = "update" /\ Serving(q)
      BY <2>1 DEF Update, Serving, Working
    <3>2. /\ pg[q].of \in Users /\ page[pg[q].of] \in Pages /\ table[pg[q].of] # NoTable
          /\ pg[q].frame \in Frames \cup {None}
      BY <3>1, ServedUser, Types
    <3>3. table' = Entered(pg[q].of, page[pg[q].of], pg[q].frame)
      BY <2>1 DEF Update, Entered
    <3>4. table[pg[q].of][page[pg[q].of]] = pg[q].frame
      BY <1>2, <3>1 DEF HandOwned
    <3> QED BY <3>2, <3>3, <3>4, EntrySet
  <2>2. CASE ~Update(q)
    <3>1. table' = table
      BY <2>2 DEF Ready, Take, SwapOut, OutMap, OutCopy, ReadMap, ZeroMap, ZeroCopy, TakeFrame, swapVars
    <3> QED BY <3>1
  <2> QED BY <2>1, <2>2
<1>5. /\ pg'[q].frame = pg[q].frame \/ pg'[q].frame = None
      /\ pg[q].pc \in {"zeromap", "zerocopy", "update"}
           => /\ pg'[q].frame = None \/ (pg'[q].of = pg[q].of
                                         /\ pg'[q].pc \in {"zeromap", "zerocopy", "update"})
      /\ pg[q].pc \in {"outcopy", "write", "readmap", "readcopy", "in"}
           \/ pg'[q].pc \notin {"zeromap", "zerocopy", "update"}
           \/ (pg[q].pc \in {"zeromap", "zerocopy", "update"} /\ pg'[q].of = pg[q].of)
      /\ pg'[q].pc \in {"idle", "take", "pick", "out", "hand", "quit"} => pg'[q].frame = None
      /\ pg'[q].pc \in {"outcopy", "readcopy", "zerocopy"}
           => mapped' = [mapped EXCEPT ![pg[q].frame] = q] /\ pg'[q].frame = pg[q].frame
              /\ pg[q].frame \in Frames
      /\ pg'[q].pc \in {"zeromap", "zerocopy", "update"}
           => pg[q].pc \in {"zeromap", "zerocopy", "update"} /\ pg'[q].frame = pg[q].frame
              /\ pg'[q].of = pg[q].of
      /\ pg'[q].pc \in {"out", "hand"} => FreePool = {}
  <2> USE DEF HandOwned, PagerType, To
  <2>1. CASE Ready(q) \/ SwapOut(q) \/ (TakeFrame(q) /\ FreePool = {})
    BY <1>2, <2>1 DEF Ready, SwapOut, TakeFrame
  <2>2. CASE Take(q)
    <3>1. pg[q].pc = "take" /\ pg[q].frame = None
      BY <1>2, <2>2 DEF Take
    <3>2. pg'[q].frame = None /\ pg'[q].pc \in {"take", "pick", "quit"}
      BY <1>2, <2>2, <3>1 DEF Take
    <3> QED BY <3>1, <3>2
  <2>3. CASE OutMap(q) \/ ReadMap(q) \/ ZeroMap(q)
    <3>1. pg[q].pc \in {"outmap", "readmap", "zeromap"} /\ LockedBy(q)
      BY <2>3 DEF OutMap, ReadMap, ZeroMap, Locked
    <3>2. pg[q].frame \in Frames
      BY <3>1, Types DEF LockedBy, Working
    <3>3. \E x \in {"outcopy", "readcopy", "zerocopy"} : FrameMap(q, x) /\ x = pg'[q].pc
             /\ (x = "zerocopy" <=> pg[q].pc = "zeromap")
      BY <1>2, <2>3 DEF OutMap, ReadMap, ZeroMap, FrameMap
    <3>4. mapped' = [mapped EXCEPT ![pg[q].frame] = q] /\ pg'[q].frame = pg[q].frame
          /\ pg'[q].of = pg[q].of
      BY <1>2, <3>3 DEF FrameMap
    <3> QED BY <3>1, <3>2, <3>3, <3>4
  <2>4. CASE OutCopy(q)
    <3>1. pg[q].pc = "outcopy" /\ pg'[q].pc = "write" /\ pg'[q].frame = pg[q].frame
      BY <1>2, <2>4 DEF OutCopy
    <3> QED BY <3>1
  <2>5. CASE ZeroCopy(q)
    <3>1. pg[q].pc = "zerocopy" /\ pg'[q].pc = "update" /\ pg'[q].frame = pg[q].frame
          /\ pg'[q].of = pg[q].of
      BY <1>2, <2>5 DEF ZeroCopy
    <3> QED BY <3>1
  <2>6. CASE Update(q)
    <3>1. pg[q].pc = "update" /\ pg'[q] = Idle
      BY <1>2, <2>6 DEF Update, Answer
    <3> QED BY <3>1 DEF Idle
  <2> QED BY <2>1, <2>2, <2>3, <2>4, <2>5, <2>6
<1>6. ASSUME NEW p \in Users, NEW g \in Pages
      PROVE  PageOwned(p, g)'
  <2>1. InCore(p, g)' => InCore(p, g) /\ table'[p][g] = table[p][g] /\ None # table[p][g]
    BY <1>4 DEF InCore
  <2>2. Completes(q, p, g) => Completes(q, p, g)' \/ pg'[q].frame = None
    BY <1>1, <1>5 DEF Completes
  <2>3. \A r \in Pagers : r # q => pg'[r].frame = None
    BY <1>1
  <2>4. pg'[q].frame \in {None, None, pg[q].frame}
    BY <1>5
  <2> QED BY <1>3, <2>1, <2>2, <2>3, <2>4, PageStays
<1>7. HandOwned(q)'
  <2>1. FreePool' = FreePool
    BY <1>3 DEF FreePool
  <2>2. pg'[q].frame # None => used'[pg'[q].frame]
    BY <1>2, <1>3, <1>5 DEF HandOwned
  <2>3. Maps(q)' => mapped'[pg'[q].frame] = q
    <3>1. mapped \in [Frames -> Pagers \cup {None}]
      BY DEF VMTypeOK
    <3> QED BY <1>5, <3>1 DEF Maps
  <2>4. pg'[q].pc \in {"zeromap", "zerocopy", "update"}
          => table'[pg'[q].of][page'[pg'[q].of]] = pg'[q].frame
    <3>1. CASE pg'[q].pc \in {"zeromap", "zerocopy", "update"}
      <4>1. pg[q].pc \in {"zeromap", "zerocopy", "update"} /\ pg'[q].frame = pg[q].frame
            /\ pg'[q].of = pg[q].of
        BY <1>5, <3>1
      <4>2. pg[q].of \in Users /\ page[pg[q].of] \in Pages /\ table[pg[q].of] # NoTable
        BY <4>1, ServedUser DEF Serving, Working
      <4>3. table[pg[q].of][page[pg[q].of]] = pg[q].frame
        BY <1>2, <4>1 DEF HandOwned
      <4> QED BY <1>1, <1>4, <4>1, <4>2, <4>3
    <3> QED BY <3>1
  <2> QED BY <1>5, <2>1, <2>2, <2>3, <2>4 DEF HandOwned
<1>8. \A p \in Users : at'[p] = "swapped" => Resident(p)' = {}
  <2> SUFFICES ASSUME NEW p \in Users, at[p] = "swapped"
               PROVE  Resident(p)' = {}
    BY <1>1
  <2>1. Resident(p) = {}
    BY DEF Owned
  <2> QED BY <1>4, <2>1 DEF Resident
<1> QED BY <1>1, <1>6, <1>7, <1>8 DEF Owned

(* A frame from the free pool is nobody's. *)
LEMMA OwnedTake ==
  ASSUME OnePager, SafeInv, Owned, NEW q \in Pagers, TakeFrame(q), FreePool # {}
  PROVE  Owned'
<1> USE DEF SafeInv
<1>0. PagerStep(q)
  BY DEF PagerStep
<1>1. /\ at' = at /\ page' = page
      /\ \A r \in Pagers : r # q => pg'[r] = pg[r] /\ pg[r].frame = None /\ HandOwned(r)'
  BY <1>0, OthersKeep, OthersQuit DEF Beside
<1>2. pg \in [Pagers -> PagerType] /\ pg[q].pc = "pick"
  BY DEF VMTypeOK, TakeFrame
<1>3. FreePool \subseteq Nat
  BY Types DEF FreePool
<1>4. PICK x \in FreePool : x = Min(FreePool)
  BY <1>3, MinNat
<1>5. x \in Frames /\ ~used[x] /\ x # None
  BY Types, <1>3 DEF FreePool, None
<1>6. /\ used' = [used EXCEPT ![x] = TRUE] /\ busy' = busy /\ blockNum' = blockNum /\ block' = block
      /\ table' = table
      /\ pg' = [pg EXCEPT ![q].pc = "in", ![q].frame = x, ![q].isNew = TRUE]
  BY <1>4 DEF TakeFrame, Pick, infoVars, blockVars
<1>7. pg'[q].frame = x /\ pg'[q].pc = "in" /\ used'[x]
  BY <1>2, <1>5, <1>6 DEF PagerType, VMTypeOK, SwapTypeOK
<1>8. \A f \in Frames : used[f] => used'[f]
  BY <1>5, <1>6 DEF VMTypeOK, SwapTypeOK
<1>9. ASSUME NEW p \in Users, NEW g \in Pages
      PROVE  PageOwned(p, g)'
  <2>1. InCore(p, g) => x # table[p][g]
    BY <1>5 DEF Owned, PageOwned, Known
  <2>2. InCore(p, g)' => InCore(p, g) /\ table'[p][g] = table[p][g] /\ x # table[p][g]
    BY <1>6, <2>1 DEF InCore
  <2>3. ~Completes(q, p, g)
    BY <1>2 DEF Completes
  <2>4. \A r \in Pagers : r # q => pg'[r].frame = None
    BY <1>1
  <2> QED BY <1>6, <1>7, <1>8, <2>2, <2>3, <2>4, PageStays
<1>10. HandOwned(q)'
  BY <1>5, <1>7 DEF HandOwned, Maps
<1>11. \A p \in Users : at'[p] = "swapped" => Resident(p)' = {}
  BY <1>1, <1>6 DEF Owned, Resident
<1> QED BY <1>1, <1>9, <1>10, <1>11 DEF Owned

(* A page that is evicted is in no frame any more. *)
LEMMA OwnedOut ==
  ASSUME OnePager, SafeInv, Owned, NEW q \in Pagers, ChooseTarget(q) \/ WriteOut(q)
  PROVE  Owned'
<1> USE DEF SafeInv
<1>0. PagerStep(q)
  BY DEF PagerStep
<1>1. /\ at' = at /\ page' = page
      /\ \A r \in Pagers : r # q => pg'[r] = pg[r] /\ pg[r].frame = None /\ HandOwned(r)'
      /\ \A p \in Users : table'[p] = NoTable <=> table[p] = NoTable
  BY <1>0, OthersKeep, OthersQuit DEF Beside
<1>2. pg \in [Pagers -> PagerType] /\ HandOwned(q) /\ LockedBy(q)
  BY DEF VMTypeOK, Owned, Locked
<1>3. PICK x \in Frames :
        /\ used[x] /\ used' = used /\ block' = block
        /\ \/ busy' = busy /\ blockNum' = blockNum
              /\ pg' = [pg EXCEPT ![q].pc = "outmap", ![q].frame = x]
           \/ EndSwapOut(q, x)
        /\ \A p \in Users, g \in Pages : InCore(p, g)' =>
             InCore(p, g) /\ table'[p][g] = table[p][g] /\ x # table[p][g]
  <2>1. CASE ChooseTarget(q)
    <3>1. PICK x : x = Target
      OBVIOUS
    <3>2. x \in Frames /\ x \in 0 .. frames - 1
      BY <2>1, <3>1, ServingUp, TargetFree DEF ChooseTarget, Counted, Up
    <3>3. FreePool = {}
      BY <1>2, <2>1 DEF ChooseTarget, HandOwned
    <3>4. used[x]
      BY <3>2, <3>3 DEF FreePool
    <3>5. /\ used' = used /\ block' = block /\ table' = Evicted(x)
          /\ \/ busy' = busy /\ blockNum' = blockNum
                /\ pg' = [pg EXCEPT ![q].pc = "outmap", ![q].frame = x]
             \/ EndSwapOut(q, x)
      BY <2>1, <3>1 DEF ChooseTarget, poolVars, blockVars
    <3>6. ASSUME NEW p \in Users, NEW g \in Pages, InCore(p, g)'
          PROVE  InCore(p, g) /\ table'[p][g] = table[p][g] /\ x # table[p][g]
      <4>1. table[p] # NoTable /\ table'[p][g] # None
        BY <1>1, <3>6 DEF InCore
      <4>2. table'[p][g] = IF blockNum[x] # None /\ block[blockNum[x]] = << p, g >>
                           THEN None ELSE table[p][g]
        BY <3>2, <3>5, <4>1, EvictedPage
      <4>3. table'[p][g] = table[p][g] /\ ~(blockNum[x] # None /\ block[blockNum[x]] = << p, g >>)
        BY <4>1, <4>2
      <4>4. InCore(p, g)
        BY <4>1, <4>3 DEF InCore
      <4> QED BY <4>3, <4>4 DEF Owned, PageOwned, Known
    <3> QED BY <3>2, <3>4, <3>5, <3>6
  <2>2. CASE WriteOut(q)
    <3>1. pg[q].pc = "write" /\ EndSwapOut(q, pg[q].frame) /\ used' = used /\ block' = block
          /\ table' = table
      BY <2>2 DEF WriteOut, poolVars, blockVars
    <3>2. pg[q].frame \in Frames /\ used[pg[q].frame]
      BY <1>2, <3>1, Types DEF HandOwned, LockedBy
    <3>3. \A p \in Users, g \in Pages : InCore(p, g) => pg[q].frame # table[p][g]
      BY <3>1 DEF Owned, PageOwned, Completes
    <3> QED BY <3>1, <3>2, <3>3 DEF InCore
  <2> QED BY <2>1, <2>2
<1>4. pg'[q].frame = x /\ pg'[q].pc \in {"in", "outmap"} /\ x # None
  BY <1>2, <1>3, NotEmpty DEF EndSwapOut, PagerType
<1>5. \A f \in Frames : f # x => busy'[f] = busy[f] /\ blockNum'[f] = blockNum[f]
  BY <1>3 DEF EndSwapOut, Claim, VMTypeOK, SwapTypeOK
<1>6. ASSUME NEW p \in Users, NEW g \in Pages
      PROVE  PageOwned(p, g)'
  <2>1. pg[q].pc \in {"hand", "write"}
    BY DEF ChooseTarget, WriteOut
  <2>2. ~Completes(q, p, g)
    BY <2>1 DEF Completes
  <2>3. \A r \in Pagers : r # q => pg'[r].frame = None
    BY <1>1
  <2>4. InCore(p, g)' => InCore(p, g) /\ table'[p][g] = table[p][g] /\ x # table[p][g]
    BY <1>3
  <2> QED BY <1>3, <1>4, <1>5, <2>2, <2>3, <2>4, PageStays
<1>7. HandOwned(q)'
  BY <1>3, <1>4 DEF HandOwned, Maps
<1>8. \A p \in Users : at'[p] = "swapped" => Resident(p)' = {}
  <2> SUFFICES ASSUME NEW p \in Users, at[p] = "swapped"
               PROVE  Resident(p)' = {}
    BY <1>1
  <2>1. Resident(p) = {}
    BY DEF Owned
  <2>2. \A g \in Pages : ~InCore(p, g)
    BY <2>1 DEF Resident, InCore
  <2>3. \A g \in Pages : ~InCore(p, g)'
    BY <1>3, <2>2
  <2> QED BY <2>3 DEF Resident, InCore
<1> QED BY <1>1, <1>6, <1>7, <1>8 DEF Owned

(* The page of the fault gets the frame in the pager's hand. *)
LEMMA OwnedIn ==
  ASSUME OnePager, SafeInv, Owned, NEW q \in Pagers, SwapIn(q) \/ ReadCopy(q)
  PROVE  Owned'
<1> USE DEF SafeInv
<1> DEFINE p == pg[q].of
           g == page[p]
           f == pg[q].frame
<1>0. PagerStep(q)
  BY DEF PagerStep
<1>1. /\ at' = at /\ page' = page
      /\ \A r \in Pagers : r # q => pg'[r] = pg[r] /\ pg[r].frame = None /\ HandOwned(r)'
  BY <1>0, OthersKeep, OthersQuit DEF Beside
<1>2. pg \in [Pagers -> PagerType] /\ HandOwned(q) /\ LockedBy(q) /\ pg[q].pc \in {"in", "readcopy"}
  BY DEF VMTypeOK, Owned, Locked, SwapIn, ReadCopy
<1>3. p \in Users /\ g \in Pages /\ table[p] # NoTable /\ Faults(p)
  BY <1>2, ServedUser DEF Serving, Working
<1>4. f \in Frames /\ f # None /\ used[f]
  BY <1>2, Types, NotEmpty DEF LockedBy, Working, HandOwned
<1>5. \A r \in Users, h \in Pages : InCore(r, h) => f # table[r][h]
  BY <1>2 DEF Owned, PageOwned, Completes
<1>6. \A r \in Pagers : r # q => pg'[r].frame = None
  BY <1>1
<1>7. used' = used
  BY DEF SwapIn, ReadCopy, poolVars
<1>8. CASE table' = table
  <2>1. SwapIn(q) /\ block' = block /\ blockNum' = blockNum
        /\ \A x \in Frames : busy'[x] => busy[x]
    <3>1. ASSUME NEW b, Settle(p, g, f, b)
          PROVE  FALSE
      <4>1. Entered(p, g, f) = table
        BY <1>8, <3>1 DEF Settle, Entered
      <4>2. table[p][g] = f
        BY <1>3, <1>4, <4>1, EntrySet
      <4> QED BY <1>3, <1>4, <1>5, <4>2 DEF InCore
    <3>2. SwapIn(q)
      BY <3>1 DEF ReadCopy
    <3>3. ~Settle(p, g, f, FirstFree)
      BY <3>1
    <3> QED BY <3>2, <3>3 DEF SwapIn, blockVars, VMTypeOK, SwapTypeOK
  <2>2. pg'[q] = Idle \/ (pg'[q].pc = "readmap" /\ pg'[q].frame = f)
    <3>1. ~Settle(p, g, f, FirstFree)
      <4>1. Settle(p, g, f, FirstFree) => Entered(p, g, f) = table
        BY <1>8 DEF Settle, Entered
      <4>2. Entered(p, g, f) # table
        <5>1. Entered(p, g, f)[p][g] = f
          BY <1>3, <1>4, EntrySet
        <5> QED BY <1>3, <1>4, <1>5, <5>1 DEF InCore
      <4> QED BY <4>1, <4>2
    <3>2. PICK v : v = disk[Min(BlocksOf(p, g))]
      OBVIOUS
    <3>3. pg' = [pg EXCEPT ![q] = Idle] \/ pg' = [pg EXCEPT ![q].pc = "readmap", ![q].buf = v]
      BY <2>1, <3>1, <3>2 DEF SwapIn, Answer
    <3> QED BY <1>2, <3>3 DEF PagerType
  <2>3. ASSUME NEW r \in Users, NEW h \in Pages
        PROVE  PageOwned(r, h)'
    <3>1. InCore(r, h)' => InCore(r, h) /\ table'[r][h] = table[r][h] /\ f # table[r][h]
      BY <1>5, <1>8 DEF InCore
    <3>2. ~Completes(q, r, h)
      BY <1>2 DEF Completes
    <3>3. pg'[q].frame \in {None, f, pg[q].frame}
      BY <2>2 DEF Idle
    <3> HIDE DEF f
    <3> QED BY <1>6, <1>7, <2>1, <3>1, <3>2, <3>3, PageStays
  <2>4. HandOwned(q)'
    BY <1>4, <1>7, <2>2 DEF HandOwned, Maps, Idle
  <2>5. \A r \in Users : at'[r] = "swapped" => Resident(r)' = {}
    BY <1>1, <1>8 DEF Owned, Resident
  <2> QED BY <1>1, <2>3, <2>4, <2>5 DEF Owned
<1>9. CASE table' # table
  <2>1. PICK b \in Blocks :
          /\ Settle(p, g, f, b) /\ block'[b] = << p, g >>
          /\ \A d \in Blocks : block[d] # NoPage => block'[d] = block[d]
    <3>1. CASE SwapIn(q)
      <4>1. BlocksOf(p, g) = {} /\ freeBlocks # 0 /\ Allocate(p, g) /\ Settle(p, g, f, FirstFree)
        BY <1>9, <3>1 DEF SwapIn
      <4>2. FirstFree \in Blocks /\ block[FirstFree] = NoPage
        BY <4>1, FirstFreeFree
      <4>3. \A d \in Blocks : block'[d] = IF d = FirstFree THEN << p, g >> ELSE block[d]
        BY <4>1, <4>2 DEF Allocate, VMTypeOK, SwapTypeOK
      <4> HIDE DEF p, g, f
      <4> QED BY <4>1, <4>2, <4>3
    <3>2. CASE ReadCopy(q)
      <4>1. BlocksOf(p, g) # {}
        BY <1>2, <3>2 DEF LockedBy, ReadCopy
      <4>2. PICK b \in Blocks : b = Min(BlocksOf(p, g)) /\ b \in BlocksOf(p, g)
        BY <4>1, BlockOfPage
      <4>3. Settle(p, g, f, b) /\ block' = block
        BY <3>2, <4>2 DEF ReadCopy, blockVars
      <4> QED BY <4>2, <4>3 DEF BlocksOf
    <3> QED BY <3>1, <3>2
  <2>2. pg'[q].frame = f /\ pg'[q].of = p /\ pg'[q].pc \in {"zeromap", "update"}
    <3>1. CASE SwapIn(q)
      BY <1>2, <1>9, <3>1 DEF SwapIn, To, PagerType
    <3>2. CASE ReadCopy(q)
      BY <1>2, <3>2 DEF ReadCopy, PagerType
    <3> QED BY <3>1, <3>2
  <2>3. table' = Entered(p, g, f)
    BY <2>1 DEF Settle, Entered
  <2>4. /\ \A r \in Users : table'[r] = NoTable <=> table[r] = NoTable
        /\ \A r \in Users, h \in Pages : table[r] # NoTable =>
              table'[r][h] = IF r = p /\ h = g THEN f ELSE table[r][h]
    <3> HIDE DEF p, g, f
    <3> QED BY <1>3, <1>4, <2>3, EntrySet
  <2>5. /\ ~busy'[f] /\ blockNum'[f] = b
        /\ \A x \in Frames : x # f => busy'[x] = busy[x] /\ blockNum'[x] = blockNum[x]
    <3> HIDE DEF p, g, f
    <3> QED BY <1>4, <2>1 DEF Settle, VMTypeOK, SwapTypeOK
  <2>6. ASSUME NEW r \in Users, NEW h \in Pages
        PROVE  PageOwned(r, h)'
    <3>1. CASE r = p /\ h = g
      <4>1. table'[r][h] = f
        BY <1>3, <2>4, <3>1
      <4>2. b # None
        BY NotEmpty
      <4>3. used'[f] /\ ~busy'[f] /\ blockNum'[f] # None /\ block'[blockNum'[f]] = << r, h >>
        BY <1>4, <1>7, <2>1, <2>5, <3>1, <4>2
      <4>4. Known(r, h, table[r][h])'
        BY <4>1, <4>3 DEF Known
      <4>5. Completes(q, r, h)'
        BY <1>1, <2>2, <3>1 DEF Completes
      <4>6. \A s \in Pagers : pg'[s].frame = table'[r][h] => Completes(s, r, h)'
        BY <1>4, <1>6, <4>1, <4>5
      <4> QED BY <4>4, <4>6 DEF PageOwned
    <3>2. CASE ~(r = p /\ h = g)
      <4>1. InCore(r, h)' => InCore(r, h) /\ table'[r][h] = table[r][h] /\ f # table[r][h]
        BY <1>5, <2>4, <3>2 DEF InCore
      <4>2. ~Completes(q, r, h)
        BY <1>2 DEF Completes
      <4>3. pg'[q].frame \in {None, f, pg[q].frame}
        BY <2>2
      <4>4. \A x \in Frames : x # f => (used[x] => used'[x]) /\ (busy'[x] => busy[x])
                                       /\ blockNum'[x] = blockNum[x]
        BY <1>7, <2>5
      <4> HIDE DEF f
      <4> QED BY <1>6, <2>1, <4>1, <4>2, <4>3, <4>4, PageStays
    <3> QED BY <3>1, <3>2
  <2>7. HandOwned(q)'
    <3>1. table'[pg'[q].of][page'[pg'[q].of]] = pg'[q].frame
      BY <1>1, <1>3, <2>2, <2>4
    <3>2. ~Maps(q)' /\ used'[pg'[q].frame]
      BY <1>4, <1>7, <2>2 DEF Maps
    <3> QED BY <1>4, <2>2, <3>1, <3>2 DEF HandOwned
  <2>8. \A r \in Users : at'[r] = "swapped" => Resident(r)' = {}
    <3> SUFFICES ASSUME NEW r \in Users, at[r] = "swapped"
                 PROVE  Resident(r)' = {}
      BY <1>1
    <3>1. Resident(r) = {} /\ r # p
      BY <1>3 DEF Owned, Faults
    <3> QED BY <2>4, <3>1 DEF Resident
  <2> QED BY <1>1, <2>6, <2>7, <2>8 DEF Owned
<1> QED BY <1>8, <1>9

LEMMA OwnedSame ==
  ASSUME Owned, pg' = pg, at' = at, page' = page, table' = table, used' = used, mapped' = mapped,
         frames' = frames, busy' = busy, blockNum' = blockNum, block' = block
  PROVE  Owned'
<1>1. ASSUME NEW p \in Users, NEW g \in Pages PROVE PageOwned(p, g)'
  <2>1. PageOwned(p, g)
    BY DEF Owned
  <2> QED BY <2>1 DEF PageOwned, InCore, Known, Completes
<1>2. ASSUME NEW q \in Pagers PROVE HandOwned(q)'
  <2>1. HandOwned(q)
    BY DEF Owned
  <2> QED BY <2>1 DEF HandOwned, Maps, FreePool
<1> QED BY <1>1, <1>2 DEF Owned, Resident

LEMMA OwnedBoss ==
  ASSUME SafeInv, Owned, VmInit \/ VmShutdown \/ BossStep
  PROVE  Owned'
<1> USE DEF SafeInv
<1>1. at' = at /\ page' = page
  BY DEF VmInit, VmShutdown, BossStep, Abort, AbortSignal, AwaitAbort, Clean
<1>2. CASE VmInit \/ Clean
  <2>1. \A p \in Users : table'[p] = NoTable
    BY <1>2 DEF VmInit, Clean, Counted, Up
  <2>2. \A q \in Pagers : pg'[q].pc \in {"idle", "quit"} /\ pg'[q].frame = None
    <3>1. \A q \in Pagers : pg[q].pc = "quit" => pg[q].frame = None
      BY DEF Owned, HandOwned
    <3>2. CASE VmInit
      BY <3>1, <3>2 DEF VmInit, Stopping, Idle
    <3>3. CASE Clean
      BY <3>1, <3>3, AllStopped DEF Clean
    <3> QED BY <1>2, <3>2, <3>3
  <2> QED BY <2>1, <2>2 DEF Owned, PageOwned, HandOwned, InCore, Resident, Maps
<1>3. CASE VmShutdown \/ Abort \/ AbortSignal \/ AwaitAbort
  <2>1. pg' = pg /\ swapVars' = swapVars
    BY <1>3 DEF VmShutdown, Abort, AbortSignal, AwaitAbort
  <2>2. /\ table' = table /\ used' = used /\ mapped' = mapped /\ frames' = frames /\ busy' = busy
        /\ blockNum' = blockNum /\ block' = block
    BY <2>1 DEF swapVars, poolVars, infoVars, blockVars
  <2> QED BY <1>1, <2>1, <2>2, OwnedSame
<1> QED BY <1>2, <1>3 DEF BossStep

LEMMA OwnedInit ==
  ASSUME VMInit
  PROVE  Owned
<1>1. \A p \in Users : table[p] = NoTable
  BY DEF VMInit, SwapInitial
<1>2. \A q \in Pagers : pg[q].pc = "quit" /\ pg[q].frame = None
  BY DEF VMInit, Idle
<1> QED BY <1>1, <1>2 DEF Owned, PageOwned, HandOwned, InCore, Resident, Maps

LEMMA OwnedStays ==
  ASSUME Owned, UNCHANGED vmVars
  PROVE  Owned'
<1>1. /\ pg' = pg /\ at' = at /\ page' = page /\ table' = table /\ used' = used /\ mapped' = mapped
      /\ frames' = frames /\ busy' = busy /\ blockNum' = blockNum /\ block' = block
  BY DEF vmVars, swapVars, poolVars, infoVars, blockVars, faultVars
<1> QED BY <1>1, OwnedSame

LEMMA OwnedNext ==
  ASSUME OnePager, OneInv, [VMNext]_vmVars
  PROVE  Owned'
<1> USE DEF OneInv
<1>1. ASSUME NEW q \in Pagers, PagerStep(q)
      PROVE  Owned'
  BY <1>1, OwnedQuiet, OwnedTake, OwnedOut, OwnedIn DEF PagerStep
<1>2. CASE UNCHANGED vmVars
  BY <1>2, OwnedStays
<1> QED BY <1>1, <1>2, OwnedUser, OwnedBoss DEF VMNext

-----------------------------------------------------------------------------
(* The V's of isPageFaultQueueReady *)
LEMMA CountTypes ==
  ASSUME VMTypeOK
  PROVE  /\ IsFiniteSet(Let) /\ IsFiniteSet(Due) /\ Cardinality(Let) \in Nat
         /\ Cardinality(Due) \in Nat /\ Len(queue) \in Nat /\ ready \in Nat
<1>1. Let \subseteq Pagers /\ Due \subseteq Users /\ IsFiniteSet(Pagers) /\ IsFiniteSet(Users)
  BY VMAssumption DEF Let, Due
<1>2. IsFiniteSet(Let) /\ IsFiniteSet(Due) /\ Cardinality(Let) \in Nat /\ Cardinality(Due) \in Nat
  BY <1>1, FS_Subset, FS_CardinalityType
<1> QED BY <1>2, LenProperties DEF VMTypeOK

LEMMA NotEmptyTake ==
  ASSUME SafeInv, QueueCounted, ~c.late, NEW q \in Pagers, pg[q].pc = "take"
  PROVE  queue # << >>
<1>1. q \in Let
  BY DEF Let
<1>2. Cardinality(Let) # 0
  BY <1>1, CountTypes, FS_EmptySet DEF SafeInv
<1>3. PICK l \in Nat, d \in Nat, r \in Nat, o \in 0 .. 1 :
        l = Cardinality(Let) /\ d = Cardinality(Due) /\ r = ready /\ o = Owed
  BY CountTypes DEF SafeInv, Owed
<1>4. Len(queue) # 0
  BY <1>2, <1>3 DEF QueueCounted
<1> QED BY <1>4, EmptySeq DEF SafeInv, VMTypeOK

LEMMA NoneQueued ==
  ASSUME SafeInv, QueueCounted, ~c.late, \A p \in Users : ~Faults(p), boss \notin {"signal", "await"}
  PROVE  queue = << >>
<1>1. Entries(queue) = {}
  BY QueuedUsers DEF SafeInv, FaultsOnce, Stopping
<1>2. Len(queue) = 0
  <2>1. Len(queue) \in Nat
    BY CountTypes DEF SafeInv
  <2>2. 1 \in 1 .. Len(queue) => queue[1] \in Entries(queue)
    BY DEF Entries
  <2> QED BY <1>1, <2>1, <2>2
<1> QED BY <1>2, EmptySeq DEF SafeInv, VMTypeOK

LEMMA QueueBoss ==
  ASSUME SafeInv, QueueCounted, VmInit \/ VmShutdown \/ BossStep
  PROVE  QueueCounted'
<1> USE DEF SafeInv
<1>1. at' = at /\ c' = c /\ Due' = Due /\ \A p \in Users : Faults(p)' <=> Faults(p)
  BY DEF VmInit, VmShutdown, BossStep, Abort, AbortSignal, AwaitAbort, Clean, Due, Faults
<1> SUFFICES ASSUME ~c.late
             PROVE  /\ Len(queue') = ready' + Cardinality(Let') + Cardinality(Due) + Owed'
                    /\ \A p \in Users : Faults(p) => boss' = "up"
  BY <1>1 DEF QueueCounted
<1>2. PICK l \in Nat, d \in Nat, n \in Nat, r \in Nat :
        l = Cardinality(Let) /\ d = Cardinality(Due) /\ n = Len(queue) /\ r = ready
  BY CountTypes
<1>3. n = r + l + d + Owed
  BY <1>2 DEF QueueCounted
<1>4. boss # "up" => \A p \in Users : ~Faults(p)
  BY DEF QueueCounted
<1>5. CASE VmInit
  <2>1. boss = "new" /\ boss' = "up" /\ ready' = 0 /\ queue' = queue
    BY <1>5 DEF VmInit
  <2>0. Owed = 0 /\ Owed' = 0
    BY <2>1 DEF Owed
  <2>2. queue = << >>
    BY <1>4, <2>1, NoneQueued
  <2>3. n = 0
    BY <1>2, <2>2, EmptySeq DEF VMTypeOK
  <2>4. Let' = {}
    BY <1>5, <2>1 DEF VmInit, Let, Stopping, Idle
  <2>5. Cardinality(Let') = 0
    BY <2>4, FS_EmptySet
  <2>6. r = 0 /\ l = 0
    BY <1>3, <2>0, <2>3
  <2> QED BY <1>2, <1>3, <2>0, <2>1, <2>3, <2>5, <2>6
<1>6. CASE VmShutdown
  <2>1. boss = "up" /\ boss' = "abort" /\ ready' = ready /\ queue' = << >> /\ pg' = pg
    BY <1>6 DEF VmShutdown
  <2>2. \A p \in Users : ~Faults(p)
    BY <1>6 DEF VmShutdown, Faults
  <2>3. queue = << >>
    BY <2>1, <2>2, NoneQueued
  <2>4. Let' = Let
    BY <2>1 DEF Let
  <2>5. Owed = 0 /\ Owed' = 0
    BY <2>1 DEF Owed
  <2> QED BY <1>2, <1>3, <2>1, <2>2, <2>3, <2>4, <2>5
<1>7. CASE Abort
  <2>1. boss = "abort" /\ boss' = "signal" /\ ready' = ready /\ queue' = Append(queue, Boss) /\ pg' = pg
    BY <1>7 DEF Abort
  <2>2. Len(queue') = n + 1
    BY <1>2, <2>1, AppendProperties DEF VMTypeOK
  <2>3. Let' = Let
    BY <2>1 DEF Let
  <2>4. Owed = 0 /\ Owed' = 1
    BY <2>1 DEF Owed
  <2> QED BY <1>2, <1>3, <1>4, <2>1, <2>2, <2>3, <2>4
<1>8. CASE AbortSignal
  <2>1. boss = "signal" /\ boss' = "await" /\ ready' = ready + 1 /\ queue' = queue /\ pg' = pg
    BY <1>8 DEF AbortSignal
  <2>2. Let' = Let
    BY <2>1 DEF Let
  <2>3. Owed = 1 /\ Owed' = 0 /\ ready' = r + 1 /\ Len(queue') = n /\ Cardinality(Let') = l
    BY <1>2, <2>1, <2>2 DEF Owed
  <2> QED BY <1>2, <1>3, <1>4, <2>1, <2>3
<1>9. CASE AwaitAbort
  <2>1. boss = "await" /\ boss' = "abort" /\ ready' = ready /\ queue' = queue /\ pg' = pg
    BY <1>9 DEF AwaitAbort
  <2>2. Let' = Let
    BY <2>1 DEF Let
  <2>3. Owed = 0 /\ Owed' = 0
    BY <2>1 DEF Owed
  <2> QED BY <1>2, <1>3, <1>4, <2>1, <2>2, <2>3
<1>10. CASE Clean
  <2>1. boss = "abort" /\ boss' = "off" /\ ready' = 0 /\ queue' = << >> /\ pg' = pg
    BY <1>10 DEF Clean
  <2>2. Let' = {}
    BY <1>10, <2>1, AllStopped DEF Clean, Let
  <2>3. Due = {}
    BY <1>4, <2>1 DEF Due, Faults
  <2>4. Cardinality(Let') = 0 /\ d = 0
    BY <1>2, <2>2, <2>3, FS_EmptySet
  <2>5. Len(queue') = 0 /\ Owed' = 0
    BY <2>1 DEF Owed
  <2> QED BY <1>2, <1>4, <2>1, <2>4, <2>5
<1> QED BY <1>5, <1>6, <1>7, <1>8, <1>9, <1>10 DEF BossStep

LEMMA QueueUser ==
  ASSUME SafeInv, QueueCounted, NEW p \in Users, UserStep(p) \/ UserChoice(p)
  PROVE  QueueCounted'
<1> USE DEF SafeInv
<1>1. pg' = pg /\ c' = c /\ boss' = boss /\ \A r \in Users : r # p => at'[r] = at[r]
  BY UserDoes
<1>2. Let' = Let /\ Owed' = Owed
  BY <1>1 DEF Let, Owed
<1> SUFFICES ASSUME ~c.late
             PROVE  /\ Len(queue') = ready' + Cardinality(Let) + Cardinality(Due') + Owed
                    /\ \A r \in Users : Faults(r)' => boss = "up"
  BY <1>1, <1>2 DEF QueueCounted
<1>3. PICK l \in Nat, d \in Nat, n \in Nat, k \in Nat, o \in 0 .. 1 :
        l = Cardinality(Let) /\ d = Cardinality(Due) /\ n = Len(queue) /\ k = ready /\ o = Owed
  BY CountTypes DEF Owed
<1>4. n = k + l + d + o
  BY <1>3 DEF QueueCounted
<1>5. \A r \in Users : Faults(r) => boss = "up"
  BY DEF QueueCounted
<1>6. CASE Fault(p)
  <2>1. /\ at[p] = "run" /\ boss = "up" /\ at' = [at EXCEPT ![p] = "fault"] /\ ready' = ready
        /\ queue' = Append(queue, p)
    BY <1>6 DEF Fault
  <2>2. Due' = Due \cup {p} /\ p \notin Due
    BY <2>1 DEF Due, VMTypeOK
  <2>3. Cardinality(Due') = d + 1
    BY <1>3, <2>2, CountTypes, FS_AddElement
  <2>4. Len(queue') = n + 1
    BY <1>3, <2>1, AppendProperties DEF VMTypeOK
  <2>5. ready' = k /\ Cardinality(Let) = l /\ Owed = o
    BY <1>3, <2>1
  <2>6. n + 1 = k + l + (d + 1) + o
    BY <1>4
  <2>7. Len(queue') = ready' + Cardinality(Let) + Cardinality(Due') + Owed
    BY <2>3, <2>4, <2>5, <2>6
  <2> QED BY <2>1, <2>7
<1>7. CASE Signal(p)
  <2>1. /\ at[p] = "fault" /\ at' = [at EXCEPT ![p] = "waiting"] /\ ready' = ready + 1
        /\ queue' = queue
    BY <1>7 DEF Signal
  <2>2. Due' = Due \ {p} /\ p \in Due /\ Faults(p)
    BY <2>1 DEF Due, VMTypeOK, Faults
  <2>3. Cardinality(Due') = d - 1
    BY <1>3, <2>2, CountTypes, FS_RemoveElement
  <2>4. Len(queue') = n /\ ready' = k + 1
    BY <1>3, <2>1
  <2>5. \A r \in Users : Faults(r)' => Faults(r)
    BY <1>1, <2>2 DEF Faults
  <2>6. n = (k + 1) + l + (d - 1) + o
    BY <1>4
  <2>7. Len(queue') = ready' + Cardinality(Let) + Cardinality(Due') + Owed
    BY <1>3, <2>3, <2>4, <2>6
  <2> QED BY <1>5, <2>5, <2>7
<1>8. CASE ~Fault(p) /\ ~Signal(p)
  <2>1. /\ at'[p] = at[p] \/ (at[p] # "fault" /\ at'[p] \notin {"fault", "waiting"})
        /\ ready' = ready /\ queue' = queue
    BY <1>8 DEF UserStep, UserChoice, Fork, Write, Read, Return, Quit, ReapSwap, ReapFrames, ReapPlain,
                faultVars, VMTypeOK
  <2>2. Due' = Due /\ \A r \in Users : Faults(r)' => Faults(r)
    BY <1>1, <2>1 DEF Due, Faults
  <2> QED BY <1>3, <1>4, <1>5, <2>1, <2>2
<1> QED BY <1>6, <1>7, <1>8

LEMMA QueuePager ==
  ASSUME SafeInv, QueueCounted, NEW q \in Pagers, PagerStep(q)
  PROVE  QueueCounted'
<1> USE DEF SafeInv
<1>1. at' = at /\ c' = c /\ boss' = boss /\ \A r \in Pagers : r # q => pg'[r] = pg[r]
  BY OthersKeep DEF Beside, bossVars
<1>2. Due' = Due /\ Owed' = Owed /\ \A r \in Users : Faults(r)' <=> Faults(r)
  BY <1>1 DEF Due, Owed, Faults
<1> SUFFICES ASSUME ~c.late
             PROVE  Len(queue') = ready' + Cardinality(Let') + Cardinality(Due) + Owed
  BY <1>1, <1>2 DEF QueueCounted
<1>3. PICK l \in Nat, d \in Nat, n \in Nat, k \in Nat, o \in 0 .. 1 :
        l = Cardinality(Let) /\ d = Cardinality(Due) /\ n = Len(queue) /\ k = ready /\ o = Owed
  BY CountTypes DEF Owed
<1>4. n = k + l + d + o
  BY <1>3 DEF QueueCounted
<1>0. pg \in [Pagers -> PagerType]
  BY DEF VMTypeOK
<1>5. CASE Ready(q)
  <2>1. pg[q].pc = "idle" /\ ready' = k - 1 /\ queue' = queue /\ pg'[q].pc = "take"
    BY <1>0, <1>3, <1>5 DEF Ready, To, PagerType
  <2>2. Let' = Let \cup {q} /\ q \notin Let
    BY <1>1, <2>1 DEF Let
  <2>3. Cardinality(Let') = l + 1
    BY <1>3, <2>2, CountTypes, FS_AddElement
  <2>4. Len(queue') = n
    BY <1>3, <2>1
  <2> QED BY <1>3, <1>4, <2>1, <2>3, <2>4
<1>6. CASE Take(q)
  <2>1. pg[q].pc = "take" /\ ready' = ready
    BY <1>6 DEF Take
  <2>2. queue # << >>
    BY <2>1, NotEmptyTake
  <2>3. queue' = Tail(queue) /\ pg'[q].pc \in {"quit", "pick"}
    BY <1>0, <1>6, <2>2 DEF Take, To, PagerType
  <2>4. Let' = Let \ {q} /\ q \in Let
    BY <1>1, <2>1, <2>3 DEF Let
  <2>5. Cardinality(Let') = l - 1
    BY <1>3, <2>4, CountTypes, FS_RemoveElement
  <2>6. Len(queue') = n - 1
    BY <1>3, <2>2, <2>3, HeadTail
  <2>7. ready' = k /\ Cardinality(Due) = d /\ Owed = o
    BY <1>3, <2>1
  <2>8. n - 1 = k + (l - 1) + d + o
    BY <1>4
  <2> QED BY <2>5, <2>6, <2>7, <2>8
<1>7. CASE ~Ready(q) /\ ~Take(q)
  <2>1. ready' = ready /\ queue' = queue
    BY <1>7 DEF PagerStep, TakeFrame, SwapOut, OutMap, OutCopy, WriteOut, ReadMap,
         ReadCopy, ZeroMap, ZeroCopy, ChooseTarget, SwapIn, Update, faultVars
  <2>2. pg[q].pc \in Working
    BY <1>7 DEF PagerStep, TakeFrame, SwapOut, OutMap, OutCopy, WriteOut, ReadMap,
         ReadCopy, ZeroMap, ZeroCopy, ChooseTarget, SwapIn, Update, Working
  <2>3. pg'[q].pc \in Working \/ pg'[q] = Idle
    BY <2>2, PagerDoes DEF WorksOn, Answers, TakesFault, TakesStop, Serving, Working
  <2>4. Let' = Let
    BY <1>1, <2>2, <2>3 DEF Let, Working, Idle
  <2> QED BY <1>3, <1>4, <2>1, <2>4
<1> QED BY <1>5, <1>6, <1>7

LEMMA QueueInit ==
  ASSUME VMInit
  PROVE  QueueCounted
<1>1. Let = {} /\ Due = {} /\ \A p \in Users : ~Faults(p)
  BY DEF VMInit, Let, Due, Faults, Idle
<1>2. Cardinality(Let) = 0 /\ Cardinality(Due) = 0
  BY <1>1, FS_EmptySet
<1>3. Len(queue) = 0 /\ ready = 0 /\ Owed = 0
  BY DEF VMInit, Owed
<1> QED BY <1>1, <1>2, <1>3 DEF QueueCounted

LEMMA QueueNext ==
  ASSUME SafeInv, QueueCounted, [VMNext]_vmVars
  PROVE  QueueCounted'
<1>1. CASE UNCHANGED vmVars
  <2>1. queue' = queue /\ ready' = ready /\ at' = at /\ pg' = pg /\ boss' = boss /\ c' = c
    BY <1>1 DEF vmVars, faultVars, bossVars
  <2>2. Let' = Let /\ Due' = Due /\ Owed' = Owed /\ \A p \in Users : Faults(p)' <=> Faults(p)
    BY <2>1 DEF Let, Due, Owed, Faults
  <2> QED BY <2>1, <2>2 DEF QueueCounted
<1> QED BY <1>1, QueueBoss, QueueUser, QueuePager DEF VMNext

(* The assertions of P3FrameUnmap and of pageFaultQueueRemove *)
LEMMA AssertsPager ==
  ASSUME SafeInv, Owned, QueueCounted, ~failed, NEW q \in Pagers, PagerStep(q)
  PROVE  failed' => c.late
<1>1. CASE Take(q)
  BY <1>1, NotEmptyTake DEF Take
<1>2. CASE OutCopy(q) \/ ReadCopy(q) \/ ZeroCopy(q)
  <2>1. HandOwned(q) /\ Maps(q)
    BY <1>2 DEF Owned, Maps, OutCopy, ReadCopy, ZeroCopy
  <2>2. failed' = (mapped[pg[q].frame] # q)
    BY <1>2 DEF OutCopy, ReadCopy, ZeroCopy, FrameUnmap
  <2> QED BY <2>1, <2>2 DEF HandOwned
<1>3. CASE ~(Take(q) \/ OutCopy(q) \/ ReadCopy(q) \/ ZeroCopy(q))
  BY <1>3 DEF PagerStep, Ready, TakeFrame, SwapOut, OutMap, WriteOut, ReadMap, ZeroMap,
              ChooseTarget, SwapIn, Update
<1> QED BY <1>1, <1>2, <1>3

LEMMA AssertsNext ==
  ASSUME SafeInv, Owned, QueueCounted, AssertsHold, [VMNext]_vmVars
  PROVE  AssertsHold'
<1>1. ASSUME NEW q \in Pagers, PagerStep(q), ~failed
      PROVE  AssertsHold'
  <2>1. c' = c
    BY <1>1, OthersKeep DEF SafeInv, Beside
  <2> QED BY <1>1, <2>1, AssertsPager DEF AssertsHold
<1>2. CASE UNCHANGED vmVars
  BY <1>2 DEF vmVars, AssertsHold
<1>3. CASE failed' = failed /\ c' = c
  BY <1>3 DEF AssertsHold
<1>4. CASE VmInit \/ VmShutdown \/ BossStep
  BY <1>3, <1>4 DEF VmInit, VmShutdown, BossStep, Abort, AbortSignal, AwaitAbort, Clean
<1>5. ASSUME NEW p \in Users, UserStep(p) \/ UserChoice(p)
      PROVE  AssertsHold'
  BY <1>3, <1>5 DEF UserStep, UserChoice, Fork, Write, Read, Fault, Signal, Return, Quit, ReapSwap,
                    ReapFrames, ReapPlain
<1> QED BY <1>1, <1>2, <1>4, <1>5 DEF VMNext

LEMMA AllAlways ==
  ASSUME OnePager
  PROVE  VMSpec => []AllInv
<1>1. VMInit => AllInv
  BY SafeInit, OwnedInit, QueueInit DEF AllInv, OneInv, VMInit, AssertsHold
<1>2. AllInv /\ [VMNext]_vmVars => AllInv'
  BY SafeNext, OwnedNext, QueueNext, AssertsNext DEF AllInv, OneInv
<1> QED BY <1>1, <1>2, PTL DEF VMSpec

-----------------------------------------------------------------------------
LEMMA AtMostOne ==
  ASSUME NEW S, \A x, y \in S : x = y
  PROVE  Cardinality(S) <= 1
<1>1. CASE S = {}
  BY <1>1, FS_EmptySet
<1>2. CASE S # {}
  <2>1. PICK x \in S : TRUE
    BY <1>2
  <2>2. S = {x}
    BY <2>1
  <2> QED BY <2>2, FS_Singleton
<1> QED BY <1>1, <1>2

LEMMA OwnedOnce ==
  ASSUME OnePager, OneInv
  PROVE  FrameOwnedOnce
<1> SUFFICES ASSUME NEW f \in Frames
             PROVE  /\ Cardinality({x \in Users \X Pages :
                                      InCore(x[1], x[2]) /\ table[x[1]][x[2]] = f}) <= 1
                    /\ Cardinality(InHand(f)) <= 1
                    /\ \A q \in InHand(f), p \in Users : f \in Resident(p) => pg[q].of = p
  BY DEF FrameOwnedOnce
<1> USE DEF OneInv, SafeInv
<1> DEFINE S == {x \in Users \X Pages : InCore(x[1], x[2]) /\ table[x[1]][x[2]] = f}
<1>1. Cardinality(S) <= 1
  <2>1. ASSUME NEW x \in S, NEW y \in S
        PROVE  x = y
    <3>1. x = << x[1], x[2] >> /\ y = << y[1], y[2] >>
      OBVIOUS
    <3>2. x[1] = y[1] /\ x[2] = y[2]
      BY FramesApart
    <3> QED BY <3>1, <3>2
  <2> HIDE DEF S
  <2> QED BY <2>1, AtMostOne
<1>2. Cardinality(InHand(f)) <= 1
  <2>1. ASSUME NEW q \in InHand(f), NEW r \in InHand(f)
        PROVE  q = r
    <3>1. pg[q].frame # None /\ pg[r].frame # None /\ q \in Pagers /\ r \in Pagers
      BY NotEmpty DEF InHand
    <3>2. pg[q].pc # "quit" /\ pg[r].pc # "quit"
      BY <3>1 DEF Owned, HandOwned
    <3>3. q \in c.pagers /\ r \in c.pagers /\ c \in Scenarios
      BY <3>1, <3>2 DEF Stopping, VMTypeOK
    <3> QED BY <3>3 DEF OnePager
  <2> QED BY <2>1, AtMostOne
<1>3. ASSUME NEW q \in InHand(f), NEW p \in Users, f \in Resident(p)
      PROVE  pg[q].of = p
  <2>1. PICK g \in Pages : InCore(p, g) /\ table[p][g] = f
    BY <1>3, ResidentIn
  <2>2. q \in Pagers /\ pg[q].frame = f
    BY DEF InHand
  <2> QED BY <2>1, <2>2 DEF Owned, PageOwned, Completes
<1> QED BY <1>1, <1>2, <1>3

LEMMA ExactBlocks ==
  ASSUME OneInv
  PROVE  BlocksExact
<1> USE DEF OneInv, SafeInv
<1>1. boss \notin {"new", "off"}
        => freeBlocks = c.blocks - Cardinality({b \in Blocks : block[b] # NoPage})
  BY DEF Counted, Up, Taken
<1>2. ASSUME NEW p \in Users, NEW g \in Pages
      PROVE  Cardinality(BlocksOf(p, g)) <= 1
  <2>1. << p, g >> # NoPage
    BY NotEmpty
  <2>2. \A b, d \in BlocksOf(p, g) : b = d
    BY <2>1 DEF BlocksOf, Counted
  <2> QED BY <2>2, AtMostOne
<1>3. ASSUME NEW p \in Users, NEW g \in Pages, InCore(p, g)
      PROVE  LET f == table[p][g]
             IN  used[f] /\ ~busy[f] /\ BlocksOf(p, g) = {blockNum[f]}
  <2>1. PICK f \in Frames : f = table[p][g]
    BY <1>3, Types DEF InCore
  <2>2. Known(p, g, f)
    BY <1>3, <2>1 DEF Owned, PageOwned
  <2>3. blockNum[f] \in BlocksOf(p, g)
    BY <2>2 DEF Known, BlocksOf, VMTypeOK, SwapTypeOK
  <2>4. BlocksOf(p, g) = {blockNum[f]}
    <3>1. << p, g >> # NoPage
      BY NotEmpty
    <3> QED BY <2>3, <3>1 DEF BlocksOf, Counted
  <2> QED BY <2>1, <2>2, <2>4 DEF Known
<1> QED BY <1>1, <1>2, <1>3 DEF BlocksExact

(* With one pager, however many frames, blocks, pages and processes there  *)
(* are and whenever the processes end or virtual memory is shut down: no   *)
(* two pages are in one frame, and the pager works on no frame of a page   *)
(* other than the one it is for.                                           *)
THEOREM FramesOwnedOnce ==
  ASSUME OnePager
  PROVE  VMSpec => []FrameOwnedOnce
<1>1. AllInv => FrameOwnedOnce
  BY OwnedOnce DEF AllInv
<1> QED BY <1>1, AllAlways, PTL

(* Then block table, block counter, frames and page tables agree.          *)
THEOREM BlocksAgree ==
  ASSUME OnePager
  PROVE  VMSpec => []BlocksExact
<1>1. AllInv => BlocksExact
  BY ExactBlocks DEF AllInv
<1> QED BY <1>1, AllAlways, PTL

(* And no assertion of P3FrameUnmap fails, nor, unless virtual memory is   *)
(* shut down under the feet of the processes, the one of                   *)
(* pageFaultQueueRemove.                                                   *)
THEOREM AssertionsOfPager ==
  ASSUME OnePager
  PROVE  VMSpec => []AssertsHold
<1>1. AllInv => AssertsHold
  BY DEF AllInv
<1> QED BY <1>1, AllAlways, PTL
=============================================================================
