--------------------------------- MODULE Swap ---------------------------------
(***************************************************************************)
(* Frames, swap space and page tables: the state of phase3/phase3c         *)
(* (framePool), phase3/phase3d (blockPool, framesInfoArr, the clock hand)  *)
(* and phase3/phase3a (pageTables), with what the MMU keeps, and the       *)
(* regions under framePoolMutex and blockPoolMutex that work on it.  Each  *)
(* operator is one region, or the part of one between two places where it  *)
(* may have to wait; module VM says who executes them and when.            *)
(*                                                                         *)
(* The contents of a page are one value.  Readable and writable pages are  *)
(* not told apart: the code sets both bits whenever it sets incore.        *)
(***************************************************************************)
EXTENDS Integers, FiniteSets, FiniteSetsExt

CONSTANTS Users,      \* pids of user processes
          NumPages,   \* pages of a process
          MaxFrames,  \* bound: frames that P3_VmInit is asked for
          MaxBlocks,  \* bound: blocks of the swap disk
          Values,     \* what a process writes
          Zero

Pages == 0 .. NumPages - 1
Frames == 0 .. MaxFrames - 1
Blocks == 0 .. MaxBlocks - 1
None == -1
NoPage == << >>
NoTable == << >>
Empty == [g \in Pages |-> None]

ASSUME SwapAssumption ==
  /\ NumPages \in Nat \ {0} /\ MaxFrames \in Nat \ {0} /\ MaxBlocks \in Nat \ {0}
  /\ Zero \in Values

VARIABLES
  table,      \* table[p][g]: the frame of the page if it is in core
  frames,     \* framePoolSize, FRAMES
  used,       \* framePool[f].isBeingUsed
  mapped,     \* framePool[f].mappedProcessId
  busy,       \* framesInfoArr[f].isBusy
  blockNum,   \* framesInfoArr[f].blockNum
  block,      \* block[b]: whose page it holds
  freeBlocks, \* numberOfFreeBlocks
  freeFrames, \* P3_vmStats.freeFrames
  hand,       \* of the clock algorithm
  ref, dirty, \* USLOSS_MMU_REF and USLOSS_MMU_DIRTY of the frames
  content,    \* what is in the frames,
  disk        \* and in the blocks

poolVars == << used, mapped, freeFrames >>
infoVars == << busy, blockNum, hand >>
blockVars == << block, freeBlocks >>
mmuVars == << ref, dirty, content >>
swapVars == << table, frames, poolVars, infoVars, blockVars, mmuVars, disk >>

SwapTypeOK ==
  /\ table \in [Users -> [Pages -> Frames \cup {None}] \cup {NoTable}]
  /\ frames \in 0 .. MaxFrames
  /\ used \in [Frames -> BOOLEAN] /\ freeFrames \in Int
  /\ busy \in [Frames -> BOOLEAN] /\ blockNum \in [Frames -> Blocks \cup {None}]
  /\ block \in [Blocks -> (Users \X Pages) \cup {NoPage}]
  /\ freeBlocks \in 0 .. MaxBlocks /\ hand \in Frames \cup {None}
  /\ ref \in [Frames -> BOOLEAN] /\ dirty \in [Frames -> BOOLEAN]
  /\ content \in [Frames -> Values] /\ disk \in [Blocks -> Values]

(* P3FrameInit, P3SwapInit and USLOSS_MmuInit; the hand stays where it is. *)
Reset(n, m) ==
  /\ frames' = n /\ freeFrames' = n
  /\ used' = [f \in Frames |-> FALSE] /\ mapped' = [f \in Frames |-> None]
  /\ busy' = [f \in Frames |-> FALSE] /\ blockNum' = [f \in Frames |-> None]
  /\ block' = [b \in Blocks |-> NoPage] /\ freeBlocks' = m
  /\ ref' = [f \in Frames |-> FALSE] /\ dirty' = [f \in Frames |-> FALSE]
  /\ content' = [f \in Frames |-> Zero]

SwapInitial ==
  /\ table = [p \in Users |-> NoTable]
  /\ frames = 0 /\ freeFrames = 0
  /\ used = [f \in Frames |-> FALSE] /\ mapped = [f \in Frames |-> None]
  /\ busy = [f \in Frames |-> FALSE] /\ blockNum = [f \in Frames |-> None]
  /\ block = [b \in Blocks |-> NoPage] /\ freeBlocks = 0
  /\ hand = None
  /\ ref = [f \in Frames |-> FALSE] /\ dirty = [f \in Frames |-> FALSE]
  /\ content = [f \in Frames |-> Zero] /\ disk = [b \in Blocks |-> Zero]

-----------------------------------------------------------------------------
InCore(p, g) == table[p] # NoTable /\ table[p][g] # None
Resident(p) == IF table[p] = NoTable THEN {} ELSE {table[p][g] : g \in Pages} \ {None}
FreePool == {f \in 0 .. frames - 1 : ~used[f]}
NotBusy == {f \in 0 .. frames - 1 : ~busy[f]}
BlocksOf(p, g) == {b \in Blocks : block[b] = << p, g >>}

(* The mutant forgets the pages that are not in core. *)
BlocksInCore(p) == {b \in Blocks : \E f \in Resident(p) : blockNum[f] = b}
BlocksOfProcess(p) == {b \in Blocks : block[b] # NoPage /\ block[b][1] = p}

(* A process, or a pager through its own page table, reads or writes f. *)
Touch(f, v) ==
  /\ content' = [content EXCEPT ![f] = v]
  /\ ref' = [ref EXCEPT ![f] = TRUE] /\ dirty' = [dirty EXCEPT ![f] = TRUE]

(* The clock algorithm: the hand goes on to the first frame that is not    *)
(* busy and not referenced, and clears the bits it passes; after a round   *)
(* all of them are clear.                                                  *)
Nth(k) == (hand + k) % frames

Steps ==
  LET fresh == {k \in 1 .. frames : Nth(k) \in NotBusy /\ ~ref[Nth(k)]}
  IN  Min(IF fresh # {} THEN fresh
          ELSE {k \in frames + 1 .. 2 * frames : Nth(k) \in NotBusy})

Target == Nth(Steps)

TurnHand ==
  /\ hand' = Target
  /\ ref' = [f \in Frames |-> ref[f] /\ ~(\E k \in 1 .. Steps : Nth(k) = f /\ ~busy[f])]

(* The page in frame f is no longer in core, wherever it is. *)
Evicted(f) ==
  IF blockNum[f] # None /\ block[blockNum[f]] # NoPage
  THEN LET o == block[blockNum[f]] IN [table EXCEPT ![o[1]][o[2]] = None]
  ELSE table

(* The end of P3SwapOut: nobody else may choose f now. *)
Claim(f) ==
  /\ busy' = [busy EXCEPT ![f] = TRUE]
  /\ blockNum' = [blockNum EXCEPT ![f] = None]

(* The end of P3SwapIn: page g of p is in frame f, and has block b.  The   *)
(* mutant does not tell the frame.                                         *)
SettlePage(p, g, f, b) ==
  /\ busy' = [busy EXCEPT ![f] = FALSE]
  /\ table' = [table EXCEPT ![p][g] = f]
  /\ UNCHANGED blockNum

Settle(p, g, f, b) ==
  /\ busy' = [busy EXCEPT ![f] = FALSE]
  /\ blockNum' = [blockNum EXCEPT ![f] = b]
  /\ table' = [table EXCEPT ![p][g] = f]

(* P3SwapIn of a page that has no block yet: it gets the first free one *)
FirstFree == Min({b \in Blocks : block[b] = NoPage})

Allocate(p, g) ==
  /\ block' = [block EXCEPT ![FirstFree] = << p, g >>]
  /\ freeBlocks' = freeBlocks - 1

(* P3SwapFreeAll counts the blocks it frees; the mutant counts the frames  *)
(* as well.                                                                *)
FreedTwice(p) == Cardinality(BlocksOfProcess(p)) + Cardinality(Resident(p))
Freed(p) == Cardinality(BlocksOfProcess(p))

SwapFreeAll(p) ==
  /\ busy' = [f \in Frames |-> busy[f] /\ f \notin Resident(p)]
  /\ blockNum' = [f \in Frames |-> IF f \in Resident(p) THEN None ELSE blockNum[f]]
  /\ table' = [table EXCEPT ![p] = Empty]
  /\ block' = [b \in Blocks |-> IF b \in BlocksOfProcess(p) THEN NoPage ELSE block[b]]
  /\ freeBlocks' = freeBlocks + Freed(p)

(* P3FrameFreeAll.  P3SwapFreeAll has left it nothing to free. *)
FrameFreeAll(p) ==
  /\ used' = [f \in Frames |-> used[f] /\ f \notin Resident(p)]
  /\ mapped' = [f \in Frames |-> IF f \in Resident(p) THEN None ELSE mapped[f]]
  /\ freeFrames' = freeFrames + Cardinality(Resident(p))
=============================================================================
