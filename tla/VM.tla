---------------------------------- MODULE VM ----------------------------------
(***************************************************************************)
(* Virtual memory at work: user processes that write to their pages and    *)
(* fault (FaultHandler, phase3c.c), the queue of faults, the pagers that   *)
(* answer them with P3SwapOut and P3SwapIn (phase3d.c), processes that end *)
(* (P3_FreePageTable, phase3a.c), and the process that calls P3_VmInit and *)
(* P3_VmShutdown.  A step goes from one place where its process may have   *)
(* to wait to the next; the semaphores and the disk it waits for are those *)
(* of modules Kernel and Disk, here reduced to what they promise.          *)
(***************************************************************************)
EXTENDS Swap, Sequences

CONSTANTS Pagers,     \* the pagers, whose page tables P3FrameMap borrows
          MaxFaults,  \* bound: V's of isPageFaultQueueReady not yet taken
          Scenarios   \* what the process that runs the tests asks for

(* A scenario is a record of the numbers of frames and blocks, and of      *)
(*  pagers: those that P3_VmInit starts                                    *)
(*  held:   the Pager has framePoolMutex when it calls P3SwapOut, as in    *)
(*          phase3c.c; otherwise not, as in the pseudo-code above it       *)
(*  own:    the pagers are children of the process that shuts down         *)
(*  late:   that process does not wait for the others first                *)
(*  quits, writes: the processes that end of themselves, and that write    *)
ScenarioType == [frames : 1 .. MaxFrames, blocks : 0 .. MaxBlocks, pagers : SUBSET Pagers,
                 held : BOOLEAN, own : BOOLEAN, late : BOOLEAN,
                 quits : SUBSET Users, uses : SUBSET (Users \X Pages)]

Boss == "boss"
Free == "free"

ASSUME VMAssumption ==
  /\ Scenarios \subseteq ScenarioType /\ MaxFaults \in Nat \ {0}
  /\ IsFiniteSet(Users) /\ Boss \notin Users
  /\ IsFiniteSet(Pagers) /\ Free \notin Pagers /\ None \notin Pagers

VARIABLES
  c,        \* the scenario
  at,       \* where each user process is
  page,     \* fault.offset: the page it has a fault on
  ok,       \* fault.okToSetPTE
  wait,     \* value of fault.wait
  queue,    \* the page fault queue: whose faults
  ready,    \* value of isPageFaultQueueReady
  pool,     \* who has framePoolMutex
  swap,     \* who has blockPoolMutex
  pg,       \* the local variables of the pagers
  boss, turn, \* where the process that shuts down is, and the pager it waits for
  failed    \* an assertion has failed, the machine has stopped

faultVars == << page, ok, wait, queue, ready >>
lockVars == << pool, swap >>
bossVars == << boss, turn >>
vmVars == << swapVars, c, at, faultVars, lockVars, pg, bossVars, failed >>

Idle == [pc |-> "idle", of |-> Boss, frame |-> None, isNew |-> FALSE, buf |-> Zero]

PagerPCs == {"idle", "take", "pick", "out", "hand", "outmap", "outcopy", "write", "in",
             "readmap", "readcopy", "zeromap", "zerocopy", "update", "quit"}

PagerType == [pc : PagerPCs, of : Users \cup {Boss}, frame : Frames \cup {None},
              isNew : BOOLEAN, buf : Values]

VMTypeOK ==
  /\ SwapTypeOK /\ mapped \in [Frames -> Pagers \cup {None}] /\ c \in Scenarios
  /\ at \in [Users -> {"none", "run", "fault", "waiting", "quit", "swapped"}]
  /\ page \in [Users -> Pages] /\ ok \in [Users -> BOOLEAN]
  /\ wait \in [Users \cup {Boss} -> 0 .. 1]
  /\ freeBlocks <= c.blocks /\ queue \in Seq(Users \cup {Boss}) /\ ready \in Nat
  /\ pool \in Pagers \cup {Free} /\ swap \in Pagers \cup {Free}
  /\ pg \in [Pagers -> PagerType]
  /\ boss \in {"new", "up", "stop", "abort", "signal", "await", "clean", "off"}
  /\ turn \in 0 .. Cardinality(Pagers) /\ failed \in BOOLEAN

VMInit ==
  /\ SwapInitial /\ c \in Scenarios
  /\ at = [p \in Users |-> "none"]
  /\ page = [p \in Users |-> 0] /\ ok = [p \in Users |-> TRUE]
  /\ wait = [o \in Users \cup {Boss} |-> 0]
  /\ queue = << >> /\ ready = 0 /\ pool = Free /\ swap = Free
  /\ pg = [q \in Pagers |-> [Idle EXCEPT !.pc = "quit"]]
  /\ boss = "new" /\ turn = 0 /\ failed = FALSE

-----------------------------------------------------------------------------
(* P3_VmInit *)
VmInit ==
  /\ boss = "new"
  /\ Reset(c.frames, c.blocks)
  /\ pg' = [q \in Pagers |-> IF q \in c.pagers THEN Idle ELSE pg[q]]
  /\ boss' = "up" /\ ready' = 0
  /\ UNCHANGED << table, hand, disk, c, at, page, ok, wait, queue, lockVars, turn, failed >>

(* P3_AllocatePageTable for a new process *)
Fork(p) ==
  /\ at[p] = "none" /\ boss = "up"
  /\ at' = [at EXCEPT ![p] = "run"]
  /\ table' = [table EXCEPT ![p] = Empty]
  /\ UNCHANGED << frames, poolVars, infoVars, blockVars, mmuVars, disk, c, faultVars,
                  lockVars, pg, bossVars, failed >>

(* A process writes to a page that is in core, or reads it. *)
Write(p) ==
  /\ at[p] = "run"
  /\ \E g \in Pages, v \in Values : InCore(p, g) /\ Touch(table[p][g], v)
  /\ UNCHANGED << table, frames, poolVars, infoVars, blockVars, disk, c, at, faultVars,
                  lockVars, pg, bossVars, failed >>

Read(p) ==
  /\ at[p] = "run"
  /\ \E g \in Pages : InCore(p, g) /\ ref' = [ref EXCEPT ![table[p][g]] = TRUE]
  /\ UNCHANGED << table, frames, poolVars, infoVars, blockVars, dirty, content, disk, c, at,
                  faultVars, lockVars, pg, bossVars, failed >>

(* FaultHandler, for a page that is not in core: it enters the fault, *)
Fault(p) ==
  /\ at[p] = "run" /\ table[p] # NoTable /\ (c.late \/ boss = "up")
  /\ \E g \in Pages : << p, g >> \in c.uses /\ ~InCore(p, g) /\ page' = [page EXCEPT ![p] = g]
  /\ at' = [at EXCEPT ![p] = "fault"]
  /\ ok' = [ok EXCEPT ![p] = TRUE] /\ queue' = Append(queue, p)
  /\ UNCHANGED << swapVars, c, wait, ready, lockVars, pg, bossVars, failed >>

(* tells the pagers, *)
Signal(p) ==
  /\ at[p] = "fault" /\ ready < MaxFaults
  /\ at' = [at EXCEPT ![p] = "waiting"]
  /\ ready' = ready + 1
  /\ UNCHANGED << swapVars, c, page, ok, wait, queue, lockVars, pg, bossVars, failed >>

(* waits, and goes on or ends. *)
Return(p) ==
  /\ at[p] = "waiting" /\ wait[p] > 0
  /\ wait' = [wait EXCEPT ![p] = @ - 1]
  /\ at' = [at EXCEPT ![p] = IF ok[p] THEN "run" ELSE "quit"]
  /\ page' = [page EXCEPT ![p] = 0] /\ ok' = [ok EXCEPT ![p] = TRUE]
  /\ UNCHANGED << swapVars, c, queue, ready, lockVars, pg, bossVars, failed >>

Quit(p) ==
  /\ at[p] = "run" /\ p \in c.quits /\ (c.late \/ boss \in {"up", "off"})
  /\ at' = [at EXCEPT ![p] = "quit"]
  /\ UNCHANGED << swapVars, c, faultVars, lockVars, pg, bossVars, failed >>

(* P3_FreePageTable: its P3SwapFreeAll, *)
ReapSwap(p) ==
  /\ at[p] = "quit" /\ table[p] # NoTable /\ swap = Free
  /\ at' = [at EXCEPT ![p] = "swapped"]
  /\ SwapFreeAll(p)
  /\ UNCHANGED << frames, poolVars, hand, mmuVars, disk, c, faultVars, lockVars, pg,
                  bossVars, failed >>

(* then P3FrameFreeAll and PageTableFree *)
ReapFrames(p) ==
  /\ at[p] = "swapped" /\ pool = Free
  /\ at' = [at EXCEPT ![p] = "none"]
  /\ FrameFreeAll(p)
  /\ table' = [table EXCEPT ![p] = NoTable]
  /\ UNCHANGED << frames, infoVars, blockVars, mmuVars, disk, c, faultVars, lockVars, pg,
                  bossVars, failed >>

(* A process that ends when virtual memory is off *)
ReapPlain(p) ==
  /\ at[p] = "quit" /\ table[p] = NoTable
  /\ at' = [at EXCEPT ![p] = "none"]
  /\ UNCHANGED << swapVars, c, faultVars, lockVars, pg, bossVars, failed >>

UserStep(p) == Signal(p) \/ Return(p) \/ ReapSwap(p) \/ ReapFrames(p) \/ ReapPlain(p)
UserChoice(p) == Fork(p) \/ Write(p) \/ Read(p) \/ Fault(p) \/ Quit(p)
-----------------------------------------------------------------------------
(* The Pager.  P3FrameMap maps a frame into a page of its own page table,  *)
(* and keeps the pager's pid; P3FrameUnmap asserts that it still does.     *)
To(q, pc) == pg' = [pg EXCEPT ![q].pc = pc]

(* The V of fault.wait; the mutant forgets those that it kills. *)
AnswerUnlessFatal(q, yes) ==
  /\ ok' = [ok EXCEPT ![pg[q].of] = yes]
  /\ wait' = IF yes THEN [wait EXCEPT ![pg[q].of] = @ + 1] ELSE wait
  /\ pg' = [pg EXCEPT ![q] = Idle]

Answer(q, yes) ==
  /\ ok' = [ok EXCEPT ![pg[q].of] = yes]
  /\ wait' = [wait EXCEPT ![pg[q].of] = @ + 1]
  /\ pg' = [pg EXCEPT ![q] = Idle]

(* The mutant does not keep the pager's pid. *)
FrameMapOnly(q, next) == pool = Free /\ To(q, next) /\ UNCHANGED mapped

FrameMap(q, next) ==
  /\ pool = Free
  /\ mapped' = [mapped EXCEPT ![pg[q].frame] = q]
  /\ To(q, next)

FrameUnmap(q) ==
  /\ pool = Free
  /\ failed' = (mapped[pg[q].frame] # q)
  /\ mapped' = [mapped EXCEPT ![pg[q].frame] = IF @ = q THEN None ELSE @]

(* pageFaultQueueRemove *)
Ready(q) ==
  /\ pg[q].pc = "idle" /\ ready > 0
  /\ ready' = ready - 1 /\ To(q, "take")
  /\ UNCHANGED << swapVars, c, at, page, ok, wait, queue, lockVars, bossVars, failed >>

Take(q) ==
  /\ pg[q].pc = "take"
  /\ \/ /\ queue = << >>          \* it goes on with the fault it had before
        /\ failed' = TRUE
        /\ UNCHANGED << wait, queue, pg >>
     \/ /\ queue # << >> /\ Head(queue) = Boss
        /\ queue' = Tail(queue)
        /\ wait' = [wait EXCEPT ![Boss] = @ + 1]
        /\ To(q, "quit")
        /\ UNCHANGED failed
     \/ /\ queue # << >> /\ Head(queue) # Boss
        /\ queue' = Tail(queue)
        /\ pg' = [pg EXCEPT ![q].pc = "pick", ![q].of = Head(queue)]
        /\ UNCHANGED << wait, failed >>
  /\ UNCHANGED << swapVars, c, at, page, ok, ready, lockVars, bossVars >>

(* The first frame that is not in use, or P3SwapOut if there is none.  The *)
(* mutant does not mark the frame.                                         *)
PickOnly(f) == UNCHANGED used
Pick(f) == used' = [used EXCEPT ![f] = TRUE]

TakeFrame(q) ==
  /\ pg[q].pc = "pick" /\ pool = Free
  /\ IF FreePool # {}
     THEN /\ Pick(Min(FreePool))
          /\ pg' = [pg EXCEPT ![q].pc = "in", ![q].frame = Min(FreePool), ![q].isNew = TRUE]
          /\ UNCHANGED pool
     ELSE /\ pool' = IF c.held THEN q ELSE Free
          /\ To(q, "out")
          /\ UNCHANGED used
  /\ UNCHANGED << table, frames, mapped, freeFrames, infoVars, blockVars, mmuVars, disk,
                  c, at, faultVars, swap, bossVars, failed >>

SwapOut(q) ==
  /\ pg[q].pc = "out" /\ swap = Free
  /\ swap' = q /\ To(q, "hand")
  /\ UNCHANGED << swapVars, c, at, faultVars, pool, bossVars, failed >>

(* It evicts the page in the target (for ever looking for one if all are   *)
(* busy), and writes it to its block if it is dirty. *)
EndSwapOut(q, f) ==
  /\ Claim(f)
  /\ pg' = [pg EXCEPT ![q].pc = "in", ![q].frame = f, ![q].isNew = FALSE, ![q].buf = Zero]
  /\ swap' = Free /\ pool' = IF pool = q THEN Free ELSE pool

ChooseTarget(q) ==
  /\ pg[q].pc = "hand" /\ NotBusy # {}
  /\ TurnHand /\ table' = Evicted(Target)
  /\ IF dirty[Target] /\ blockNum[Target] # None
     THEN /\ pg' = [pg EXCEPT ![q].pc = "outmap", ![q].frame = Target]
          /\ UNCHANGED << busy, blockNum, lockVars >>
     ELSE EndSwapOut(q, Target)
  /\ UNCHANGED << frames, poolVars, blockVars, dirty, content, disk, c, at, faultVars,
                  bossVars, failed >>

OutMap(q) ==
  /\ pg[q].pc = "outmap" /\ FrameMap(q, "outcopy")
  /\ UNCHANGED << table, frames, used, freeFrames, infoVars, blockVars, mmuVars, disk, c, at,
                  faultVars, lockVars, bossVars, failed >>

OutCopy(q) ==
  /\ pg[q].pc = "outcopy" /\ FrameUnmap(q)
  /\ pg' = [pg EXCEPT ![q].pc = "write", ![q].buf = content[pg[q].frame]]
  /\ UNCHANGED << table, frames, used, freeFrames, infoVars, blockVars, mmuVars, disk, c, at,
                  faultVars, lockVars, bossVars >>

WriteOut(q) ==
  /\ pg[q].pc = "write"
  /\ LET f == pg[q].frame
     IN  /\ disk' = [disk EXCEPT ![blockNum[f]] = pg[q].buf]
         /\ dirty' = [dirty EXCEPT ![f] = FALSE] /\ ref' = [ref EXCEPT ![f] = FALSE]
         /\ EndSwapOut(q, f)
  /\ UNCHANGED << table, frames, poolVars, hand, blockVars, content, c, at, faultVars,
                  bossVars, failed >>

(* P3SwapIn: the page has a block, or gets one if there is one left. *)
SwapIn(q) ==
  LET p == pg[q].of  g == page[p]  f == pg[q].frame
  IN  /\ pg[q].pc = "in" /\ swap = Free
      /\ \/ /\ BlocksOf(p, g) # {}
            /\ swap' = q
            /\ pg' = [pg EXCEPT ![q].pc = "readmap", ![q].buf = disk[Min(BlocksOf(p, g))]]
            /\ UNCHANGED << table, busy, blockNum, blockVars, ok, wait >>
         \/ /\ BlocksOf(p, g) = {} /\ freeBlocks = 0
            /\ busy' = [busy EXCEPT ![f] = FALSE]
            /\ Answer(q, FALSE)
            /\ UNCHANGED << table, blockNum, blockVars, swap >>
         \/ /\ BlocksOf(p, g) = {} /\ freeBlocks # 0
            /\ Allocate(p, g) /\ Settle(p, g, f, FirstFree)
            /\ To(q, "zeromap")
            /\ UNCHANGED << swap, ok, wait >>
  /\ UNCHANGED << frames, poolVars, hand, mmuVars, disk, c, at, page, queue, ready, pool,
                  bossVars, failed >>

ReadMap(q) ==
  /\ pg[q].pc = "readmap" /\ FrameMap(q, "readcopy")
  /\ UNCHANGED << table, frames, used, freeFrames, infoVars, blockVars, mmuVars, disk, c, at,
                  faultVars, lockVars, bossVars, failed >>

ReadCopy(q) ==
  LET p == pg[q].of  g == page[p]
  IN  /\ pg[q].pc = "readcopy" /\ FrameUnmap(q)
      /\ Touch(pg[q].frame, pg[q].buf)
      /\ Settle(p, g, pg[q].frame, Min(BlocksOf(p, g)))
      /\ swap' = Free
      /\ pg' = [pg EXCEPT ![q].pc = "update", ![q].buf = Zero]
  /\ UNCHANGED << frames, used, freeFrames, hand, blockVars, disk, c, at, faultVars, pool,
                  bossVars >>

(* P3_EMPTY_PAGE: the Pager zeroes the frame, *)
ZeroMap(q) ==
  /\ pg[q].pc = "zeromap" /\ FrameMap(q, "zerocopy")
  /\ UNCHANGED << table, frames, used, freeFrames, infoVars, blockVars, mmuVars, disk, c, at,
                  faultVars, lockVars, bossVars, failed >>

ZeroCopy(q) ==
  /\ pg[q].pc = "zerocopy" /\ FrameUnmap(q)
  /\ Touch(pg[q].frame, Zero) /\ To(q, "update")
  /\ UNCHANGED << table, frames, used, freeFrames, infoVars, blockVars, disk, c, at,
                  faultVars, lockVars, bossVars >>

(* and completes the page table entry. *)
Update(q) ==
  /\ pg[q].pc = "update"
  /\ freeFrames' = IF pg[q].isNew THEN freeFrames - 1 ELSE freeFrames
  /\ table' = [table EXCEPT ![pg[q].of][page[pg[q].of]] = pg[q].frame]
  /\ Answer(q, TRUE)
  /\ UNCHANGED << frames, used, mapped, infoVars, blockVars, mmuVars, disk, c, at, page, queue,
                  ready, lockVars, bossVars, failed >>

PagerStep(q) ==
  \/ Ready(q) \/ Take(q) \/ TakeFrame(q) \/ SwapOut(q) \/ ChooseTarget(q) \/ OutMap(q)
  \/ OutCopy(q) \/ WriteOut(q) \/ SwapIn(q) \/ ReadMap(q) \/ ReadCopy(q) \/ ZeroMap(q)
  \/ ZeroCopy(q) \/ Update(q)
-----------------------------------------------------------------------------
(* P3_VmShutdown.  P3PagerShutdown empties the queue, *)
VmShutdown ==
  /\ boss = "up"
  /\ c.late \/ \A p \in Users : at[p] = "none" \/ (at[p] = "run" /\ p \notin c.quits)
  /\ queue' = << >> /\ boss' = "abort" /\ turn' = 0
  /\ UNCHANGED << swapVars, c, at, page, ok, wait, ready, lockVars, pg, failed >>

(* and for each pager enters a request to stop, *)
Abort ==
  /\ boss = "abort" /\ turn < Cardinality(c.pagers)
  /\ queue' = Append(queue, Boss) /\ boss' = "signal"
  /\ UNCHANGED << swapVars, c, at, page, ok, wait, ready, lockVars, pg, turn, failed >>

(* and tells the pagers (the mutant does not), *)
AbortInsertOnly ==
  /\ boss = "signal" /\ boss' = "await"
  /\ UNCHANGED << swapVars, c, at, page, ok, wait, queue, ready, lockVars, pg, turn, failed >>

AbortSignal ==
  /\ boss = "signal" /\ ready < MaxFaults
  /\ ready' = ready + 1 /\ boss' = "await"
  /\ UNCHANGED << swapVars, c, at, page, ok, wait, queue, lockVars, pg, turn, failed >>

(* waits for the answer, and joins a pager that has quit. *)
AwaitAbort ==
  /\ boss = "await" /\ wait[Boss] > 0 /\ c.own
  /\ wait' = [wait EXCEPT ![Boss] = @ - 1]
  /\ boss' = "abort" /\ turn' = turn + 1
  /\ UNCHANGED << swapVars, c, at, page, ok, queue, ready, lockVars, pg, failed >>

(* Then it frees the mutexes, which must have no waiters, and all tables.  *)
Clean ==
  /\ boss = "abort" /\ turn = Cardinality(c.pagers)
  /\ queue' = << >> /\ ready' = 0 /\ boss' = "off"
  /\ Reset(0, 0)
  /\ table' = [p \in Users |-> NoTable]
  /\ UNCHANGED << hand, disk, c, at, page, ok, wait, lockVars, pg, turn, failed >>

BossStep == Abort \/ AbortSignal \/ AwaitAbort \/ Clean

VMNext ==
  /\ ~failed
  /\ \/ VmInit \/ VmShutdown \/ BossStep
     \/ \E p \in Users : UserStep(p) \/ UserChoice(p)
     \/ \E q \in Pagers : PagerStep(q)

(* The scheduler and the mutexes let everybody go on who can: nobody has   *)
(* to write, to fault or to quit, and virtual memory need not be shut      *)
(* down.                                                                   *)
VMSpec ==
  /\ VMInit /\ [][VMNext]_vmVars
  /\ WF_vmVars(~failed /\ BossStep)
  /\ \A p \in Users : WF_vmVars(~failed /\ UserStep(p))
  /\ \A q \in Pagers : WF_vmVars(~failed /\ PagerStep(q))

-----------------------------------------------------------------------------
(* No two pages share a frame, and no pager works on a frame of a page     *)
(* other than the one it is for ("we don't want multiple pagers to choose  *)
(* the same frame", phase3d.c:18).                                         *)
InHand(f) == {q \in Pagers : pg[q].frame = f}

FrameOwnedOnce ==
  \A f \in Frames :
    /\ Cardinality({x \in Users \X Pages : InCore(x[1], x[2]) /\ table[x[1]][x[2]] = f}) <= 1
    /\ Cardinality(InHand(f)) <= 1
    /\ \A q \in InHand(f), p \in Users : f \in Resident(p) => pg[q].of = p

(* Blocks, frames and page tables agree: the free blocks are counted, a    *)
(* page has at most one block, and a page in core knows its block.         *)
BlocksExact ==
  /\ boss \notin {"new", "off"}
       => freeBlocks = c.blocks - Cardinality({b \in Blocks : block[b] # NoPage})
  /\ \A p \in Users, g \in Pages :
       /\ Cardinality(BlocksOf(p, g)) <= 1
       /\ InCore(p, g) =>
            LET f == table[p][g]
            IN  used[f] /\ ~busy[f] /\ BlocksOf(p, g) = {blockNum[f]}

(* Every frame in use is that of a page, or in the hand of a pager: the    *)
(* process that had it has given it back ("free all frames in use by the   *)
(* process", phase3c.c:169).                                               *)
FramesConserved ==
  (boss = "up" /\ \A p \in Users : at[p] # "swapped") =>
    \A f \in Frames : used[f] => InHand(f) # {} \/ \E p \in Users : f \in Resident(p)

(* No assertion fails: a pager still has the frame that it has mapped, and *)
(* there is a fault in the queue for each V of its semaphore.              *)
AssertsHold == c.late \/ ~failed

(* Who has a fault is answered: it goes on with the page, or ends.         *)
FaultAnswered ==
  \A p \in Users : (at[p] = "fault" /\ ~c.late) ~> at[p] \in {"run", "quit"}

(* P3_VmShutdown comes to its end, and no pager is left. *)
VmStops ==
  (boss = "abort" /\ ~c.late)
     ~> boss = "off" /\ \A q \in Pagers : pg[q].pc = "quit"

(* Also if processes still have faults: P3PagerShutdown "kills the pagers  *)
(* and cleans up" (phase3c.c:521).                                         *)
PagersKilled == boss = "abort" ~> boss = "off" /\ \A q \in Pagers : pg[q].pc = "quit"

(* The clock hand finds a frame: "the frame that was selected is returned" *)
(* (phase3d.c:295).                                                        *)
HandFinds == \A q \in Pagers : pg[q].pc = "hand" ~> pg[q].pc # "hand" \/ failed

(* Wherever a page is - in a frame, on its way, in a block or nowhere yet  *)
(* - its contents are there, and change only when its process runs: what   *)
(* module Memory promises.                                                 *)
Outgoing(p, g) ==
  {q \in Pagers : /\ pg[q].pc \in {"outmap", "outcopy", "write"}
                  /\ block[blockNum[pg[q].frame]] = << p, g >>}

Zeroing(p, g) ==
  \E q \in Pagers : pg[q].pc \in {"zeromap", "zerocopy"} /\ pg[q].of = p /\ page[p] = g

Holds(p, g) ==
  IF table[p] = NoTable \/ Zeroing(p, g) THEN Zero
  ELSE IF InCore(p, g) THEN content[table[p][g]]
  ELSE IF Outgoing(p, g) # {}
       THEN LET q == CHOOSE q \in Outgoing(p, g) : TRUE
            IN  IF pg[q].pc = "write" THEN pg[q].buf ELSE content[pg[q].frame]
  ELSE IF BlocksOf(p, g) # {} THEN disk[Min(BlocksOf(p, g))] ELSE Zero

M == INSTANCE Memory WITH mem <- [p \in Users |-> [g \in Pages |-> Holds(p, g)]],
                          running <- {p \in Users : at[p] = "run"}

PagesKept == M!MemSpec
=============================================================================
