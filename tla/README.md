# small-os-simulator: specifications, model checking and proofs

The repository is a teaching operating system that runs on the USLOSS machine
simulator, written in C in three phases. This directory holds its TLA+
specification: what the kernel does, which properties make it correct, TLC
configurations that check them on small instances, and proofs for every
instance where TLAPS reaches.

## 1. The system

| component | code | state | operations |
|---|---|---|---|
| contexts | `phase1a.c` | `contexts[]` (isBeingUsed, stack), `currentCid`, the interrupt flag of the PSR | P1ContextCreate, Switch, Free, launch, P1DisableInterrupts, P1EnableInterrupts |
| process table, scheduler | `phase1b.c` | `processTable[]` (state, priority, tag, parent, children, quitChildren, cid), `dispatchQueue`, `isTheFirstProcess` | P1_Fork, P1_Quit, P1GetChildStatus, P1SetState, P1Dispatch, P1_GetPid, P1_GetProcInfo |
| semaphores | `phase1c.c` | `sems[]` (isBeingUsed, value, list of waiting pids) | P1_SemCreate, SemFree, P, V, SemName |
| devices, sentinel, join | `phase1d.c` | `devSems`, `devStatus`, `okToAbort`, `ticks` | startup, sentinel, DeviceHandler, P1_WaitDevice, P1_WakeupDevice, P1_Join |
| system calls, user processes | `phase2a.c` | handler table | P2_SetSyscallHandler, P2_Spawn, P2_Wait, P2_Terminate, stubs |
| sleep, clock driver | `phase2b.c` | `SPInfoArray`, its mutex, one semaphore per slot | P2ClockInit, P2ClockShutdown, ClockDriver, P2_Sleep |
| disk drivers | `phase2c.c` | two request queues, their mutex and ready semaphores, `diskSize` | P2DiskInit, P2DiskShutdown, DiskDriver, P2_DiskRead, Write, Size |
| startup, semaphore calls | `phase2d.c` | the table of user semaphores | P2_Startup, semaphore stubs |
| page tables, VM start | `phase3a.c` | `pageTables[]`, `initialized`, `P3_vmStats` | P3_VmInit, P3_VmShutdown, P3_AllocatePageTable, P3_FreePageTable |
| faults without replacement | `phase3b.c` | none of its own | fault handler of phase 3b |
| frames and pagers | `phase3c.c` | `framePool`, fault queue and its semaphores | P3FrameInit, Map, Unmap, FreeAll, FaultHandler, P3PagerInit, Shutdown, Pager |
| swap and replacement | `phase3d.c` | `blockPool`, `framesInfoArr`, the clock hand | P3SwapInit, Shutdown, FreeAll, Out, In |
| USLOSS | external | the machine, its devices, the MMU | interrupts, device input and output, context switch |

How they interact. There is one CPU. A function of phase 1 protects itself by
disabling interrupts, so a region with interrupts disabled is atomic; phases 2
and 3 protect themselves with phase 1's semaphores. Interrupt handlers run on
the stack of whichever process is current, call `P1_V` and `P1Dispatch`, and
may thus switch away inside a handler. `P1_Fork` and `P1GetChildStatus` call
up into phase 3 through `P1ContextCreate` and `P1ContextFree`
(P3_AllocatePageTable, P3_FreePageTable); phase 3 calls down into the disk
driver of phase 2.

What is hard in it: interrupts that come between two regions of one call;
`P1Dispatch`, which enables interrupts before it switches; handlers nested on
stacks that come back in the middle of a call; information read with interrupts
enabled and used later; the three family lists that every quit edits; the
barging semantics of `P1_V`; the shutdown protocols of the clock, disk and pager
processes; the lock order of pager and swap. The list with lines is under
"hazards" in PROJECT.json.

What makes the parts correct:

* scheduler: the queue holds exactly the runnable processes, the best one runs,
  nobody of the best priority starves;
* process table: the family lists are exact, slots and contexts are taken and
  given back together, a joining parent is told of every child, every process
  that has quit can be reaped;
* semaphores: nobody waits off every list, no wakeup is lost;
* switch: the code that executes is that of the process the table calls current;
* sentinel: the machine halts only when nobody is left;
* clock, disk, pager: every request is answered once, a shutdown ends;
* paging: a frame belongs to at most one page, a page's content is where the
  tables say it is, frames and blocks are conserved.

## 2. The modules

```
ReadyQueue  <-  ProcTable  <-  Kernel  <-  Devices  <-  DevicesMC
                ^    ^         ^    ^
                |    |         |    '- KernelMC
                |    '- ProcTableMC
                |              |              Disk   <-  DiskMC
        ProcTableProofs <- KernelProofs         ^
                ^              ^                |
                |       DevicesProofs       DiskProofs
                |      (extends Devices)        |
           QueueLemmas  <-----------------------+
                ^
                '----- VMProofs <- MemoryProofs
                          |
                          v
                Swap <-  VM  <- VMMC          ClockProofs -> Clock <- ClockMC
                          |
               Memory  <--'  (instantiated)
```

**ReadyQueue** is the dispatch queue as operators on sequences of pids:
`Insert`, `Swap`, `Shift`, `RemoveByPID` are the functions of the same name,
`HighestIndex` the search loop of `P1Dispatch` and `Pick` its three branches.
Index 1 is `dispatchQueue[0]`.

**ProcTable** is the abstract specification of the kernel: the process table,
the dispatch queue and the table of contexts, with one action for each thing
the code does to them inside one region with interrupts disabled. `Fork`,
`QuitFirst` (P1_Quit by process 0), `QuitOther`, `Reap` (P1GetChildStatus that
finds a child), `Block` (P1_P on 0), `JoinWait` (P1_Join that waits), `Wake`
(P1_V with a waiter) and `Dispatch` include the call of P1Dispatch they end
with; `DispatchOn` is that call up to the point where it enables interrupts.
P1_P sometimes calls P1Dispatch in a later region than the one in which it
leaves the queue: then `pending` is TRUE in between. The choice of
a victim is not left open anywhere: slots, contexts and the next process are
chosen as the code does. Processes may call in any order; `P1_GetPid` is
modelled as written (`GetPid`), and so is its mistake.

**Kernel** is the machine that executes this: which context runs (`CID`), where
the code of each context will go on (`pc`), the calls of P1Dispatch left on its
stack (`sw`), and the semaphores. A step is a region with interrupts disabled,
or one read of shared state outside such a region: P1_P is `PCheck` (its
unprotected check), `PLoop` (one iteration) and `PDispatch` (the call after
`enable`); P1_Join is `JoinFirst` (its first iteration, one region) and
`JoinAgain` (the second, whose P1GetChildStatus always finds a quit child or
one of the other tag, which is the property `JoinFindsChild`: that P1_Join
would otherwise wait with interrupts enabled); the end of P1Dispatch is `EvalTarget` (the argument is read)
and `ContextSwitch`. `DeviceInterrupt` and `QuantumInterrupt` are enabled
between any two steps, also when the interrupted context is itself inside
P1Dispatch, up to `MaxNest` of them nested. The sentinel is `SentinelFork`,
`SentinelStep` (its two checks and two calls of P1GetChildStatus) and
`SentinelQuit`; every other process makes any of the calls in `Calls` in any
order.

**Devices** extends Kernel with what its interrupts leave out: the clock handler
with its tick counter, `devStatus` and `okToAbort`. A P1Dispatch inside a handler
comes back on the handler's stack, with interrupts enabled: `handlers[c]` is the
stack of handlers of context c that wait for this, each with the point where it
goes on (`HandlerGoesOn`) and, for the property only, the tick it counted.
`TickWakes` and `TickPasses` are the handler up to its first P1Dispatch,
`WakeupDevice` is P1_WakeupDevice. P1_WaitDevice is Kernel's with the status that
it reads afterwards (`Wait` if it does not block, otherwise `WaitAgain`,
`WaitDispatch` and `Read`, a step of its own because P1_P comes back with
interrupts enabled). A disk is driven as in phase 2: a request (`Request`), one
interrupt that answers it, one P1_WaitDevice.

**Disk** is phase 2c: the request queues of both disks with their semaphore
(`Insert`, `SignalReady`, `RemoveWait`, `Take`), the driver's loop with its
transfers sector by sector (`Seek`, `NextSector`, `AskTracks`, `Answer`, and
`GoOn`, which reads the request once more after the answer), the callers
P2_DiskRead, P2_DiskWrite and P2_DiskSize (`Transfer`, `AskSize`, `Return`), and
P2_Startup with P2DiskInit and P2DiskShutdown (`boss`, `turn`). It stands on
phase 1 through what Kernel and Devices show of it: P takes a unit when there is
one, a driver reads the status of its own request. `info` is the struct on the
stack of the process that waits: `at` says whether that process has returned.
Every operation of the device may fail. P2_Startup stops the clock before the
disks, and P1_WaitDevice has one `okToAbort` for all devices: `ClockShutdown`
may catch any drivers in their wait, and DiskDriverWait takes that for a success
(`Success`), whether the arm or the sector has moved or not. `aborted` says which
drivers it has caught; a driver asks it once (`DriverWait`).
What a driver moves is recorded as the list of sectors in the order of the
buffer (`moved`), not as their contents.

**Clock** is phase 2b: P2_Sleep up to the release of the mutex (`Sleep`) and
from the wait on (`Awake`), the loop of ClockDriver (`WaitDevice`, `Lock`,
`Scan` for one slot, `Unlock`), the clock device with its interrupts (`Tick`),
and P2ClockShutdown (`Shutdown`, `ShutdownLock`, `FreeAll`). The clock interrupts
whatever P2_Startup does: its P1_WakeupDevice clears the abort that the driver
may not have seen yet, and so does that of other devices (`OtherInterrupt`); an
assertion that fails stops the model (`failed`). Since times only
matter as differences, each is kept relative to the clock: `left[p]` is
`startTime + restTime` of the slot less the present, the time the driver was
told is kept as its age. So the model is finite although the clock never stops
by itself, and the driver may look at a slot long after it was told the time. `owed`
is what is left of the sleep the process has asked for, counted down without the
program's arithmetic: `NeverEarly` compares the two. `Wrap` is the product
`seconds*1000000` in an int. `Late` opens the shutdown to processes that sleep
when it begins, or go to sleep after it.

**Memory** says what virtual memory promises: each process has pages of its
own, zero at first, that change only by its own writes until it ends or
virtual memory is shut down.

**Swap** holds the state of phase 3 - page tables, `framePool`,
`framesInfoArr`, the blocks of the swap disk, the clock hand, and the MMU's
reference bits, dirty bits and frames - and the regions under
`framePoolMutex` and `blockPoolMutex` as operators: the clock algorithm
(`Steps`, `Target`, `TurnHand`), `Evicted` and `Claim` of P3SwapOut, `Allocate`
and `Settle` of P3SwapIn, `SwapFreeAll`, `FrameFreeAll`.

**VM** puts processes around it: users that write, fault, wait, go on or end
(`Fault`, `Signal`, `Return`, `Quit`, `ReapSwap`, `ReapFrames`), the queue of
faults, the pagers, and the process of P3_VmInit and P3_VmShutdown. The Pager is
one step from each place where it may have to wait to the next: the semaphore of
the queue (`Ready`, `Take`), framePoolMutex (`TakeFrame`, and `FrameMap` and
`FrameUnmap` wherever they are called: `OutMap`, `OutCopy`, `ReadMap`,
`ReadCopy`, `ZeroMap`, `ZeroCopy`), blockPoolMutex (`SwapOut`, `SwapIn`) and the
disk (`WriteOut`). `ChooseTarget` takes the choice of a frame and the change of
its page's table together, though interrupts are enabled in between
(`phase3d.c:337-364`): the process may only write to that page once more, which
makes no difference because a page in core is dirty anyway (`Dirtied`, section
4). `pool` and `swap` are who has the two mutexes across such a
place; a region that ends before the next wait only needs the mutex to be free.
P3SwapOut with a dirty page, as called from the Pager of `phase3c.c`, never
returns (run `vm_deadlock`). The Pager in the comment above it
(`phase3c.c:574-590`) calls it without the mutex, and so
does the compiled phase 3c of the course that phase 3d is linked with. Both
are in the model: `held` says which. `PagesKept` is the refinement: Holds(p, g)
is where the contents of a page are to be found - in its frame, in the hands of
the pager that moves it, in its block, or nowhere yet - and what it says is the
`mem` of Memory.

The model of the kernel sets `misled` and stops when the code takes one process for another:
when P1_GetPid gives a caller somebody else's pid, or P1ContextSwitch gets a cid
that is not that of the queue's head any more. Those two are properties of their own (`GetPidIsCurrent`, and
`SwitchesToHead` of the run `stale_switch`); after them every
property of the kernel is off, and the other runs ask whether the rest of the
kernel works as long as neither has happened.

`Mutant` operators (marked so in the comments) stand next to the definitions
they corrupt; no specification uses them.

## 3. The runs

Four processes (the sentinel, a parent, a child, a grandchild or a second
child) are enough for adoption, for two waiters with a third process that
wakes them, and for the reuse of a slot while others live; two priorities
besides the sentinel's for preemption and rotation; both tags where P1_Join
matters. NoLostWakeup is checked with the wakeups of devices, in the run devices,
where a semaphore counts to two; with processes that call P1_V on it, and for
any number of processes, tags and units, it is proved as long as nobody calls
P1_SemFree (KernelProofs).

| run | module | bounds | shows |
|---|---|---|---|
| proc_table | ProcTable | 4 processes, priorities 2, 3, one tag | queue, family lists, contexts and joins stay exact in every order of calls; a quit process is final; a preempted process goes to the end of the queue, as the comment at phase1b.c:397 has it, although the code swaps; under fairness of the clock, who is entitled to run gets to the head again and again |
| kernel_sched | Kernel | 3 processes, interrupts nested two deep, one device and one user semaphore | the code that runs is that of the process the table calls current, whatever interrupts come; a process woken in P1_Join finds a quit child; the sentinel never quits with children, and the machine never halts with somebody blocked; the lists of the semaphores hold exactly the blocked processes |
| kernel_calls | Kernel | 3 processes, all calls, both tags, 2 semaphores | Kernel implements ProcTable (`Spec` as a property), so what holds of the table holds of the kernel; with both tags, too, nobody waits in P1_Join for a child that has quit |
| devices | Devices | 3 processes, clock and disk, aborts, one handler waiting per stack, wakeup every 3 and quantum of 2 ticks, values up to 2 | a disk driver that is not told of an abort reads the status of its own request; the code that runs is that of the current process also when handlers come back in the middle; no wakeup is lost |
| disk | Disk | 2 requesters, 2 disks of 2 tracks with 2 sectors, transfers of 2 sectors, either disk may be absent, every device operation may fail, the clock's abort may meet each driver | each request is in one place and done once, the ready semaphore counts the queue, a transfer that no abort has met moves exactly what was asked for, no seek beyond the disk; every request is answered, and the shutdown ends if no request comes after it has begun |
| clock | Clock | 2 slots, sleeps of 1 and 2 seconds of 3 steps, an int of 16 steps, an interrupt every 2 steps, up to 2 wakeups behind and 3 steps from a wakeup to the end of its scan, sleepers before, during and after the shutdown | nobody is woken early, who sleeps is in its slot or has its unit and never both, every sleep ends; the shutdown neither hangs nor leaves a driver behind: it ends with the driver stopped, or an assertion stops the machine |
| vm | VM | 2 processes of 2 pages, up to 3 frames, 3 blocks and 2 pagers, in four settings (below) | what a process finds in a page is what it wrote (Memory), every fault is answered, no two pages share a frame, blocks, frames and tables agree, no assertion fails, the shutdown ends |

Deadlock is checked in every run of the kernel; a machine that has halted
stutters. In Disk, Clock and VM nothing is left to do after the shutdown, so it
is not checked there; that everybody gets on is what their liveness properties say.

Bounds: `MaxProc` is P1_MAXPROC, `MaxSem` P1_MAXSEM, `NumDev` the number of
device semaphores (8 in the code); `MaxValue` bounds the value of a semaphore
and `MaxNest` the interrupts nested on one stack: both only switch off
interrupts or calls of V beyond them. The unused fields of a PCB are left as
they are, so that a state repeats. `MaxFrames` bounds the clock handlers that
wait on one stack (an interrupt that would need one more waits): one is enough
for a handler to come back late. `WakeTicks` and
`QuantumTicks` are 5 and 4 in the code; the run `devices` uses 3
and 2, which still lets every combination of the two happen. `ticks` itself has
no bound: `Count` folds the values that the code cannot tell apart. One status of
the disk is enough to tell an old status from a new one: a driver that reads too
early has `"none"` on its first request.

In Disk two sectors are enough to stay inside a track, to cross into the next
one, and to be one too many for the last sector. In the run disk, `Urgent`, the
processes that can run between the driver's V and its last read of the request,
is empty, and `Late`, requests when the shutdown has begun and after, is FALSE:
otherwise the code does not answer every request and not end every shutdown,
which is what the run disk_stale and, below, `ShutdownEnds` with `Late` show.
RequestInOnePlace is proved with every `Urgent`; TransferExact, SeeksOnDisk and
that no request is done twice with every `Late` too.

In Clock, `MaxTold` and `MaxLag` say how late the driver may be; beyond them the
clock waits for it. A sleep of 2 seconds lasts three interrupts, so one
that is woken by the wrong one is seen, and the longest still fits in half of `Wrapped`.
(With `Seconds = {3}` it does not: in the code this takes 2148 seconds.) `Late`
is TRUE in the run clock; clock_abort has it FALSE, so that what it shows is not
the fault of a sleeper.

The run vm has four settings (VMMC), each with `MaxFaults` 2: *Scarce*, two
frames and two blocks for three pages, one pager, so that pages are replaced and
read back, and a fault finds no swap space; *Passing*, one frame for two
processes that end and are forked again; *Ample*, two pagers and a frame and a
block for every page, with the Pager as it is in `phase3c.c`, which has nothing
to replace there; *Late*, a shutdown while processes fault and end, of which only
the safety properties are asked. The first two have `held` FALSE.
Two pages are enough for the clock hand to pass one, and one value besides zero
to see a page that is lost, mixed up or not zeroed. Settings with several pagers
that replace pages, or with `held` and replacement, are those of the violation
runs vm_deadlock and vm_steal.

Fairness, in ProcTable: the only assumption is weak fairness of `Dispatch(TRUE)` in
`FairSpec`. The clock of USLOSS interrupts for ever and DeviceHandler calls
P1Dispatch(TRUE) on every fourth tick, whatever the processes do: no fairness is
asked of any process.

Fairness, in Disk: each driver, each requester with a request and P2_Startup go
on when they can. Drivers and P2_Startup have priority 2, processes of one
priority take turns (`RoundRobin`), and a user process of worse priority runs
while those wait, unless some process computes for ever, which is ruled out. No
requester has to make a request, no device has to succeed, and the shutdown need
not begin. Weak fairness is enough because nobody competes for
a unit here: the ready semaphore has one taker, each answer one.

Fairness, in Clock: the clock ticks, whether there is a driver or not, the driver
(priority 2) goes on when it can, and a process whose semaphore has a unit
returns from P1_P. P2_Startup gets the mutex if it is free again and again
(strong fairness): the driver is done with a scan long before the next wakeup,
and its P1_V makes P2_Startup, which has the same priority, runnable. Nobody has
to sleep or to shut down. Within `MaxTold` and `MaxLag` a clock that has nobody
to wait for it goes on: with the driver stopped it may come to a stop, which no
property notices, because nothing that is asked happens after that.

Fairness, in VM: each pager (priority 2, with the drivers), each process that
waits for an answer or ends, and the process that shuts down. Weak fairness is
enough although the mutexes of phase 3 have several takers: a pager in `SwapIn`
or a `FrameMap` is passed over only as often as there are other faults, and each
of these ends.

What disagrees with a comment or a test of the repository:

| run | what TLC shows |
|---|---|
| clock_abort | an interrupt of the clock between P2ClockShutdown's abort and the driver's look at it (`phase1d.c:123`) clears it: the driver goes on, and calls P1_P for a mutex that has been freed |
| disk_stale | a process returns between the driver's V and its last read of the request, and what is there then may stop the driver |
| stale_switch | an interrupt between the read of the cid and the switch: P1Dispatch switches to a process that is not the head of the queue |
| vm_deadlock | the pager holds framePoolMutex when it calls P3SwapOut, which waits for it in P3FrameMap if the page is dirty: the first page that is replaced after a write stops virtual memory |
| vm_steal | with two pagers, a free frame that one has taken is not busy until its P3SwapIn: the other replaces "the page" in it, and two pages share the frame |

More properties do not hold. They are stated in the modules and have no run of
their own; a configuration with the constants below shows each:

* `ZombiesReapable` (ProcTable): P1_Quit hands only the living children on; the
  children that have quit before their parent stay in a list nobody reads, their
  slots leak. `Spec` with MaxProc 3, ForkPrios {2, 3}, Tags {0}.
* `GetPidIsCurrent` (Kernel): a parent whose child got a lower slot gets the
  child's pid from P1_GetPid. Calls.cfg with MaxProc 4, ForkPrios {1, 2}, Tags {0}.
* `WaitsOnUsed` (Kernel): P1_SemFree between the check of P1_P and its region
  leaves the process waiting on a free semaphore. Calls.cfg.
* `JoiningHasChild` (Kernel): P1_Join without children waits for ever. Calls.cfg.
* `QuantumEveryFour` (Devices): the clock handler comes back from
  P1_WakeupDevice and decides about the quantum by the ticks of other handlers.
  Devices.cfg with NumDev 2, WakeTicks 5, QuantumTicks 4, MaxFrames 2, Aborts FALSE.
* `TicksCounted` (Devices): `if(ticks == 20) ticks = 0` runs with interrupts
  enabled after a P1Dispatch, and a tick between the two is lost. The same
  constants.
* `AbortStays` (Devices): `okToAbort` is one flag for all devices, and a disk
  driver is told of the abort of the clock's waiter. Devices.cfg; `AnswerIsRead`
  therefore leaves the abort out. What comes of it is in clock_abort and in the
  next one.
* `OkMeansMoved` (Disk): the abort of P2ClockShutdown reaches a disk driver,
  DiskDriverWait (`phase2c.c:244`) takes the failed operation for a success, and
  the request is answered with P1_SUCCESS though its sectors have not been moved.
  One requester, Counts {1}. TransferExact is the same without that request.
* `ReturnMeansDone` (Disk): P2_DiskRead returns P1_SUCCESS whatever the driver has
  answered (`phase2c.c:401`). One requester, Counts {1}.
* `ShutdownEnds` with `Late = TRUE` (Disk): P2DiskShutdown drops queued requests
  but not their units in the semaphore: a driver finds an empty queue, quits, and
  the shutdown waits for ever. One requester, Tracks 1, Counts {1}.
* `NeverEarly` with `Seconds = {3}` (Clock): the product overflows
  (`phase2b.c:163`), and the next scan of the driver ends the sleep.
* `ClockStops` with a sleeper (Clock): P1_SemFree of its semaphore fails.
  ClockAbort.cfg with `Late = TRUE`.
* `FramesConserved` (VM): P3_FreePageTable calls P3SwapFreeAll first, which
  clears incore, so P3FrameFreeAll finds no frame to give back: VM.cfg with
  `Scenarios <- Ending`. A frame taken for a process that gets no swap space
  (`phase3c.c:642`) is not given back either: `Scenarios <- Fatal`.
* `PagersKilled` (VM): P3PagerShutdown drops faults but not their units in the
  semaphore: a pager finds an empty queue and its assertion stops the machine.
  VM.cfg with `Scenarios <- Underfoot`.
* `HandFinds` (VM): with two pagers and one frame, which one of them has chosen
  and not filled yet, the hand of the other goes round for ever, and holds the
  mutex that the first one needs to make the frame not busy. VM.cfg with Users
  {u1, u2, u3}, NumPages 1, MaxFrames 1, MaxBlocks 2, Values {0}, MaxFaults 3 and
  `Scenarios <- Busy`.
* `VmStops` (VM) when `own` is FALSE: P3_Startup shuts virtual memory down
  (`phase3a.c:373`), but the pagers are children of the process that called
  P3_VmInit, and of process 0 when that has quit: P1_Join in P3PagerShutdown
  waits for ever. VM.cfg with `Scenarios <- Adopted`.

## 4. The proofs

QueueLemmas has what several proofs need of sequences as queues without
repetitions (`Append` and `Tail` as operations on the set of entries) and of the
least of a set of numbers.

ProcTableProofs begins with the operators of ReadyQueue: each returns a
sequence of pids without repetitions, with the entries it should have (`Insert`
adds one, `RemoveByPID` takes one out, `Pick` keeps all), and after `Pick` the
head has the best priority. That rests on `MaxProcAssumption` only.

It then proves of `Spec`, for every `MaxProc`, `ForkPrios` and `Tags`
that satisfy the three assumptions of the modules: type correctness, and the
invariants QueueExact, HeadBest, CidIsPid, ListsExact and JoinNotMissed, and the
action properties QuitIsFinal and PreemptedGoesLast.

The inductive invariant `Inv` is their conjunction with `ParentOK`: before the
first fork no PCB is in use, afterwards slot 0 is in use and has no parent, and
every other used process has a parent that is a pid and not itself. Each part
is needed. P1_Quit indexes the table with the parent, so its effect on the lists
cannot be computed without ParentOK; that the child list a process is taken
from is its parent's needs ListsExact; that the parent it wakes is not in the
queue yet needs QueueExact; that contexts are released with their PCBs needs
that cids and pids agree. Every action is one lemma (`...Inv`), DispatchOn one
that most of them use; `NextInv` collects them and the theorems are its
consequences through PTL.
PreemptedGoesLast is an action property of it: the queue that Dispatch inserts
the running process into has a head with the best priority (HeadBest), so the
only entry that can be better than the head is the last, the one just inserted
(`OnlyLastBetter`); `pick` then swaps nothing, or head and last (`Leads`).

Its last part adds FamilyTree. That a living process has a living parent is not
inductive: when the last child of process 0 quits, one has to know that nobody
else is left. `Family` says besides that process 0 lives as long as the machine
runs, and that parents do not go round in circles (`Acyclic`). Slots are used
again in any order, so no number in the state falls from child to parent;
Acyclic is therefore stated of sets: of every set of living processes without
process 0, one has its parent outside. A fork adds a leaf; an adoption makes
parents only process 0, which is in no such set. With S the set of all living
processes but process 0, a process 0 without children is alone (`Alone`).

KernelProofs carries this to Kernel, for every number of processes, semaphores,
devices and nested interrupts. Each step of Kernel but a fork is a step of
ProcTable with any tag (`KernelOtherStep`), so `Inv` holds of the kernel too, and Kernel
implements ProcTable's `Spec` if the processes there may do what the sentinel
does: 2 is in ForkPrios and Tags is {0, 1}. `KInv` is Inv with the types; `PendingHere`: a process leaves
the queue without P1Dispatch in the same region only inside P1_P, while its own
code runs; `HeadRuns`: when no call of P1Dispatch is left on the stack of the
context that runs, its process is the head of the queue; `Places`: where the
code of each process stands and what its state is agree, both ways for P1_Quit,
and who has been woken in P1_Join has a quit child. Types alone are not
inductive, because P1_P appends what P1_GetPid gives, a pid only when
somebody is RUNNING, and that is HeadBest with PendingHere. HeadRuns carries over a switch because the model stops
where the code switches to the wrong context (`misled`): the theorems say that
this is the only way in which code and table can come apart. The conclusions are
KTypeOK, Spec, RunsItself and JoinFindsChild.

Its last part proves HaltsClean from KInv, Family and `Sentry`: process 0 is
in the code of the sentinel and no other process is; it is READY or RUNNING as
long as the machine runs, so the queue cannot run empty; and when it
has seen that it has no child it has none until it quits. That last part is the
race of `phase1d.c:218`, and it rests on Alone: who has no child is the only
living process, so there is nobody to fork, quit or be adopted in between.

The end of KernelProofs proves WaitersExact and NoLostWakeup,
from the assumption that no process frees a semaphore (`"semfree" \notin Calls`;
with it P1_P puts a process on the list of a free semaphore, see WaitsOnUsed,
and P1_SemCreate empties that list). `UsedOK` says that whoever is past the
check of P1_P or P1_V, or on a list, is there with a semaphore in use. For
NoLostWakeup every step either keeps every process that is on its way to take a
unit (`TakersStay`), or is a P1_V, which adds a unit and the process it wakes, or
a P1_P that takes a unit and is one less to come for it.

DevicesProofs proves RunsItself, DTypeOK and AnswerIsRead of Devices, and that
Devices implements ProcTable (with the assumption on the sentinel's fork and
joins above), so that everything proved of the table holds of the
full handlers. Every step of Devices is one of Kernel, or leaves the kernel
alone, or one of two that Kernel does not have (`DeviceStep`): `Rotates`, a
handler that calls P1Dispatch at whatever point of its code and on whatever
stack, or counts a tick nobody waits for, and `Aborted`, P1_WakeupDevice called by a
process. `KInv` survives both. AnswerIsRead rests on `OneAnswer(d)`, the protocol between
disk, interrupt and driver: only the driver of d is in P1_P for it or on the way
to read its status; there is at most one unit of its semaphore, only after the
interrupt, and until it is read the status that was left is the answer to
the request. `DeviceArgs`, that P1_P is
called for devices only, is needed to know what a P1_P that comes back has
taken a unit of. That no disk reports "none" is part of DevicesAssumption: it
is the model's mark for a request without an answer.

ClockProofs proves of `ClockSpec`, for every set of pids, sleeps and bounds that
satisfies ClockAssumption: ClockTypeOK, SlotOrUnit, and - from the assumption
NoOverflow, that every sleep is shorter than half the ints - NeverEarly. Three
more parts make the invariant inductive. `Locks`: who has the mutex is where the program says it is, and it is gone
exactly when P2ClockShutdown is done, so that nobody enters a slot that has been
freed. `Owing`: as long as a slot is in use, what its process is owed is what
is left until it is due, and nothing from then on. `Timing` is the conjunction of
all. A slot that the driver takes for due is due, however old the time it knows
is, so by Owing its process is owed nothing when it gets its unit; and by
SlotOrUnit a process that begins to sleep has no unit left that would end
the new sleep at once.

DiskProofs proves the safety of `DiskSpec` for every set of requesters, every
number of tracks and sectors and every set of transfer sizes. `DiskInv` is one
invariant with hypotheses inside. Always: `OnePlace`, a request is in at most one
of queue, driver and answer, with the unit it is for, and its process waits;
`Phases`, where P2_Startup is and where its own two requests are; `AllFit`, every
transfer has passed the checks of P2DiskReaderWriterHelper; and `Progress`, the
driver's track and sector are those of the request plus what it believes to have
moved, where a sector behind the last of a track stands for the first of the
next, and the arm and the sectors moved are just those if no wait of this request
was aborted. TransferExact and SeeksOnDisk follow from the last two. That
exception of TransferExact cannot be left out (`OkMeansMoved` above); the proof shows
that the abort is forgotten with the request (`WaitAborted`), so that no other
one is touched by it. If no request comes after
P2DiskShutdown has begun (`~Late`), besides: `Placed`, a request is in at least
one place; ReadyCountsQueue, so a driver that is let in finds its queue not
empty; `Undisturbed`, nobody but P2_Startup has a request during the shutdown, so
its assertions on empty queues hold. ReadyCountsQueue and Placed need each
other: a driver with an empty queue would quit with requests unanswered.
That what a driver reads behind its V is still its own request is not proved: it
is not so (run disk_stale), and the proofs take that read to return anything when
the owner has gone.

VMProofs proves the safety invariants of `VMSpec` for every number of processes,
pages, frames and blocks, and for every set of scenarios. `SafeInv` holds with any
number of pagers, any shutdown and both ways to call P3SwapOut. It is the types
with `FaultsOnce` (a fault is in the queue, with one pager or
answered, and its process keeps its page table meanwhile), `Stopping` (who has
quit is who P3PagerShutdown has counted, and the one it has just signalled),
`Counted` (free blocks are those that are not taken, a page has one block at most,
blocks belong to processes that have a page table) and `Locked` (who is between
two steps of P3SwapOut or P3SwapIn holds blockPoolMutex, and finds frame and block
as it has left them). Types alone are not inductive: that a semaphore has at most one
unit is FaultsOnce and Stopping, that the counter of free blocks stays between 0 and
their number is Counted, that the clock hand stands on a frame is Counted with
the fact that it stops at a frame that is not busy (`TargetFree`).

The rest of VMProofs and MemoryProofs have the assumption `OnePager`: no
scenario has two pagers. P3_VmInit takes up to three, and with two FrameOwnedOnce and
PagesKept do not hold (run vm_steal): a free frame that a pager has taken is not
busy until its P3SwapIn. `Owned` says that a page in core has a frame that is
used and not busy and whose block is the page's, that the pager has nobody else's
frame in its hand unless it completes that page, and looks for a page
to replace only while no frame is free. FrameOwnedOnce and BlocksExact follow.
`QueueCounted` says that the semaphore of the faults counts their queue, with the
faults not yet signalled, the V that a pager has already taken, and the request
of the shutdown; it is the assertion of pageFaultQueueRemove.

MemoryProofs proves the refinement `PagesKept`: VM implements Memory. The
invariant `Kept` adds to the above what relates a page to its copies: a frame has a block only
with a page in it or on its way out (`Backed`); a page in core is dirty
since the pager has filled it, so replacing it always writes it out
(`Dirtied`); nobody waits for a page that is in core (`Absent`); what the pager holds after
reading is what is in the block (`Fetched`); a process that is not there has no
pages (`Bare`). `Here(q, p, g)` is the refinement mapping `Holds` for the only
pager q, without its CHOOSE. The lemmas go step by step of the pager: those that move
nothing (`Quiet`), and the five that do, `TakesOut`, `WritesOut`, `Allocates`,
`Brings` and `Clears`, each of which moves one page and leaves the contents of
all as they were (`PagerUnseen`). A step of a process is a stutter of
Memory, or its Write, Run, Stop or End (`UserSeen`).

Model-checked only: the setting of VM with two pagers
that never have to replace a page (*Ample*), and that PagesKept and
FrameOwnedOnce hold there; and the liveness properties RoundRobin, SleeperWakes,
ShutdownDecided, RequestAnswered, ShutdownEnds, FaultAnswered and VmStops, which are
out of the prover's reach, as is every use of fairness.

## 5. What is not modelled, and the plan

Left out of phase 1: names and exit codes, argument checks that change nothing,
stacks, cpuTime. P1_SemName and the rest of P1_GetProcInfo only read. Left out
of phase 2c: the contents of sectors, the stubs of the system calls, and the mutex
of a queue (a region under it is one step).
Left out of phase 2b: the stub, and seconds that are 0 or negative, which return
at once.

Phase 2a has no module: its stubs pass their arguments to P1_Fork, P1_Join,
P1_Quit and the calls of phases 2b to 2d, P2_Spawn and P2_Wait are those calls
with the tag of user processes, which ProcTable has, and the table of handlers
is written at startup only. Of phase 2d only P2_Startup is modelled, as the
process that shuts down in Disk and in Clock, the clock first; the table of user
semaphores is not.

Left out of phase 3: a P3_VmInit that fails half way (`initialized` is TRUE then
although there are no pagers, `phase3a.c:94`), the identity page table for a
malloc that fails, the fault handler of phase 3b (replaced by that of 3c), access
faults (a page always gets both access bits), the statistics other than
freeFrames, the layout of blocks on tracks, and a disk that fails. VM's
processes and mutexes are those of an idealised kernel: P1_GetPid gives the right pid and P
takes a unit when there is one, which are properties of Kernel.

What composes components that interact: Kernel implements ProcTable
(kernel_calls) and so carries its properties, Devices extends Kernel and
implements ProcTable too, VM
implements Memory. Disk and Clock stand on the kernel by what its runs show,
not by an instantiation.

Next:

1. `Pages`: the calls of P3_AllocatePageTable and P3_FreePageTable from
   P1ContextCreate and P1ContextFree with interrupts disabled (`phase1b.c:322`),
   that is, VM's users on top of ProcTable's slots.
2. Swap over Disk: a transfer that fails, and the result of P2_DiskRead that
   P3SwapIn overwrites (`phase3d.c:458-463`).
3. Proofs: FrameOwnedOnce and PagesKept for several pagers with a
   frame and a block for every page.
