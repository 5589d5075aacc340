------------------------------ MODULE Devices ------------------------------
(***************************************************************************)
(* Device interrupts in full (phase1/phase1d/phase1d.c): the handler of    *)
(* the clock with its tick counter, the status and the abort flag that     *)
(* P1_WakeupDevice leaves for P1_WaitDevice.  It extends module Kernel,    *)
(* whose interrupts know only their effect on the scheduler: here a        *)
(* handler goes on after a P1Dispatch inside it has come back, with        *)
(* interrupts enabled and the ticks that others have counted meanwhile.    *)
(*                                                                         *)
(* Device 0 is the clock, the others are disks.  A disk interrupts once    *)
(* for each request that its driver has given it; one process at a time    *)
(* drives a disk, and waits for each request before the next, as the disk  *)
(* drivers of phase 2 do.  Processes do not quit here.                     *)
(***************************************************************************)
EXTENDS Kernel

CONSTANTS WakeTicks,      \* 5: ticks between wakeups of the clock device
          QuantumTicks,   \* 4: ticks of a quantum
          MaxFrames,      \* bound on clock handlers that wait on one stack
          Aborts,         \* processes abort the waiter of the clock
          Statuses        \* what a disk reports ("none" is no report)

ASSUME DevicesAssumption ==
  /\ NumDev > 0
  /\ WakeTicks \in Nat \ {0} /\ QuantumTicks \in Nat \ {0}
  /\ MaxFrames \in Nat \ {0} /\ Aborts \in BOOLEAN
  /\ "none" \notin Statuses

Clock == 0
Disks == DevSems \ {Clock}
NoDev == -1
Reset == WakeTicks * QuantumTicks                                   \* 20

(* ticks++.  Above Reset the counter never equals Reset again, and what    *)
(* else the code asks of it has the period Reset: Reset + k stands for     *)
(* 2 * Reset + k too.                                                      *)
Count(t) == IF t = 2 * Reset THEN Reset + 1 ELSE t + 1

VARIABLES
  ticks,
  handlers,     \* handlers[c]: clock handlers on c's stack below a P1Dispatch:
                \* the depth of sw[c] they come back at, where they go on, and
                \* the tick they have counted
  devStatus,
  okToAbort,
  returning,    \* returning[c]: the device whose semaphore c has taken inside
                \* P1_WaitDevice and whose status it has not read yet
  driver,       \* driver[d]: the process whose request disk d works on
  answer        \* what the disk said to the request of its driver

tickVars == << ticks, handlers >>
diskVars == << driver, answer >>
waitVars == << devStatus, okToAbort, returning >>
dvars == << kvars, tickVars, diskVars, waitVars >>

Results == Statuses \cup {"none", "tick"}

DTypeOK ==
  /\ KTypeOK
  /\ ticks \in 0 .. 2 * Reset
  /\ handlers \in [Pid -> Seq([depth : 0 .. MaxNest,
                               then : {"quantum", "rotate", "reset", "clear"},
                               tick : 0 .. 2 * Reset])]
  /\ devStatus \in [DevSems -> Results]
  /\ okToAbort \in BOOLEAN
  /\ returning \in [Pid -> DevSems \cup {NoDev}]
  /\ driver \in [Disks -> Pid \cup {NoPid}]
  /\ answer \in [Disks -> Results]

DInit ==
  /\ KInit
  /\ ticks = 0
  /\ handlers = [c \in Pid |-> << >>]
  /\ devStatus = [d \in DevSems |-> "none"]
  /\ okToAbort = FALSE
  /\ returning = [c \in Pid |-> NoDev]
  /\ driver = [d \in Disks |-> NoPid]
  /\ answer = [d \in Disks |-> "none"]

-----------------------------------------------------------------------------
(* A clock handler of the running context has come back from P1Dispatch.   *)
Due == /\ On /\ handlers[CID] # << >>
       /\ Last(handlers[CID]).depth = Len(sw[CID])

(* The rest of DeviceHandler will run on this stack after P1Dispatch.      *)
Push(a) ==
  /\ Len(handlers[CID]) < MaxFrames
  /\ handlers' = [handlers EXCEPT ![CID] =
                    Append(@, [depth |-> Len(sw[CID]), then |-> a, tick |-> ticks'])]

Pop == handlers' = [handlers EXCEPT ![CID] = Front(@)]

ThenAt(a) ==
  handlers' = [handlers EXCEPT ![CID] = [@ EXCEPT ![Len(@)].then = a]]

(* P1_WakeupDevice: status and abort are saved, then the semaphore is      *)
(* signalled.  The mutant saves the status only when nobody has to be      *)
(* woken (that is, P1_V comes first and switches to the waiter).           *)
WakeupAfterV(d, st, abort) ==
  /\ devStatus' = IF MustWake(d) THEN devStatus ELSE [devStatus EXCEPT ![d] = st]
  /\ okToAbort' = abort
  /\ SemV(d)

WakeupDevice(d, st, abort) ==
  /\ devStatus' = [devStatus EXCEPT ![d] = st]
  /\ okToAbort' = abort
  /\ SemV(d)

-----------------------------------------------------------------------------
(* The handler of a clock interrupt, when P1_V wakes a waiter: up to its   *)
(* P1Dispatch.                                                             *)
TickWakes ==
  /\ Interrupt /\ Count(ticks) % WakeTicks = 0 /\ MustWake(Clock)
  /\ ticks' = Count(ticks)
  /\ WakeupDevice(Clock, "tick", FALSE)
  /\ Push("quantum")
  /\ UNCHANGED << diskVars, returning >>

(* Otherwise: P1_WakeupDevice, if it is its turn, finds nobody, and the    *)
(* handler runs up to the end of the quantum or to its own end.            *)
TickPasses ==
  /\ Interrupt
  /\ ticks' = Count(ticks)
  /\ IF Count(ticks) % WakeTicks = 0
     THEN /\ ~MustWake(Clock) /\ value[Clock] < MaxValue
          /\ value' = [value EXCEPT ![Clock] = @ + 1]
          /\ devStatus' = [devStatus EXCEPT ![Clock] = "tick"]
          /\ okToAbort' = FALSE
     ELSE UNCHANGED << value, devStatus, okToAbort >>
  /\ IF Count(ticks) % QuantumTicks = 0
     THEN Dispatch(TRUE) /\ InDispatch /\ Push("reset")
     ELSE UNCHANGED << vars, sw, handlers >>
  /\ UNCHANGED << semUsed, semQ, diskVars, returning >>

(* The handler goes on after a P1Dispatch, with interrupts enabled.  *)
HandlerGoesOn ==
  LET at == Last(handlers[CID]).then
  IN  /\ Due
      /\ \/ /\ at = "quantum"
            /\ ThenAt(IF ticks % QuantumTicks = 0 THEN "rotate" ELSE "reset")
            /\ UNCHANGED << vars, sw, ticks >>
         \/ /\ at = "rotate"
            /\ Dispatch(TRUE) /\ InDispatch
            /\ ThenAt("reset")
            /\ UNCHANGED ticks
         \/ /\ at = "reset"
            /\ IF ticks = Reset THEN ThenAt("clear") ELSE Pop
            /\ UNCHANGED << vars, sw, ticks >>
         \/ /\ at = "clear"
            /\ ticks' = 0
            /\ Pop
            /\ UNCHANGED << vars, sw >>
      /\ UNCHANGED << semVars, CID, pc, misled, diskVars, waitVars >>

(* The handler of a disk interrupt.                                        *)
DiskInterrupt(d, st) ==
  /\ driver[d] # NoPid /\ answer[d] = "none"
  /\ Interrupt
  /\ WakeupDevice(d, st, FALSE)
  /\ answer' = [answer EXCEPT ![d] = st]
  /\ UNCHANGED << tickVars, returning, driver >>

-----------------------------------------------------------------------------
(* The running process executes its own code, outside P1_WaitDevice.       *)
Own == On /\ handlers[CID] = << >> /\ returning[CID] = NoDev
Asked(d) == driver[d] = CID

(* The driver of a disk gives it a request (USLOSS_DeviceOutput).          *)
Request(d) ==
  /\ Here("user") /\ Own /\ driver[d] = NoPid /\ ~\E e \in Disks : Asked(e)
  /\ driver' = [driver EXCEPT ![d] = CID]
  /\ UNCHANGED << kvars, tickVars, waitVars, answer >>

(* What P1_WaitDevice gives its caller *)
Status(d) == IF okToAbort THEN "aborted" ELSE devStatus[d]

Returns(d) ==
  IF d = Clock THEN UNCHANGED diskVars
  ELSE driver' = [driver EXCEPT ![d] = NoPid] /\ answer' = [answer EXCEPT ![d] = "none"]

(* It takes a unit at once, with interrupts still disabled, or blocks.     *)
Wait(d) ==
  /\ Here("user") /\ Own
  /\ IF d = Clock THEN ~\E e \in Disks : Asked(e) ELSE Asked(d)
  /\ WaitDevice(d)
  /\ IF value[d] > 0 THEN Returns(d) ELSE UNCHANGED diskVars
  /\ UNCHANGED << tickVars, waitVars >>

(* The later iterations of P1_P, with interrupts enabled.                  *)
WaitAgain ==
  /\ Here("P") /\ Own
  /\ PLoop
  /\ returning' = [returning EXCEPT ![CID] = IF value[Arg] > 0 THEN Arg ELSE NoDev]
  /\ UNCHANGED << tickVars, diskVars, devStatus, okToAbort >>

WaitDispatch ==
  Own /\ PDispatch /\ UNCHANGED << tickVars, diskVars, waitVars >>

Read(d) ==
  /\ Here("user") /\ handlers[CID] = << >> /\ returning[CID] = d
  /\ Returns(d)
  /\ returning' = [returning EXCEPT ![CID] = NoDev]
  /\ UNCHANGED << kvars, tickVars, devStatus, okToAbort >>

(* P1_WakeupDevice with abort, called by a process for the clock.  (What   *)
(* the clock reports is "tick", here too: no property looks into it.)      *)
AbortClock ==
  /\ Aborts /\ Here("user") /\ Own /\ ~\E e \in Disks : Asked(e)
  /\ WakeupDevice(Clock, "tick", TRUE)
  /\ UNCHANGED << CID, pc, misled, tickVars, diskVars, returning >>

(* The rest is Kernel's.                                                   *)
KernelStep ==
  /\ \/ KBoot
     \/ ~Due /\ (EvalTarget \/ ContextSwitch)
     \/ /\ Own
        /\ \/ Launch
           \/ \E pr \in ForkPrios, tg \in Tags :
                UserFork(pr, tg) /\ ~\E e \in Disks : Asked(e)
           \/ SentinelFork \/ SentinelStep
     \/ Stopped
  /\ UNCHANGED << tickVars, diskVars, waitVars >>

DNext ==
  \/ TickWakes \/ TickPasses \/ HandlerGoesOn
  \/ \E d \in Disks, st \in Statuses : DiskInterrupt(d, st)
  \/ \E d \in Disks : Request(d)
  \/ \E d \in DevSems : Wait(d) \/ Read(d)
  \/ WaitAgain \/ WaitDispatch \/ AbortClock
  \/ KernelStep

DSpec == DInit /\ [][DNext]_dvars
-----------------------------------------------------------------------------
(* A driver that comes back from P1_WaitDevice has the status of its own   *)
(* request: not an older one, and not one the disk has not given yet.      *)
(* (Unless it is told of an abort, see AbortStays.)                        *)
AnswerIsRead ==
  [][\A d \in Disks : driver[d] # NoPid /\ driver'[d] = NoPid
                      => Status(d) \in {answer[d], "aborted"}]_dvars

(* An abort is "saved to be used by P1_WaitDevice" (phase1d.c:151) for the *)
(* device it is meant for.  okToAbort is one flag for all devices, so this *)
(* does not hold: with Aborts, TLC finds a disk driver that is told of the *)
(* abort of the clock and never sees the status of its request.            *)
AbortStays ==
  [][\A d \in Disks : driver[d] # NoPid /\ driver'[d] = NoPid
                      => Status(d) # "aborted"]_dvars

(* The clock handler calls "P1Dispatch(TRUE) every 4 ticks"                *)
(* (phase1d.c:180): the handler of a tick decides by its own tick.  This   *)
(* does not hold: it reads the counter again after P1_WakeupDevice.        *)
QuantumEveryFour ==
  [][\A c \in Pid : \A i \in DOMAIN handlers[c] \cap DOMAIN handlers'[c] :
       LET now == handlers[c][i]
           goesTo == handlers'[c][i].then
       IN  now.then = "quantum" /\ goesTo # "quantum"
           => (goesTo = "rotate") = (now.tick % QuantumTicks = 0)]_dvars

(* The clock handler calls "P1_WakeupDevice every 5 ticks"                 *)
(* (phase1d.c:173): no tick is taken back, the counter is set to 0 from    *)
(* Reset only.  This does not hold either: the test and the assignment of  *)
(* phase1d.c:185-186 run with interrupts enabled after a P1Dispatch.       *)
TicksCounted ==
  [][ticks' \in {ticks, Count(ticks)} \/ (ticks = Reset /\ ticks' = 0)]_dvars
=============================================================================
