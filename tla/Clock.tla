-------------------------------- MODULE Clock --------------------------------
(***************************************************************************)
(* Sleep and the clock driver (phase2/phase2b/phase2b.c): processes enter  *)
(* themselves in the slot of their pid, under a mutex, and wait for the    *)
(* semaphore of the slot; the clock driver is told the time now and then   *)
(* and wakes those whose time has come.  P2ClockShutdown, called by        *)
(* P2_Startup, stops the driver and frees all of it; the clock knows       *)
(* nothing of that and goes on.                                            *)
(*                                                                         *)
(* Times are relative to the clock: left[p] is startTime + restTime of     *)
(* slot p less the time it is, and the time the driver was told is kept as *)
(* its age.  The time of an aborted wait is -1, before all others.  The    *)
(* clock itself is taken not to overflow.                                  *)
(***************************************************************************)
EXTENDS Integers

CONSTANTS Procs,      \* pids, the indices of SPInfoArray
          Seconds,    \* the arguments of P2_Sleep
          Second,     \* a second, in steps of the clock (1000000 microseconds)
          Wrapped,    \* the number of ints, in the same unit (2^32)
          WakeSteps,  \* steps between two wakeups of the clock device
          MaxTold,    \* bound: wakeups the driver has not taken yet
          MaxLag,     \* bound: steps from a wakeup to the end of its scan
          Late        \* P2ClockShutdown may find sleepers, and sleeps begin
                      \* after it

ASSUME ClockAssumption ==
  /\ Procs \subseteq Nat /\ Seconds \subseteq Nat \ {0}
  /\ Second \in Nat \ {0} /\ Wrapped \in Nat \ {0} /\ WakeSteps \in Nat \ {0}
  /\ MaxTold \in Nat /\ MaxLag \in Nat /\ Late \in BOOLEAN

VARIABLES
  used,     \* SPInfoArray[p].isBeingUsed
  left,     \* when the slot is due (0 for an unused one)
  sem,      \* value of SPInfoArray[p].semId
  asleep,   \* the processes inside P2_Sleep
  owed,     \* what is left of the time that p has asked for
  mutex,    \* who has P2B_SPInfoArray_MutexSemId
  driver,   \* the local variables of ClockDriver
  step,     \* steps since the last wakeup of the clock device
  told,     \* value of its semaphore
  status,   \* the age of its devStatus
  abort,    \* okToAbort
  boss,     \* where P2_Startup is
  failed    \* an assertion has failed, the machine has stopped

slotVars == << used, left, sem, asleep, owed >>
deviceVars == << step, told, status, abort >>
clkVars == << slotVars, mutex, driver, deviceVars, boss, failed >>

Aborted == -1
Ages == {Aborted} \cup Nat
Waiting == [pc |-> "wait", seen |-> 0, todo |-> {}]

ClockTypeOK ==
  /\ used \in [Procs -> BOOLEAN] /\ left \in [Procs -> Int] /\ sem \in [Procs -> Nat]
  /\ asleep \in SUBSET Procs /\ owed \in [Procs -> Nat]
  /\ mutex \in {"free", "driver", "boss", "gone"}
  /\ driver \in [pc : {"wait", "lock", "scan", "quit"}, seen : Ages, todo : SUBSET Procs]
  /\ step \in 0 .. WakeSteps - 1 /\ told \in Nat /\ status \in Ages /\ abort \in BOOLEAN
  /\ boss \in {"run", "lock", "free", "done"}
  /\ failed \in BOOLEAN

ClockInit ==
  /\ used = [p \in Procs |-> FALSE] /\ left = [p \in Procs |-> 0]
  /\ sem = [p \in Procs |-> 0] /\ asleep = {} /\ owed = [p \in Procs |-> 0]
  /\ mutex = "free" /\ driver = Waiting
  /\ step = 0 /\ told = 0 /\ status = 0 /\ abort = FALSE
  /\ boss = "run" /\ failed = FALSE

-----------------------------------------------------------------------------
(* assert(rc == P1_SUCCESS) of a call that has not succeeded *)
Fails == failed' = TRUE /\ UNCHANGED << slotVars, mutex, driver, deviceVars, boss >>

(* seconds*1000000, in an int *)
Wrap(n) == ((n + Wrapped \div 2) % Wrapped) - Wrapped \div 2

(* P2_Sleep up to its V of the mutex *)
Sleep(p) ==
  /\ p \notin asleep /\ (boss = "run" \/ Late)
  /\ \/ mutex = "gone" /\ Fails
     \/ /\ mutex = "free"
        /\ \E s \in Seconds : /\ left' = [left EXCEPT ![p] = Wrap(s * Second)]
                              /\ owed' = [owed EXCEPT ![p] = s * Second]
        /\ used' = [used EXCEPT ![p] = TRUE]
        /\ asleep' = asleep \cup {p}
        /\ UNCHANGED << sem, mutex, driver, deviceVars, boss, failed >>

(* Its P1_P of the semaphore of the slot, which may be gone when it calls. *)
Awake(p) ==
  /\ p \in asleep
  /\ \/ boss = "done" /\ Fails
     \/ /\ sem[p] > 0
        /\ sem' = [sem EXCEPT ![p] = @ - 1]
        /\ asleep' = asleep \ {p}
        /\ UNCHANGED << used, left, owed, mutex, driver, deviceVars, boss, failed >>

-----------------------------------------------------------------------------
(* The driver.  P1_WaitDevice returns (the mutant at once), *)
AlwaysTold == TRUE
Told == told > 0

WaitDevice ==
  /\ driver.pc = "wait" /\ Told
  /\ told' = told - 1
  /\ driver' = [Waiting EXCEPT !.pc = IF abort THEN "quit" ELSE "lock",
                               !.seen = IF abort THEN 0 ELSE status]
  /\ UNCHANGED << slotVars, mutex, step, status, abort, boss, failed >>

Lock ==
  /\ driver.pc = "lock"
  /\ \/ mutex = "gone" /\ Fails
     \/ /\ mutex = "free"
        /\ mutex' = "driver"
        /\ driver' = [driver EXCEPT !.pc = "scan", !.todo = Procs]
        /\ UNCHANGED << slotVars, deviceVars, boss, failed >>

(* restTime + startTime <= now.  The mutant rounds to the next wakeup. *)
DueSoon(p) == used[p] /\ driver.seen # Aborted /\ left[p] < WakeSteps - driver.seen

Due(p) == used[p] /\ driver.seen # Aborted /\ left[p] <= 0 - driver.seen

(* What is done for a slot that is due.  Two mutants leave the slot in     *)
(* use, or use the semaphore of the slot before.                           *)
WakeAgain(p) == sem' = [sem EXCEPT ![p] = @ + 1] /\ UNCHANGED << used, left >>

WakeOther(p) ==
  /\ used' = [used EXCEPT ![p] = FALSE] /\ left' = [left EXCEPT ![p] = 0]
  /\ sem' = [q \in Procs |-> IF q = p - 1 THEN sem[q] + 1 ELSE sem[q]]

WakeSlot(p) ==
  /\ used' = [used EXCEPT ![p] = FALSE] /\ left' = [left EXCEPT ![p] = 0]
  /\ sem' = [sem EXCEPT ![p] = @ + 1]

(* looks at the next slot, *)
Scan ==
  /\ driver.pc = "scan"
  /\ \E p \in driver.todo :
       /\ \A q \in driver.todo : p <= q
       /\ driver' = [driver EXCEPT !.todo = @ \ {p}]
       /\ IF Due(p) THEN WakeSlot(p) ELSE UNCHANGED << used, left, sem >>
  /\ UNCHANGED << asleep, owed, mutex, deviceVars, boss, failed >>

(* and gives the mutex back. *)
Unlock ==
  /\ driver.pc = "scan" /\ driver.todo = {}
  /\ mutex' = "free" /\ driver' = Waiting
  /\ UNCHANGED << slotVars, deviceVars, boss, failed >>

DriverStep == WaitDevice \/ Lock \/ Scan \/ Unlock

-----------------------------------------------------------------------------
(* P1_WakeupDevice of the clock *)
WakeupDevice(age, ab) == told' = told + 1 /\ status' = age /\ abort' = ab

Older(age) == IF age = Aborted THEN age ELSE age + 1
Less(n) == IF n = 0 THEN 0 ELSE n - 1

(* A step of the clock, and every WakeSteps of them its interrupt, whether *)
(* there is a driver or not *)
Tick ==
  /\ driver.pc \in {"lock", "scan"} => driver.seen < MaxLag
  /\ IF step + 1 = WakeSteps
     THEN step' = 0 /\ told < MaxTold /\ WakeupDevice(0, FALSE)
     ELSE step' = step + 1 /\ status' = Older(status) /\ UNCHANGED << told, abort >>
  /\ left' = [p \in Procs |-> IF used[p] THEN left[p] - 1 ELSE 0]
  /\ owed' = [p \in Procs |-> Less(owed[p])]
  /\ driver' = IF driver.pc = "wait" THEN driver
               ELSE [driver EXCEPT !.seen = Older(@)]
  /\ UNCHANGED << used, sem, asleep, mutex, boss, failed >>

(* The interrupt of another device: P1_WakeupDevice has one okToAbort for  *)
(* all of them.                                                            *)
OtherInterrupt ==
  /\ abort
  /\ abort' = FALSE
  /\ UNCHANGED << slotVars, mutex, driver, step, told, status, boss, failed >>

(* P2ClockShutdown aborts the wait of the driver, *)
Shutdown ==
  /\ boss = "run" /\ (Late \/ asleep = {})
  /\ WakeupDevice(Aborted, TRUE)
  /\ boss' = "lock"
  /\ UNCHANGED << slotVars, mutex, driver, step, failed >>

ShutdownLock ==
  /\ boss = "lock" /\ mutex = "free"
  /\ mutex' = "boss" /\ boss' = "free"
  /\ UNCHANGED << slotVars, driver, deviceVars, failed >>

(* and frees the slots, their semaphores and the mutex, which must have no *)
(* waiters.  (Who is about to call P1_P is not one yet.)  The mutant keeps *)
(* the mutex.                                                              *)
SlotsFree == used' = [p \in Procs |-> FALSE] /\ left' = [p \in Procs |-> 0]

FreeSlots ==
  /\ boss = "free"
  /\ \/ ((\E p \in asleep : sem[p] = 0) \/ driver.pc = "lock") /\ Fails
     \/ /\ SlotsFree /\ mutex' = "free" /\ boss' = "done"
        /\ UNCHANGED << sem, asleep, owed, driver, deviceVars, failed >>

FreeAll ==
  /\ boss = "free"
  /\ \/ ((\E p \in asleep : sem[p] = 0) \/ driver.pc = "lock") /\ Fails
     \/ /\ SlotsFree /\ mutex' = "gone" /\ boss' = "done"
        /\ UNCHANGED << sem, asleep, owed, driver, deviceVars, failed >>

BossStep == ShutdownLock \/ FreeAll

ClockNext ==
  /\ ~failed
  /\ \/ \E p \in Procs : Sleep(p) \/ Awake(p)
     \/ DriverStep \/ Tick \/ OtherInterrupt \/ Shutdown \/ BossStep

(* The clock goes on, and so do the driver, P2_Startup and who is woken.   *)
(* P2_Startup gets the mutex if it is free again and again: the driver is  *)
(* done with a scan long before the next wakeup, and P1_V has made its     *)
(* waiter runnable.  Nobody has to sleep, and the shutdown need not come.  *)
ClockSpec ==
  /\ ClockInit /\ [][ClockNext]_clkVars
  /\ WF_clkVars(~failed /\ Tick) /\ WF_clkVars(~failed /\ DriverStep)
  /\ SF_clkVars(~failed /\ BossStep)
  /\ \A p \in Procs : WF_clkVars(~failed /\ Awake(p))

-----------------------------------------------------------------------------
(* The driver wakes nobody before its time, however old the time is that   *)
(* it was told ("for the specified number of seconds", phase2b.c:142).     *)
NeverEarly == \A p \in Procs : sem[p] > 0 => owed[p] = 0

(* Who sleeps is in its slot or has its unit, not both, and nobody else    *)
(* is or has: no wakeup comes too early to be seen, none is left over that *)
(* would cut the next sleep short.                                         *)
SlotOrUnit ==
  boss # "done" =>
    \A p \in Procs : (IF used[p] THEN 1 ELSE 0) + sem[p] = (IF p \in asleep THEN 1 ELSE 0)

(* Every sleep ends, if the shutdown does not come first. *)
SleeperWakes == \A p \in Procs : p \in asleep ~> (p \notin asleep \/ boss # "run")

(* The shutdown never hangs, and no driver outlives it: if it does not end *)
(* with the driver stopped, then an assertion has stopped the machine, of  *)
(* the driver, of a sleeper, or of the shutdown itself.                    *)
ShutdownDecided ==
  boss = "lock" ~> failed \/ (boss = "done" /\ driver.pc = "quit")

(* P2ClockShutdown is to "clean up the clock data structures and stop the  *)
(* clock driver" (phase2b.c:72): it ends, and so does the driver.  (An     *)
(* interrupt before the driver looks at okToAbort makes it go on.)         *)
ClockStops == boss = "lock" ~> boss = "done" /\ driver.pc = "quit"
=============================================================================
