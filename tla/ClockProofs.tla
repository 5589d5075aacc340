----------------------------- MODULE ClockProofs -----------------------------
(***************************************************************************)
(* Proofs about Clock, for every set of processes and whatever the bounds: *)
(* who sleeps is owed exactly one wakeup, and if no sleep is long enough   *)
(* to overflow an int then nobody is woken early.                          *)
(***************************************************************************)
EXTENDS Clock, TLAPS

-----------------------------------------------------------------------------
(* What wraps is an int, and what fits is left as it is. *)
LEMMA WrapInt == ASSUME NEW n \in Int PROVE Wrap(n) \in Int
BY ClockAssumption DEF Wrap

LEMMA ModSmall == ASSUME NEW a \in Nat, NEW b \in Nat, a < b PROVE a % b = a
OBVIOUS

LEMMA WrapFits ==
  ASSUME NEW n \in Nat, n < Wrapped \div 2 PROVE Wrap(n) = n
<1>. DEFINE half == Wrapped \div 2
<1>1. half \in Nat /\ half + half <= Wrapped BY ClockAssumption
<1>2. n + half \in Nat /\ n + half < Wrapped BY <1>1, ClockAssumption
<1>3. (n + half) % Wrapped = n + half BY <1>2, ModSmall, ClockAssumption
<1>. QED BY <1>1, <1>3 DEF Wrap

-----------------------------------------------------------------------------
DriverType == [pc : {"wait", "lock", "scan", "quit"}, seen : Ages, todo : SUBSET Procs]

LEMMA TypeInit == ClockInit => ClockTypeOK
<1> SUFFICES ASSUME ClockInit PROVE ClockTypeOK
  OBVIOUS
<1>1. driver \in DriverType
  BY DEF ClockInit, Waiting, DriverType, Ages
<1>2. step \in 0 .. WakeSteps - 1 /\ status \in Ages
  BY ClockAssumption DEF ClockInit, Ages
<1>3. used \in [Procs -> BOOLEAN]
  BY Zenon DEF ClockInit
<1>4. /\ left \in [Procs -> Int] /\ sem \in [Procs -> Nat]
      /\ asleep \in SUBSET Procs /\ owed \in [Procs -> Nat]
  BY DEF ClockInit
<1>. QED BY <1>1, <1>2, <1>3, <1>4 DEF ClockInit, ClockTypeOK, DriverType

LEMMA OlderAge == ASSUME NEW a \in Ages PROVE Older(a) \in Ages
BY DEF Older, Ages, Aborted

LEMMA TypeNext == ClockTypeOK /\ [ClockNext]_clkVars => ClockTypeOK'
<1> SUFFICES ASSUME ClockTypeOK, [ClockNext]_clkVars PROVE ClockTypeOK'
  OBVIOUS
<1> USE ClockAssumption DEF ClockTypeOK
<1>1. ASSUME Fails PROVE ClockTypeOK'
  BY <1>1 DEF Fails, slotVars, deviceVars
<1>2. ASSUME NEW p \in Procs, Sleep(p) PROVE ClockTypeOK'
  <2>1. CASE Fails
    BY <1>1, <2>1
  <2>2. ASSUME NEW s \in Seconds,
               left' = [left EXCEPT ![p] = Wrap(s * Second)],
               owed' = [owed EXCEPT ![p] = s * Second]
        PROVE  left' \in [Procs -> Int] /\ owed' \in [Procs -> Nat]
    <3>1. s * Second \in Nat
      OBVIOUS
    <3>. QED BY <2>2, <3>1, WrapInt
  <2>3. CASE ~Fails
    <3>1. /\ used' = [used EXCEPT ![p] = TRUE] /\ asleep' = asleep \cup {p}
          /\ left' \in [Procs -> Int] /\ owed' \in [Procs -> Nat]
          /\ UNCHANGED << sem, mutex, driver, deviceVars, boss, failed >>
      BY <1>2, <2>2, <2>3 DEF Sleep
    <3>. QED BY <3>1 DEF deviceVars
  <2>. QED BY <2>1, <2>3
<1>3. ASSUME NEW p \in Procs, Awake(p) PROVE ClockTypeOK'
  <2>1. CASE Fails
    BY <1>1, <2>1
  <2>2. CASE ~Fails
    <3>1. sem' \in [Procs -> Nat]
      BY <1>3, <2>2 DEF Awake
    <3>2. asleep' \in SUBSET Procs
      BY <1>3, <2>2 DEF Awake
    <3>. QED BY <1>3, <2>2, <3>1, <3>2 DEF Awake, deviceVars
  <2>. QED BY <2>1, <2>2
<1>4. ASSUME WaitDevice PROVE ClockTypeOK'
  <2>1. driver' \in DriverType
    BY <1>4 DEF WaitDevice, Waiting, Ages, DriverType
  <2>2. told' \in Nat
    BY <1>4 DEF WaitDevice, Told
  <2>. QED BY <1>4, <2>1, <2>2 DEF WaitDevice, slotVars, DriverType
<1>5. ASSUME Lock PROVE ClockTypeOK'
  <2>1. CASE Fails
    BY <1>1, <2>1
  <2>2. CASE ~Fails
    BY <1>5, <2>2 DEF Lock, slotVars, deviceVars
  <2>. QED BY <2>1, <2>2
<1>6. ASSUME Scan PROVE ClockTypeOK'
  <2>1. /\ used' \in [Procs -> BOOLEAN] /\ left' \in [Procs -> Int]
        /\ sem' \in [Procs -> Nat]
    <3>1. PICK p \in driver.todo : IF Due(p) THEN WakeSlot(p) ELSE UNCHANGED << used, left, sem >>
      BY <1>6 DEF Scan
    <3>2. p \in Procs
      OBVIOUS
    <3>3. CASE Due(p)
      <4>1. /\ used' = [used EXCEPT ![p] = FALSE] /\ left' = [left EXCEPT ![p] = 0]
            /\ sem' = [sem EXCEPT ![p] = @ + 1]
        BY <3>1, <3>3, Zenon DEF WakeSlot
      <4>2. used' \in [Procs -> BOOLEAN]
        BY <4>1
      <4>3. left' \in [Procs -> Int] /\ sem' \in [Procs -> Nat]
        BY <3>2, <4>1
      <4>. QED BY <4>2, <4>3
    <3>4. CASE ~Due(p)
      BY <3>1, <3>4
    <3>. QED BY <3>3, <3>4
  <2>2. driver' \in DriverType
    BY <1>6 DEF Scan, DriverType
  <2>. QED BY <1>6, <2>1, <2>2 DEF Scan, deviceVars, DriverType
<1>7. ASSUME Unlock PROVE ClockTypeOK'
  BY <1>7 DEF Unlock, Waiting, Ages, slotVars, deviceVars
<1>8. ASSUME Tick PROVE ClockTypeOK'
  <2>1. step' \in 0 .. WakeSteps - 1 /\ told' \in Nat /\ status' \in Ages /\ abort' \in BOOLEAN
    <3>1. CASE step + 1 = WakeSteps
      <4>1. step' = 0 /\ told' = told + 1 /\ status' = 0 /\ abort' = FALSE
        BY <1>8, <3>1, Zenon DEF Tick, WakeupDevice
      <4>2. step' \in 0 .. WakeSteps - 1
        BY <4>1
      <4>3. told' \in Nat
        BY <4>1
      <4>4. status' \in Ages
        BY <4>1 DEF Ages
      <4>5. abort' \in BOOLEAN
        BY <4>1
      <4>. QED BY <4>2, <4>3, <4>4, <4>5
    <3>2. CASE step + 1 # WakeSteps
      BY <1>8, <3>2, OlderAge DEF Tick
    <3>. QED BY <3>1, <3>2
  <2>2. left' \in [Procs -> Int] /\ owed' \in [Procs -> Nat]
    BY <1>8 DEF Tick, Less
  <2>3. driver' \in [pc : {"wait", "lock", "scan", "quit"}, seen : Ages, todo : SUBSET Procs]
    BY <1>8, OlderAge DEF Tick
  <2>. QED BY <1>8, <2>1, <2>2, <2>3 DEF Tick
<1>9. ASSUME OtherInterrupt PROVE ClockTypeOK'
  BY <1>9 DEF OtherInterrupt, slotVars
<1>10. ASSUME Shutdown PROVE ClockTypeOK'
  BY <1>10 DEF Shutdown, WakeupDevice, slotVars, Ages
<1>11. ASSUME ShutdownLock PROVE ClockTypeOK'
  BY <1>11 DEF ShutdownLock, slotVars, deviceVars
<1>12. ASSUME FreeAll PROVE ClockTypeOK'
  <2>1. CASE Fails
    BY <1>1, <2>1
  <2>2. CASE ~Fails
    <3>1. /\ used' = [p \in Procs |-> FALSE] /\ left' = [p \in Procs |-> 0]
          /\ mutex' = "gone" /\ boss' = "done"
          /\ UNCHANGED << sem, asleep, owed, driver, deviceVars, failed >>
      BY <1>12, <2>2, Zenon DEF FreeAll, SlotsFree
    <3>2. used' \in [Procs -> BOOLEAN]
      BY <3>1, Zenon
    <3>3. left' \in [Procs -> Int]
      BY <3>1
    <3>. QED BY <3>1, <3>2, <3>3 DEF deviceVars
  <2>. QED BY <2>1, <2>2
<1>13. CASE UNCHANGED clkVars
  BY <1>13 DEF clkVars, slotVars, deviceVars
<1>. QED
  BY <1>2, <1>3, <1>4, <1>5, <1>6, <1>7, <1>8, <1>9, <1>10, <1>11, <1>12, <1>13
  DEF ClockNext, DriverStep, BossStep

(* The variables of the clock keep their types. *)
THEOREM ClockTypeCorrect == ClockSpec => []ClockTypeOK
BY TypeInit, TypeNext, PTL DEF ClockSpec

-----------------------------------------------------------------------------
(* Who has the mutex *)
Locks ==
  /\ mutex = "driver" <=> driver.pc = "scan"
  /\ mutex = "boss" <=> boss = "free"
  /\ mutex = "gone" <=> boss = "done"

LEMMA LocksInit == ClockInit => Locks
BY DEF ClockInit, Waiting, Locks

LEMMA LocksNext == ClockTypeOK /\ Locks /\ [ClockNext]_clkVars => Locks'
<1> SUFFICES ASSUME ClockTypeOK, Locks, [ClockNext]_clkVars PROVE Locks'
  OBVIOUS
<1> USE DEF Locks
<1>1. ASSUME Fails PROVE Locks'
  BY <1>1 DEF Fails
<1>2. ASSUME NEW p \in Procs, Sleep(p) \/ Awake(p) PROVE Locks'
  BY <1>1, <1>2 DEF Sleep, Awake
<1>3. CASE WaitDevice
  BY <1>3 DEF WaitDevice, Waiting, ClockTypeOK
<1>4. CASE Lock
  BY <1>1, <1>4 DEF Lock, ClockTypeOK
<1>5. CASE Scan
  <2>1. driver'.pc = driver.pc
    BY <1>5 DEF Scan, ClockTypeOK
  <2>. QED BY <1>5, <2>1 DEF Scan
<1>6. CASE Unlock
  BY <1>6 DEF Unlock, Waiting
<1>7. CASE Tick
  <2>1. driver'.pc = driver.pc
    BY <1>7 DEF Tick, ClockTypeOK
  <2>. QED BY <1>7, <2>1 DEF Tick
<1>8. CASE OtherInterrupt \/ Shutdown
  BY <1>8 DEF OtherInterrupt, Shutdown
<1>9. CASE BossStep
  BY <1>1, <1>9 DEF BossStep, ShutdownLock, FreeAll
<1>10. CASE UNCHANGED clkVars
  BY <1>10 DEF clkVars
<1>. QED
  BY <1>2, <1>3, <1>4, <1>5, <1>6, <1>7, <1>8, <1>9, <1>10 DEF ClockNext, DriverStep

-----------------------------------------------------------------------------
LEMMA OnceNext ==
  ClockTypeOK /\ Locks /\ SlotOrUnit /\ [ClockNext]_clkVars => SlotOrUnit'
<1> SUFFICES ASSUME ClockTypeOK, Locks, SlotOrUnit, [ClockNext]_clkVars,
                    boss' # "done", NEW q \in Procs
             PROVE  ((IF used[q] THEN 1 ELSE 0) + sem[q] = (IF q \in asleep THEN 1 ELSE 0))'
  BY DEF SlotOrUnit
<1> DEFINE Sum == (IF used[q] THEN 1 ELSE 0) + sem[q] = (IF q \in asleep THEN 1 ELSE 0)
<1>1. ASSUME UNCHANGED << used, sem, asleep, boss >> PROVE Sum'
  BY <1>1 DEF SlotOrUnit
<1>2. ASSUME Fails PROVE Sum'
  BY <1>1, <1>2 DEF Fails, slotVars
<1>3. ASSUME NEW p \in Procs, Sleep(p), ~Fails PROVE Sum'
  <2>1. boss # "done" /\ p \notin asleep
    BY <1>3 DEF Sleep, Locks
  <2>2. /\ used' = [used EXCEPT ![p] = TRUE] /\ asleep' = asleep \cup {p} /\ sem' = sem
    BY <1>3 DEF Sleep
  <2>. QED BY <2>1, <2>2 DEF SlotOrUnit, ClockTypeOK
<1>4. ASSUME NEW p \in Procs, Awake(p), ~Fails PROVE Sum'
  <2>1. /\ p \in asleep /\ sem[p] > 0 /\ sem' = [sem EXCEPT ![p] = @ - 1]
        /\ asleep' = asleep \ {p} /\ used' = used /\ boss' = boss
    BY <1>4 DEF Awake
  <2>. QED BY <2>1 DEF SlotOrUnit, ClockTypeOK
<1>5. CASE Scan
  <2>1. PICK p \in driver.todo : IF Due(p) THEN WakeSlot(p) ELSE UNCHANGED << used, left, sem >>
    BY <1>5 DEF Scan
  <2>2. p \in Procs /\ asleep' = asleep /\ boss # "done"
    BY <1>5 DEF Scan, ClockTypeOK
  <2>3. CASE Due(p)
    <3>1. used[p] /\ used' = [used EXCEPT ![p] = FALSE] /\ sem' = [sem EXCEPT ![p] = @ + 1]
      BY <2>1, <2>3 DEF WakeSlot, Due
    <3>. QED BY <2>2, <3>1 DEF SlotOrUnit, ClockTypeOK
  <2>4. CASE ~Due(p)
    BY <2>1, <2>2, <2>4 DEF SlotOrUnit
  <2>. QED BY <2>3, <2>4
<1>6. CASE WaitDevice \/ (Lock /\ ~Fails) \/ Unlock
  BY <1>1, <1>6 DEF WaitDevice, Lock, Unlock, slotVars
<1>7. CASE Tick \/ OtherInterrupt
  BY <1>1, <1>7 DEF Tick, OtherInterrupt, slotVars
<1>8. CASE Shutdown \/ ShutdownLock
  BY <1>8 DEF Shutdown, ShutdownLock, slotVars, SlotOrUnit
<1>9. CASE FreeAll /\ ~Fails
  BY <1>9 DEF FreeAll, SlotsFree
<1>10. CASE UNCHANGED clkVars
  BY <1>1, <1>10 DEF clkVars, slotVars
<1>. QED
  BY <1>2, <1>3, <1>4, <1>5, <1>6, <1>7, <1>8, <1>9, <1>10
  DEF ClockNext, DriverStep, BossStep

LEMMA OnceInit == ClockInit => SlotOrUnit
<1> SUFFICES ASSUME ClockInit, NEW p \in Procs
             PROVE  (IF used[p] THEN 1 ELSE 0) + sem[p] = (IF p \in asleep THEN 1 ELSE 0)
  BY DEF SlotOrUnit
<1>1. ~used[p] /\ p \notin asleep
  BY Zenon DEF ClockInit
<1>2. sem[p] = 0
  BY DEF ClockInit
<1>. QED BY <1>1, <1>2

(* Who sleeps is in its slot or has its unit: the driver wakes everybody   *)
(* once for each sleep, whenever it looks.                                 *)
THEOREM WokenOnce == ClockSpec => []SlotOrUnit
BY TypeInit, TypeNext, LocksInit, LocksNext, OnceInit, OnceNext, PTL DEF ClockSpec

-----------------------------------------------------------------------------
(* No sleep is asked for whose microseconds do not fit an int.             *)
NoOverflow == \A s \in Seconds : s * Second < Wrapped \div 2

(* Until its slot is due, p is owed what is left; and then nothing, until  *)
(* it sleeps again.                                                        *)
Owing == \A p \in Procs : used[p] => owed[p] = IF left[p] < 0 THEN 0 ELSE left[p]

Timing == ClockTypeOK /\ Locks /\ SlotOrUnit /\ Owing /\ NeverEarly

LEMMA TimingNext ==
  NoOverflow /\ Timing /\ [ClockNext]_clkVars => (Owing /\ NeverEarly)'
<1> SUFFICES ASSUME NoOverflow, Timing, [ClockNext]_clkVars, NEW q \in Procs
             PROVE  /\ used'[q] => owed'[q] = IF left'[q] < 0 THEN 0 ELSE left'[q]
                    /\ sem'[q] > 0 => owed'[q] = 0
  BY DEF Owing, NeverEarly
<1> DEFINE Time == /\ used'[q] => owed'[q] = IF left'[q] < 0 THEN 0 ELSE left'[q]
                   /\ sem'[q] > 0 => owed'[q] = 0
<1> USE DEF Timing
<1>1. ASSUME UNCHANGED << used, left, sem, owed >> PROVE Time
  BY <1>1 DEF Owing, NeverEarly
<1>2. ASSUME Fails PROVE Time
  BY <1>1, <1>2 DEF Fails, slotVars
<1>3. ASSUME NEW p \in Procs, Sleep(p), ~Fails PROVE Time
  <2>1. mutex = "free" /\ p \notin asleep /\ sem' = sem /\ used' = [used EXCEPT ![p] = TRUE]
    BY <1>3 DEF Sleep
  <2>2. sem[p] = 0
    BY <2>1 DEF Locks, SlotOrUnit, ClockTypeOK
  <2>3. PICK s \in Seconds : /\ left' = [left EXCEPT ![p] = Wrap(s * Second)]
                             /\ owed' = [owed EXCEPT ![p] = s * Second]
    BY <1>3 DEF Sleep
  <2>4. s * Second \in Nat /\ s * Second < Wrapped \div 2
    BY ClockAssumption DEF NoOverflow
  <2>5. left' = [left EXCEPT ![p] = s * Second]
    BY <2>3, <2>4, WrapFits
  <2>6. CASE q = p
    <3>1. left'[q] = s * Second /\ owed'[q] = s * Second /\ sem'[q] = 0
      BY <2>1, <2>2, <2>3, <2>5, <2>6 DEF ClockTypeOK
    <3>. QED BY <2>4, <3>1
  <2>7. CASE q # p
    <3>1. left'[q] = left[q] /\ owed'[q] = owed[q] /\ used'[q] = used[q] /\ sem'[q] = sem[q]
      BY <2>1, <2>3, <2>7 DEF ClockTypeOK
    <3>. QED BY <3>1 DEF Owing, NeverEarly
  <2>. QED BY <2>6, <2>7
<1>4. ASSUME NEW p \in Procs, Awake(p), ~Fails PROVE Time
  <2>1. sem' = [sem EXCEPT ![p] = @ - 1] /\ sem[p] > 0 /\ UNCHANGED << used, left, owed >>
    BY <1>4 DEF Awake
  <2>2. sem'[q] > 0 => sem[q] > 0
    BY <2>1 DEF ClockTypeOK
  <2>. QED BY <2>1, <2>2 DEF Owing, NeverEarly
<1>5. CASE Scan
  <2>1. PICK p \in driver.todo : IF Due(p) THEN WakeSlot(p) ELSE UNCHANGED << used, left, sem >>
    BY <1>5 DEF Scan
  <2>2. p \in Procs /\ owed' = owed
    BY <1>5 DEF Scan, ClockTypeOK
  <2>3. CASE Due(p)
    <3>1. /\ used' = [used EXCEPT ![p] = FALSE] /\ left' = [left EXCEPT ![p] = 0]
          /\ sem' = [sem EXCEPT ![p] = @ + 1]
      BY <2>1, <2>3 DEF WakeSlot
    <3>2. driver.seen \in Nat
      BY <2>3 DEF Due, ClockTypeOK, Ages
    <3>3. owed[p] = 0
      BY <2>2, <2>3, <3>2 DEF Due, Owing, ClockTypeOK
    <3>4. CASE q = p
      BY <2>2, <3>1, <3>3, <3>4 DEF ClockTypeOK
    <3>5. CASE q # p
      BY <2>2, <3>1, <3>5 DEF ClockTypeOK, Owing, NeverEarly
    <3>. QED BY <3>4, <3>5
  <2>4. CASE ~Due(p)
    BY <1>1, <2>1, <2>2, <2>4
  <2>. QED BY <2>3, <2>4
<1>6. CASE WaitDevice \/ (Lock /\ ~Fails) \/ Unlock
  BY <1>1, <1>6 DEF WaitDevice, Lock, Unlock, slotVars
<1>7. CASE Tick
  <2>1. /\ left' = [p \in Procs |-> IF used[p] THEN left[p] - 1 ELSE 0]
        /\ owed' = [p \in Procs |-> Less(owed[p])] /\ UNCHANGED << used, sem >>
    BY <1>7 DEF Tick
  <2>2. owed'[q] = IF owed[q] = 0 THEN 0 ELSE owed[q] - 1
    BY <2>1 DEF Less
  <2>3. used[q] => left'[q] = left[q] - 1
    BY <2>1
  <2>. QED BY <2>1, <2>2, <2>3 DEF Owing, NeverEarly, ClockTypeOK
<1>8. CASE OtherInterrupt \/ Shutdown \/ ShutdownLock
  BY <1>1, <1>8 DEF OtherInterrupt, Shutdown, ShutdownLock, slotVars
<1>9. CASE FreeAll /\ ~Fails
  <2>1. used' = [p \in Procs |-> FALSE] /\ UNCHANGED << sem, owed >>
    BY <1>9, Zenon DEF FreeAll, SlotsFree
  <2>2. ~used'[q]
    BY <2>1
  <2>. QED BY <2>1, <2>2 DEF NeverEarly
<1>10. CASE UNCHANGED clkVars
  BY <1>1, <1>10 DEF clkVars, slotVars
<1>. QED
  BY <1>2, <1>3, <1>4, <1>5, <1>6, <1>7, <1>8, <1>9, <1>10
  DEF ClockNext, DriverStep, BossStep

LEMMA TimingInit == ClockInit => Owing /\ NeverEarly
<1> SUFFICES ASSUME ClockInit, NEW p \in Procs
             PROVE  (used[p] => owed[p] = IF left[p] < 0 THEN 0 ELSE left[p])
                    /\ (sem[p] > 0 => owed[p] = 0)
  BY DEF Owing, NeverEarly
<1>1. ~used[p] /\ owed[p] = 0
  BY Zenon DEF ClockInit
<1>. QED BY <1>1

(* If no sleep overflows, nobody is woken before its time, although the    *)
(* driver may look at a time that is long gone.                            *)
THEOREM NotWokenEarly == ASSUME NoOverflow PROVE ClockSpec => []NeverEarly
<1>1. ClockInit => Timing
  BY TypeInit, LocksInit, OnceInit, TimingInit DEF Timing
<1>2. Timing /\ [ClockNext]_clkVars => Timing'
  BY TypeNext, LocksNext, OnceNext, TimingNext DEF Timing
<1>3. Timing => NeverEarly
  BY DEF Timing
<1>. QED BY <1>1, <1>2, <1>3, PTL DEF ClockSpec
=============================================================================
