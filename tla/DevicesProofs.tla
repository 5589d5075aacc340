--------------------------- MODULE DevicesProofs ---------------------------
(***************************************************************************)
(* The handlers of module Devices go on in the middle, with interrupts     *)
(* enabled and on any stack: what holds of the scheduler, of the types and *)
(* of the status of a disk all the same, for every number of processes,    *)
(* devices, nested handlers and every length of a quantum.                 *)
(***************************************************************************)
EXTENDS Devices, KernelProofs

(* What the proofs need to know of the devices *)
LEMMA DeviceSets ==
  /\ Clock \in DevSems /\ Disks \subseteq DevSems /\ DevSems \subseteq Sem
  /\ Clock \notin Disks /\ NoPid \notin Pid /\ NoDev \notin DevSems
<1>1. NumDev \in Nat /\ 0 \in 0 .. NumDev - 1
  BY KernelAssumption, DevicesAssumption
<1>2. Clock \in DevSems /\ Disks \subseteq DevSems /\ Clock \notin Disks
  BY <1>1 DEF Clock, Disks, DevSems
<1>3. NoPid \notin Pid /\ NoDev \notin DevSems
  BY <1>1, MaxProcAssumption DEF NoPid, NoDev, Pid, DevSems
<1> QED BY <1>2, <1>3, SemSets

-----------------------------------------------------------------------------
(* What a clock handler does to the scheduler, at whatever point of its    *)
(* code: nothing, or P1Dispatch, and a unit for the clock's semaphore when *)
(* nobody waits there.                                                     *)
Rotates ==
  /\ On /\ UNCHANGED << CID, misled, semUsed, semQ >>
  /\ pc' = pc \/ (pc[CID].at = "sWait" /\ Goto("sCheck", 0))
  /\ value' \in [Sem -> 0 .. MaxValue]
  /\ (Dispatch(TRUE) /\ InDispatch) \/ UNCHANGED << vars, sw >>

LEMMA RotatesTable ==
  ASSUME KInv, Rotates
  PROVE  /\ Inv' /\ Settles(state) /\ first' = first /\ quitChildren' = quitChildren
         /\ sw' \in [Pid -> Seq(Pid \cup {NoPid})]
         /\ PendingHere' /\ HeadRuns'
<1>1. On /\ CID \in Pid /\ UNCHANGED << CID, misled >>
  BY PlaceTypes DEF Rotates
<1>2. CASE Dispatch(TRUE) /\ InDispatch
  <2>1. Inv' /\ Settles(state) /\ UNCHANGED << quitChildren, first >>
        /\ (halted' = "no" => ~pending')
    BY <1>2, DispatchInv, DispatchEffect DEF KInv, TypeInv
  <2>2. sw' \in [Pid -> Seq(Pid \cup {NoPid})]
    BY <1>1, <1>2, PlaceTypes, InDispatchOK
  <2>3. HeadRuns'
    BY <1>1, <1>2, InDispatchRuns
  <2> QED BY <2>1, <2>2, <2>3 DEF PendingHere, On
<1>3. CASE UNCHANGED << vars, sw >>
  <2>1. Inv'
    BY <1>3, NextInv DEF KInv, TypeInv
  <2>2. state' = state /\ UNCHANGED << quitChildren, first, pending, halted, queue, cid >>
    BY <1>3 DEF vars
  <2>3. Settles(state)
    BY <2>2, PlaceTypes DEF Settles
  <2>4. HeadRuns'
    BY <1>1, <1>3, <2>2, SameHeadRuns
  <2>5. PendingHere'
    <3>1. On /\ pending => pc[CID].at = "Pdisp" /\ sw[CID] = << >>
      BY DEF KInv, TypeInv, PendingHere
    <3>2. pc' = pc \/ pc[CID].at = "sWait"
      BY DEF Rotates
    <3> QED BY <1>1, <1>3, <2>2, <3>1, <3>2 DEF PendingHere, On
  <2> QED BY <1>3, <2>1, <2>2, <2>3, <2>4, <2>5, PlaceTypes
<1> QED BY <1>2, <1>3 DEF Rotates

LEMMA RotatesInv ==
  ASSUME KInv, Rotates
  PROVE  KInv'
<1>1. /\ On /\ CID \in Pid /\ UNCHANGED << CID, misled, semUsed, semQ >>
      /\ pc' = pc \/ (pc[CID].at = "sWait" /\ Goto("sCheck", 0))
      /\ value' \in [Sem -> 0 .. MaxValue]
  BY PlaceTypes DEF Rotates
<1>2. /\ Inv' /\ Settles(state) /\ first' = first /\ quitChildren' = quitChildren
      /\ sw' \in [Pid -> Seq(Pid \cup {NoPid})]
      /\ PendingHere' /\ HeadRuns'
  BY RotatesTable
<1>3. TypeInv
  BY DEF KInv
<1>4. PcOK'
  <2>1. CASE pc' = pc
    BY <1>3, <2>1, OwnTypes DEF PcOK, Args
  <2>2. CASE pc[CID].at = "sWait" /\ Goto("sCheck", 0)
    BY <1>1, <1>3, <2>2, OwnTypes, GotoOK, SemSets DEF Points
  <2> QED BY <1>1, <2>1, <2>2
<1>5. TypeInv'
  BY <1>1, <1>2, <1>3, <1>4, OwnTypes
     DEF TypeInv, KTypeOK, PcOK, Inv, Started
<1>6. state' \in [Pid -> States]
  BY <1>2 DEF Inv, TypeOK
<1>7. Places'
  BY <1>1, <1>2, <1>6, SemSets, WakingPlaces DEF Settles, Points
<1> QED BY <1>2, <1>5, <1>7 DEF KInv

(* P1_WakeupDevice called by a process *)
LEMMA AbortInv ==
  ASSUME KInv, Here("user"), NEW s \in Sem, SemV(s), UNCHANGED << CID, pc, misled >>
  PROVE  KInv'
<1>1. /\ On /\ CID \in Pid /\ ~pending /\ ~misled /\ ~first /\ TypeInv
  BY RunsHere DEF Points, KInv
<1>2. /\ UNCHANGED << semUsed, first >>
      /\ value' \in [Sem -> 0 .. MaxValue] /\ semQ' \in [Sem -> Seq(Pid)]
      /\ sw' \in [Pid -> Seq(Pid \cup {NoPid})]
      /\ halted' = "no" => ~pending'
  BY <1>1, SemVOwn
<1>3. Inv'
  <2>1. OtherStep
    BY <1>1, SemVTable DEF OtherStep, TypeInv
  <2> QED BY <1>1, <2>1, TableStepInv DEF TableStep, TypeInv
<1>4. PcOK'
  BY <1>1, OwnTypes DEF PcOK, Args
<1>5. TypeInv'
  BY <1>1, <1>2, <1>3, <1>4, OwnTypes
     DEF TypeInv, KTypeOK, PcOK, Inv, Started, PendingHere, On
<1>6. /\ HeadRuns'
      /\ \A p \in Pid : \A t \in {"Free", "Quit", "Joining"} :
           state'[p] = t <=> state[p] = t
      /\ \A p \in Pid : state'[p] = "Blocked" => state[p] = "Blocked"
      /\ quitChildren' = quitChildren
  BY <1>1, SemVPlaces
<1>7. state' \in [Pid -> States]
  BY <1>3 DEF Inv, TypeOK
<1>8. Places'
  BY <1>1, <1>6, <1>7, WakingPlaces
<1> QED BY <1>5, <1>6, <1>8 DEF KInv


-----------------------------------------------------------------------------
(* Every step of Devices is one of the kernel's, or one of the above.      *)
Aborted == \E s \in Sem : /\ Here("user") /\ SemV(s)
                          /\ UNCHANGED << CID, pc, misled >>

LEMMA TickRotates ==
  ASSUME KInv, TickPasses
  PROVE  Rotates
<1>1. /\ On /\ UNCHANGED << CID, misled, semUsed, semQ >>
      /\ pc' = pc \/ (pc[CID].at = "sWait" /\ Goto("sCheck", 0))
      /\ (Dispatch(TRUE) /\ InDispatch) \/ UNCHANGED << vars, sw >>
  BY DEF TickPasses, Interrupt
<1>2. value \in [Sem -> 0 .. MaxValue] /\ MaxValue \in Nat
  BY OwnTypes, SemSets DEF KInv
<1>3. value' = value \/ /\ value[Clock] < MaxValue
                        /\ value' = [value EXCEPT ![Clock] = @ + 1]
  BY DEF TickPasses
<1>4. value' \in [Sem -> 0 .. MaxValue]
  BY <1>2, <1>3, DeviceSets
<1> QED BY <1>1, <1>4 DEF Rotates

LEMMA HandlerRotates ==
  ASSUME KInv, HandlerGoesOn
  PROVE  Rotates
BY OwnTypes DEF KInv, HandlerGoesOn, Due, Rotates, semVars

LEMMA DeviceStep ==
  ASSUME KInv, DNext
  PROVE  KNext \/ UNCHANGED kvars \/ Rotates \/ Aborted
<1>1. CASE TickWakes
  BY <1>1, DeviceSets DEF TickWakes, WakeupDevice, DeviceInterrupt, KNext
<1>2. CASE TickPasses \/ HandlerGoesOn
  BY <1>2, TickRotates, HandlerRotates
<1>3. CASE \E d \in Disks, st \in Statuses : DiskInterrupt(d, st)
  BY <1>3, DeviceSets DEF DiskInterrupt, WakeupDevice, DeviceInterrupt, KNext
<1>4. CASE \E d \in Disks : Request(d)
  BY <1>4 DEF Request
<1>5. CASE \E d \in DevSems : Wait(d) \/ Read(d)
  BY <1>5 DEF Wait, Read, KNext
<1>6. CASE WaitAgain \/ WaitDispatch
  BY <1>6 DEF WaitAgain, WaitDispatch, PDispatch, KNext
<1>7. CASE AbortClock
  BY <1>7, DeviceSets DEF AbortClock, WakeupDevice, Aborted
<1>8. CASE KernelStep
  BY <1>8 DEF KernelStep, KNext
<1> QED BY <1>1, <1>2, <1>3, <1>4, <1>5, <1>6, <1>7, <1>8 DEF DNext

LEMMA DeviceKInv ==
  ASSUME KInv, [DNext]_dvars
  PROVE  KInv'
<1>1. CASE DNext
  <2>1. CASE KNext \/ UNCHANGED kvars
    BY <2>1, KInvStep
  <2>2. CASE Rotates
    BY <2>2, RotatesInv
  <2>3. CASE Aborted
    BY <2>3, AbortInv DEF Aborted
  <2> QED BY <1>1, <2>1, <2>2, <2>3, DeviceStep
<1>2. CASE UNCHANGED dvars
  BY <1>2, KInvStep DEF dvars
<1> QED BY <1>1, <1>2

LEMMA DeviceKInvariance == DSpec => []KInv
<1>1. DInit => KInv
  BY KInitInv DEF DInit
<1>2. KInv /\ [DNext]_dvars => KInv'
  BY DeviceKInv
<1> QED BY <1>1, <1>2, PTL DEF DSpec

(* With handlers of the clock and of the disks that go on in the middle    *)
(* after P1Dispatch, the code that runs is still that of the head of the   *)
(* dispatch queue, and every process stands where its state says.          *)
THEOREM HandlersRunItself == DSpec => []RunsItself
BY DeviceKInvariance, RunsItselfHolds, PTL


(* The handlers are steps on the process table, too: so everything that is *)
(* proved of ProcTable holds here.                                         *)
THEOREM DevicesImplementTable ==
  ASSUME 2 \in ForkPrios, Tags = Tag
  PROVE  DSpec => Spec
<1>1. DInit => Init
  BY DEF DInit, KInit
<1>2. KInv /\ [DNext]_dvars => [Next]_vars
  <2> SUFFICES ASSUME KInv, [DNext]_dvars PROVE [Next]_vars
    OBVIOUS
  <2>1. CASE [KNext]_kvars
    BY <2>1, KernelTable
  <2>2. CASE Rotates
    BY <2>2 DEF Rotates, Next
  <2>3. CASE Aborted
    BY <2>3, SemVTable DEF Aborted, Next, KInv, TypeInv
  <2>4. CASE UNCHANGED dvars
    BY <2>4 DEF dvars, kvars
  <2> QED BY <2>1, <2>2, <2>3, <2>4, DeviceStep
<1> QED BY <1>1, <1>2, DeviceKInvariance, PTL DEF DSpec, Spec


-----------------------------------------------------------------------------
(* Types: a handler that waits on a stack knows the depth it comes back at *)
(* (there is room for it below MaxNest) and the counter stays bounded.     *)
Frames == [depth : 0 .. MaxNest, then : {"quantum", "rotate", "reset", "clear"},
           tick : 0 .. 2 * Reset]

(* P1_P is called by P1_WaitDevice only. *)
DeviceArgs ==
  \A c \in Pid : pc[c].at \in {"P", "Pdisp"} => pc[c].arg \in DevSems

Typed == KInv /\ DTypeOK /\ DeviceArgs

LEMMA ResetPositive == Reset \in Nat \ {0}
<1>1. \A m, n \in Nat \ {0} : m * n \in Nat \ {0}
  OBVIOUS
<1> QED BY <1>1, DevicesAssumption DEF Reset

LEMMA CountBounded ==
  ASSUME NEW t \in 0 .. 2 * Reset
  PROVE  Count(t) \in 0 .. 2 * Reset
<1> DEFINE R == Reset
<1>1. R \in Nat \ {0}
  BY ResetPositive
<1> HIDE DEF R
<1>2. ASSUME NEW n \in 0 .. 2 * R
      PROVE  (IF n = 2 * R THEN R + 1 ELSE n + 1) \in 0 .. 2 * R
  BY <1>1, <1>2
<1> QED BY <1>2 DEF Count, R

LEMMA PushType ==
  ASSUME handlers \in [Pid -> Seq(Frames)], CID \in Pid,
         sw \in [Pid -> Seq(Pid \cup {NoPid})], Len(sw[CID]) < MaxNest,
         ticks' \in 0 .. 2 * Reset, NEW a \in {"quantum", "reset"}, Push(a)
  PROVE  handlers' \in [Pid -> Seq(Frames)]
<1> DEFINE f == [depth |-> Len(sw[CID]), then |-> a, tick |-> ticks']
<1>1. Len(sw[CID]) \in Nat /\ MaxNest \in Nat
  <2>1. sw[CID] \in Seq(Pid \cup {NoPid})
    OBVIOUS
  <2> QED BY <2>1, LenProperties, KernelAssumption
<1>2. Len(sw[CID]) \in 0 .. MaxNest
  BY <1>1
<1>3. f \in Frames
  BY <1>2 DEF Frames
<1>4. handlers' = [handlers EXCEPT ![CID] = Append(handlers[CID], f)]
  BY DEF Push
<1> HIDE DEF f
<1>5. Append(handlers[CID], f) \in Seq(Frames)
  BY <1>3, AppendProperties
<1> QED BY <1>4, <1>5

LEMMA PopType ==
  ASSUME handlers \in [Pid -> Seq(Frames)], CID \in Pid, handlers[CID] # << >>, Pop
  PROVE  handlers' \in [Pid -> Seq(Frames)]
<1>1. Front(handlers[CID]) \in Seq(Frames)
  BY FrontLast
<1> QED BY <1>1 DEF Pop

LEMMA ThenAtType ==
  ASSUME handlers \in [Pid -> Seq(Frames)], CID \in Pid, handlers[CID] # << >>,
         NEW a \in {"rotate", "reset", "clear"}, ThenAt(a)
  PROVE  handlers' \in [Pid -> Seq(Frames)]
<1> DEFINE q == handlers[CID]
           n == Len(q)
<1>1. /\ q \in Seq(Frames) /\ n \in Nat \ {0}
      /\ \A i \in 1 .. n : q[i] \in Frames
  BY EmptySeq, LenProperties, ElementOfSeq
<1>2. q[n] \in Frames
  BY <1>1
<1>3. [q[n] EXCEPT !.then = a] \in Frames
  BY <1>2 DEF Frames
<1>4. handlers' = [handlers EXCEPT ![CID] = [q EXCEPT ![n] = [q[n] EXCEPT !.then = a]]]
  BY DEF ThenAt
<1> HIDE DEF q
<1>5. \A e \in Frames : [q EXCEPT ![n] = e] \in Seq(Frames)
  <2>1. n \in 1 .. Len(q)
    BY <1>1
  <2> QED BY <1>1, <2>1, ExceptSeq
<1> QED BY <1>3, <1>4, <1>5


(* The variables of Devices' own *)
DTypes ==
  /\ ticks \in 0 .. 2 * Reset /\ handlers \in [Pid -> Seq(Frames)]
  /\ devStatus \in [DevSems -> Results] /\ okToAbort \in BOOLEAN
  /\ returning \in [Pid -> DevSems \cup {NoDev}]
  /\ driver \in [Disks -> Pid \cup {NoPid}] /\ answer \in [Disks -> Results]

LEMMA TypedParts ==
  ASSUME Typed
  PROVE  /\ KInv /\ DTypes /\ DeviceArgs
         /\ On => CID \in Pid /\ ~misled
         /\ sw \in [Pid -> Seq(Pid \cup {NoPid})]
         /\ pc \in [Pid -> [at : Points, arg : Sem \cup Tag]]
         /\ value \in [Sem -> 0 .. MaxValue]
BY PlaceTypes, OwnTypes DEF Typed, DTypeOK, DTypes, Frames, KInv

(* Steps at the end of which nobody is in P1_P who was not there before    *)
PcStays ==
  \A c \in Pid : pc'[c].at \in {"P", "Pdisp"}
                 => pc[c].at \in {"P", "Pdisp"} /\ pc'[c].arg = pc[c].arg

LEMMA GotoStays ==
  ASSUME KInv, On, NEW a \in Points \ {"P", "Pdisp"}, NEW x, Goto(a, x)
  PROVE  PcStays
BY PlaceTypes DEF Goto, At, PcStays

LEMMA InterruptStays ==
  ASSUME KInv, Interrupt
  PROVE  PcStays /\ On /\ CID \in Pid /\ CID' = CID /\ Len(sw[CID]) < MaxNest
<1>1. On /\ CID \in Pid /\ CID' = CID /\ Len(sw[CID]) < MaxNest
  BY PlaceTypes DEF Interrupt
<1>2. Goto("sCheck", 0) \/ pc' = pc
  BY DEF Interrupt
<1> QED BY <1>1, <1>2, GotoStays DEF PcStays, Points

LEMMA DispatchStays ==
  ASSUME KInv, PDispatch
  PROVE  PcStays
BY PlaceTypes DEF PDispatch, Here, Goto, At, Arg, PcStays

LEMMA ForkStays ==
  ASSUME KInv, NEW a \in {"user", "sFork"}, Here(a), NEW pr \in Prio, NEW tg \in Tag,
         NEW then \in {"user", "sCheck"}, ForkCall(pr, tg, then)
  PROVE  PcStays
<1> DEFINE c == FreeContext
<1>1. CID \in Pid /\ ~first
  BY RunsHere DEF Points
<1>2. c \in Pid
  BY <1>1, ForkInv DEF ForkCall, KInv, TypeInv
<1>3. pc' = [pc EXCEPT ![c] = [at |-> "new", arg |-> 0],
                       ![CID] = [at |-> then, arg |-> 0]]
  BY DEF ForkCall, At
<1> HIDE DEF c
<1>4. \A e \in Pid : pc'[e].at \in {"new", "user", "sCheck"} \/ pc'[e] = pc[e]
  BY <1>1, <1>2, <1>3, PlaceTypes
<1> QED BY <1>4 DEF PcStays

LEMMA KernelStays ==
  ASSUME KInv, KernelStep
  PROVE  PcStays
<1>1. CASE KBoot
  BY <1>1, PlaceTypes DEF KBoot, At, PcStays
<1>2. CASE EvalTarget \/ ContextSwitch \/ Stopped
  BY <1>2 DEF EvalTarget, ContextSwitch, Stopped, kvars, PcStays
<1>3. CASE Launch
  BY <1>3, GotoStays DEF Launch, Here, Points
<1>4. CASE \E pr \in ForkPrios, tg \in Tags : UserFork(pr, tg)
  BY <1>4, ForkStays, ForkPriosAssumption, TagsAssumption DEF UserFork, Prio, Tag
<1>5. CASE SentinelFork
  BY <1>5, ForkStays DEF SentinelFork, Prio, Tag
<1>6. CASE SentinelStep
  BY <1>6, GotoStays DEF SentinelStep, Here, Points
<1> QED BY <1>1, <1>2, <1>3, <1>4, <1>5, <1>6 DEF KernelStep


(* P1_WakeupDevice leaves the status of its own device only. *)
LEMMA WakeupStatus ==
  ASSUME DTypes, NEW d \in DevSems, NEW st \in Results, NEW abort \in BOOLEAN,
         WakeupDevice(d, st, abort)
  PROVE  /\ devStatus' \in [DevSems -> Results] /\ okToAbort' \in BOOLEAN
         /\ devStatus'[d] = st
         /\ \A e \in DevSems \ {d} : devStatus'[e] = devStatus[e]
BY DEF DTypes, WakeupDevice

LEMMA TickTypes ==
  ASSUME Typed, TickWakes \/ TickPasses
  PROVE  /\ DTypes' /\ PcStays /\ UNCHANGED << diskVars, returning >>
         /\ \A d \in Disks : devStatus'[d] = devStatus[d]
<1>1. /\ KInv /\ DTypes /\ CID \in Pid /\ sw \in [Pid -> Seq(Pid \cup {NoPid})]
      /\ Interrupt /\ ticks' = Count(ticks) /\ UNCHANGED << diskVars, returning >>
  BY TypedParts, InterruptStays DEF TickWakes, TickPasses
<1>2. Len(sw[CID]) < MaxNest /\ PcStays
  BY <1>1, InterruptStays
<1>3. ticks' \in 0 .. 2 * Reset
  BY <1>1, CountBounded DEF DTypes
<1>4. (\E a \in {"quantum", "reset"} : Push(a)) \/ handlers' = handlers
  BY DEF TickWakes, TickPasses
<1>5. handlers' \in [Pid -> Seq(Frames)]
  BY <1>1, <1>2, <1>3, <1>4, PushType DEF DTypes
<1>6. /\ devStatus' \in [DevSems -> Results] /\ okToAbort' \in BOOLEAN
      /\ \A e \in DevSems \ {Clock} : devStatus'[e] = devStatus[e]
  <2>1. CASE TickWakes
    <3>1. WakeupDevice(Clock, "tick", FALSE)
      BY <2>1 DEF TickWakes
    <3> QED BY <1>1, <3>1, DeviceSets, WakeupStatus DEF Results
  <2>2. CASE TickPasses
    <3>1. \/ UNCHANGED << devStatus, okToAbort >>
          \/ /\ devStatus' = [devStatus EXCEPT ![Clock] = "tick"]
             /\ okToAbort' = FALSE
      BY <2>2 DEF TickPasses
    <3> QED BY <1>1, <3>1, DeviceSets DEF DTypes, Results
  <2> QED BY <2>1, <2>2
<1>7. DTypes'
  BY <1>1, <1>3, <1>5, <1>6 DEF DTypes, diskVars
<1> QED BY <1>1, <1>2, <1>6, <1>7, DeviceSets

LEMMA HandlerTypes ==
  ASSUME Typed, HandlerGoesOn
  PROVE  DTypes' /\ PcStays /\ UNCHANGED << value, diskVars, waitVars >>
<1>1. /\ KInv /\ DTypes /\ CID \in Pid /\ handlers[CID] # << >>
      /\ UNCHANGED << semVars, pc, diskVars, waitVars >>
  BY TypedParts DEF HandlerGoesOn, Due
<1>2. /\ ticks' \in {0, ticks}
      /\ Pop \/ \E a \in {"rotate", "reset", "clear"} : ThenAt(a)
  BY DEF HandlerGoesOn
<1>3. handlers' \in [Pid -> Seq(Frames)]
  BY <1>1, <1>2, PopType, ThenAtType DEF DTypes
<1>4. ticks' \in 0 .. 2 * Reset
  BY <1>1, <1>2, ResetPositive DEF DTypes
<1> QED BY <1>1, <1>3, <1>4 DEF DTypes, PcStays, semVars, diskVars, waitVars

LEMMA WakeTypes ==
  ASSUME Typed, NEW d \in DevSems, NEW st \in Results, NEW abort \in BOOLEAN,
         WakeupDevice(d, st, abort), UNCHANGED << tickVars, returning, driver >>,
         answer' \in [Disks -> Results]
  PROVE  DTypes'
BY TypedParts, WakeupStatus DEF DTypes, tickVars

LEMMA WaitTypes ==
  ASSUME Typed, \/ \E d \in Disks : Request(d)
                \/ \E d \in DevSems : Wait(d) \/ Read(d)
                \/ WaitAgain
  PROVE  DTypes'
<1>1. DTypes /\ (On => CID \in Pid) /\ DeviceArgs
  BY TypedParts
<1>2. "none" \in Results
  BY DEF Results
<1>3. ASSUME NEW d \in DevSems, Returns(d)
      PROVE  driver' \in [Disks -> Pid \cup {NoPid}] /\ answer' \in [Disks -> Results]
  BY <1>1, <1>2, <1>3 DEF DTypes, Returns, diskVars
<1>4. CASE \E d \in Disks : Request(d)
  BY <1>1, <1>4 DEF Request, Here, DTypes, tickVars, waitVars
<1>5. CASE \E d \in DevSems : Wait(d)
  BY <1>1, <1>3, <1>5 DEF Wait, DTypes, tickVars, waitVars, diskVars
<1>6. CASE \E d \in DevSems : Read(d)
  <2>1. PICK d \in DevSems : Read(d)
    BY <1>6
  <2>2. Returns(d) /\ returning' = [returning EXCEPT ![CID] = NoDev]
        /\ UNCHANGED << tickVars, devStatus, okToAbort >>
    BY <2>1 DEF Read
  <2> QED BY <1>1, <1>3, <2>2 DEF DTypes, tickVars
<1>7. CASE WaitAgain
  <2>1. /\ returning' = [returning EXCEPT ![CID] = IF value[Arg] > 0 THEN Arg ELSE NoDev]
        /\ UNCHANGED << tickVars, diskVars, devStatus, okToAbort >>
        /\ Here("P")
    BY <1>7 DEF WaitAgain
  <2>2. Arg \in DevSems
    BY <1>1, <2>1 DEF DeviceArgs, Here, Arg
  <2> QED BY <1>1, <2>1, <2>2 DEF DTypes, tickVars, diskVars
<1> QED BY <1>4, <1>5, <1>6, <1>7


-----------------------------------------------------------------------------
(* The status of a disk.  Only its driver waits for it or is about to read *)
(* it; there is a unit for it only between the interrupt and that, one     *)
(* unit, and the status it left is still the answer to the request.        *)
WaitingAt(c, d) == pc[c].at \in {"P", "Pdisp"} /\ pc[c].arg = d

OneAnswer(d) ==
  /\ value[d] \in 0 .. 1
  /\ answer[d] = "none" => value[d] = 0 /\ \A c \in Pid : returning[c] # d
  /\ answer[d] # "none" => devStatus[d] = answer[d]
  /\ driver[d] = NoPid => answer[d] = "none"
  /\ \A c \in Pid : returning[c] = d => driver[d] = c /\ value[d] = 0
  /\ \A c \in Pid : WaitingAt(c, d) => driver[d] = c

DeviceInv == Typed /\ \A d \in Disks : OneAnswer(d)

(* Steps that are none of the disk's business *)
LEMMA OtherAnswer ==
  ASSUME DeviceInv, NEW d \in Disks,
         \A c \in Pid : WaitingAt(c, d)' => WaitingAt(c, d),
         value'[d] = value[d], answer'[d] = answer[d], driver'[d] = driver[d],
         devStatus'[d] = devStatus[d],
         \A c \in Pid : returning'[c] = d => returning[c] = d
  PROVE  OneAnswer(d)'
BY DEF DeviceInv, OneAnswer

LEMMA SameAnswer ==
  ASSUME DeviceInv, NEW d \in Disks, PcStays,
         value'[d] = value[d], answer'[d] = answer[d], driver'[d] = driver[d],
         devStatus'[d] = devStatus[d],
         \A c \in Pid : returning'[c] = d => returning[c] = d
  PROVE  OneAnswer(d)'
<1>1. \A c \in Pid : WaitingAt(c, d)' => WaitingAt(c, d)
  BY DEF WaitingAt, PcStays
<1> QED BY <1>1, OtherAnswer

LEMMA SameArgs ==
  ASSUME Typed, PcStays
  PROVE  DeviceArgs'
BY DEF Typed, DeviceArgs, PcStays

(* The processes that wait for d stay where they are; what happens to one  *)
(* disk does not touch another.                                            *)
LEMMA InterruptAnswer ==
  ASSUME DeviceInv, NEW d \in Disks, NEW st \in Statuses, DiskInterrupt(d, st)
  PROVE  DTypes' /\ DeviceArgs' /\ \A e \in Disks : OneAnswer(e)'
<1>1. /\ Typed /\ KInv /\ PcStays /\ WakeupDevice(d, st, FALSE) /\ answer[d] = "none"
      /\ driver[d] # NoPid /\ answer' = [answer EXCEPT ![d] = st]
      /\ UNCHANGED << tickVars, returning, driver >>
  BY TypedParts, InterruptStays DEF DeviceInv, DiskInterrupt
<1>2. st \in Results /\ st # "none" /\ d \in DevSems /\ d \in Sem
  BY DeviceSets, DevicesAssumption DEF Results
<1>3. DTypes /\ value \in [Sem -> 0 .. MaxValue]
  BY <1>1, TypedParts
<1>4. /\ devStatus'[d] = st
      /\ \A e \in DevSems \ {d} : devStatus'[e] = devStatus[e]
  BY <1>1, <1>2, <1>3, WakeupStatus
<1>5. answer' \in [Disks -> Results] /\ answer'[d] = st
      /\ \A e \in Disks \ {d} : answer'[e] = answer[e]
  BY <1>1, <1>2, <1>3 DEF DTypes
<1>6. value' = [value EXCEPT ![d] = @ + 1]
  BY <1>1 DEF WakeupDevice, SemV
<1>7. OneAnswer(d)'
  <2>1. OneAnswer(d)
    BY DEF DeviceInv
  <2>2. value[d] = 0 /\ \A c \in Pid : returning[c] # d
    BY <1>1, <2>1 DEF OneAnswer
  <2>3. value'[d] = 1
    BY <1>2, <1>3, <1>6, <2>2
  <2>4. \A c \in Pid : WaitingAt(c, d)' => driver'[d] = c
    BY <1>1, <2>1 DEF OneAnswer, WaitingAt, PcStays
  <2> QED BY <1>1, <1>2, <1>4, <1>5, <2>2, <2>3, <2>4 DEF OneAnswer
<1>8. ASSUME NEW e \in Disks \ {d} PROVE OneAnswer(e)'
  <2>1. value'[e] = value[e] /\ e \in DevSems
    BY <1>3, <1>6, DeviceSets
  <2> QED BY <1>1, <1>4, <1>5, <2>1, SameAnswer
<1>9. DTypes'
  BY <1>1, <1>2, <1>5, WakeTypes
<1> QED BY <1>1, <1>7, <1>8, <1>9, SameArgs

LEMMA RequestAnswer ==
  ASSUME DeviceInv, NEW d \in Disks, Request(d)
  PROVE  DeviceArgs' /\ \A e \in Disks : OneAnswer(e)'
<1>1. /\ Typed /\ DTypes /\ CID \in Pid /\ driver[d] = NoPid
      /\ driver' = [driver EXCEPT ![d] = CID]
      /\ UNCHANGED << kvars, tickVars, waitVars, answer >>
  BY TypedParts DEF DeviceInv, Request, Here
<1>2. /\ UNCHANGED << value, pc, returning, devStatus >> /\ PcStays
  BY <1>1 DEF kvars, semVars, waitVars, PcStays
<1>3. OneAnswer(d)'
  <2>1. OneAnswer(d) /\ NoPid \notin Pid
    BY DeviceSets DEF DeviceInv
  <2>2. \A c \in Pid : ~WaitingAt(c, d) /\ returning[c] # d
    BY <1>1, <2>1 DEF OneAnswer
  <2>3. driver'[d] \in Pid
    BY <1>1 DEF DTypes
  <2>4. driver'[d] # NoPid
    BY <2>1, <2>3
  <2> QED BY <1>1, <1>2, <2>1, <2>2, <2>4 DEF OneAnswer, WaitingAt
<1>4. ASSUME NEW e \in Disks \ {d} PROVE OneAnswer(e)'
  <2>1. driver'[e] = driver[e]
    BY <1>1 DEF DTypes
  <2> QED BY <1>1, <1>2, <2>1, SameAnswer
<1> QED BY <1>1, <1>2, <1>3, <1>4, SameArgs


(* P1_P on the semaphore of a device: the process takes a unit, or is in   *)
(* P1_P for it.                                                            *)
LEMMA TakeOrBlockAt ==
  ASSUME Typed, On, NEW s \in DevSems, NEW now \in BOOLEAN, TakeOrBlock(s, now)
  PROVE  /\ value[s] > 0 => value' = [value EXCEPT ![s] = @ - 1] /\ PcStays
         /\ ~(value[s] > 0) => value' = value
         /\ \A c \in Pid : pc'[c].at \in {"P", "Pdisp"}
              => \/ pc[c].at \in {"P", "Pdisp"} /\ pc'[c].arg = pc[c].arg
                 \/ c = CID /\ pc'[c].arg = s
<1>1. /\ KInv /\ CID \in Pid /\ value[s] \in Nat
      /\ pc \in [Pid -> [at : Points, arg : Sem \cup Tag]]
  BY TypedParts, DeviceSets
<1>2. CASE value[s] > 0 /\ value' = [value EXCEPT ![s] = @ - 1] /\ Goto("user", 0)
  <2>1. PcStays
    BY <1>1, <1>2, GotoStays DEF Points
  <2> QED BY <1>2, <2>1 DEF PcStays
<1>3. CASE value[s] = 0 /\ value' = value /\ (Goto("P", s) \/ Goto("Pdisp", s))
  <2>1. \A c \in Pid : pc'[c] = pc[c] \/ (c = CID /\ pc'[c].arg = s)
    BY <1>1, <1>3 DEF Goto, At
  <2> QED BY <1>3, <2>1
<1> QED BY <1>2, <1>3 DEF TakeOrBlock

LEMMA WaitAnswer ==
  ASSUME DeviceInv, NEW d \in DevSems, Wait(d)
  PROVE  DeviceArgs' /\ \A e \in Disks : OneAnswer(e)'
<1>1. /\ Typed /\ DTypes /\ DeviceArgs /\ On /\ CID \in Pid
      /\ value \in [Sem -> 0 .. MaxValue] /\ Here("user")
      /\ TakeOrBlock(d, TRUE) /\ UNCHANGED << tickVars, waitVars >>
      /\ IF value[d] > 0 THEN Returns(d) ELSE UNCHANGED diskVars
      /\ d \in Disks => driver[d] = CID
      /\ d \in Sem /\ value[d] \in Nat
  <2>1. /\ Here("user") /\ On /\ TakeOrBlock(d, TRUE)
        /\ UNCHANGED << tickVars, waitVars >>
        /\ IF value[d] > 0 THEN Returns(d) ELSE UNCHANGED diskVars
        /\ d # Clock => driver[d] = CID
    BY DEF Wait, WaitDevice, Here, Asked
  <2>2. Typed /\ d \in Sem /\ (d \in Disks => d # Clock)
    BY DeviceSets DEF DeviceInv
  <2>3. /\ DTypes /\ DeviceArgs /\ CID \in Pid
        /\ value \in [Sem -> 0 .. MaxValue]
    BY <2>1, <2>2, TypedParts
  <2>4. value[d] \in Nat
    BY <2>2, <2>3
  <2> QED BY <2>1, <2>2, <2>3, <2>4, Zenon
<1>2. /\ value[d] > 0 => value' = [value EXCEPT ![d] = @ - 1] /\ PcStays
      /\ ~(value[d] > 0) => value' = value
      /\ \A c \in Pid : pc'[c].at \in {"P", "Pdisp"}
           => \/ pc[c].at \in {"P", "Pdisp"} /\ pc'[c].arg = pc[c].arg
              \/ c = CID /\ pc'[c].arg = d
  BY <1>1, TakeOrBlockAt
<1>3. DeviceArgs'
  BY <1>1, <1>2 DEF DeviceArgs
<1>4. /\ UNCHANGED << devStatus, returning >>
      /\ \A e \in Disks \ {d} : driver'[e] = driver[e] /\ answer'[e] = answer[e]
  BY <1>1 DEF waitVars, diskVars, Returns, DTypes
<1>5. ASSUME NEW e \in Disks \ {d} PROVE OneAnswer(e)'
  <2>1. value'[e] = value[e]
    <3>1. value' = [value EXCEPT ![d] = @ - 1] \/ value' = value
      BY <1>2
    <3> QED BY <1>1, <3>1, DeviceSets
  <2>2. \A c \in Pid : WaitingAt(c, e)' => WaitingAt(c, e)
    BY <1>2 DEF WaitingAt
  <2> QED BY <1>4, <2>1, <2>2, OtherAnswer
<1>6. ASSUME d \in Disks PROVE OneAnswer(d)'
  <2>1. OneAnswer(d) /\ d # Clock /\ driver[d] = CID
    BY <1>1, <1>6, DeviceSets DEF DeviceInv
  <2>2. CASE value[d] > 0
    <3>1. /\ driver' = [driver EXCEPT ![d] = NoPid]
          /\ answer' = [answer EXCEPT ![d] = "none"]
      BY <1>1, <2>1, <2>2 DEF Returns
    <3>2. driver'[d] = NoPid /\ answer'[d] = "none"
      BY <1>1, <1>6, <3>1 DEF DTypes
    <3>3. value'[d] = 0
      <4>1. value[d] = 1
        BY <2>1, <2>2 DEF OneAnswer
      <4> QED BY <1>1, <1>2, <2>2, <4>1
    <3>4. \A c \in Pid : returning'[c] # d
      BY <1>4, <2>1, <2>2 DEF OneAnswer
    <3>5. ASSUME NEW c \in Pid, WaitingAt(c, d)' PROVE FALSE
      <4>1. WaitingAt(c, d)
        BY <1>2, <2>2, <3>5 DEF WaitingAt, PcStays
      <4>2. c = CID
        BY <2>1, <4>1 DEF OneAnswer
      <4>3. pc[CID].at = "user" /\ pc'[CID].at \in {"P", "Pdisp"}
        BY <1>1, <3>5, <4>2 DEF Here, WaitingAt
      <4> QED BY <4>1, <4>2, <4>3 DEF WaitingAt
    <3> QED BY <3>2, <3>3, <3>4, <3>5 DEF OneAnswer
  <2>3. CASE ~(value[d] > 0)
    <3>1. /\ UNCHANGED << value, driver, answer >>
      BY <1>1, <1>2, <2>3 DEF diskVars
    <3>2. \A c \in Pid : WaitingAt(c, d)' => driver'[d] = c
      <4>1. \A c \in Pid : WaitingAt(c, d)' => WaitingAt(c, d) \/ c = CID
        BY <1>2 DEF WaitingAt
      <4> QED BY <2>1, <3>1, <4>1 DEF OneAnswer
    <3> QED BY <1>4, <2>1, <3>1, <3>2 DEF OneAnswer
  <2> QED BY <2>2, <2>3
<1> QED BY <1>3, <1>5, <1>6


LEMMA AgainAnswer ==
  ASSUME DeviceInv, WaitAgain
  PROVE  DeviceArgs' /\ \A e \in Disks : OneAnswer(e)'
<1>1. /\ Here("P") /\ On /\ TakeOrBlock(Arg, FALSE)
      /\ pc[CID].at = "P" /\ pc[CID].arg = Arg
      /\ returning[CID] = NoDev
      /\ returning' = [returning EXCEPT ![CID] = IF value[Arg] > 0 THEN Arg ELSE NoDev]
      /\ UNCHANGED << diskVars, devStatus >>
  BY DEF WaitAgain, PLoop, Here, Own, Arg
<1>2. /\ Typed /\ DTypes /\ DeviceArgs /\ CID \in Pid
      /\ value \in [Sem -> 0 .. MaxValue]
  BY <1>1, TypedParts DEF DeviceInv
<1>3. Arg \in DevSems /\ Arg \in Sem
  BY <1>1, <1>2, DeviceSets DEF DeviceArgs
<1>0. PICK s \in DevSems : s = Arg
  BY <1>3
<1>4. s \in DevSems /\ s \in Sem /\ value[s] \in Nat /\ WaitingAt(CID, s)
  BY <1>0, <1>1, <1>2, <1>3 DEF WaitingAt
<1>5. /\ value[s] > 0 => value' = [value EXCEPT ![s] = @ - 1] /\ PcStays
      /\ ~(value[s] > 0) => value' = value
      /\ \A c \in Pid : pc'[c].at \in {"P", "Pdisp"}
           => \/ pc[c].at \in {"P", "Pdisp"} /\ pc'[c].arg = pc[c].arg
              \/ c = CID /\ pc'[c].arg = s
  BY <1>0, <1>1, <1>2, TakeOrBlockAt
<1>6. returning' = [returning EXCEPT ![CID] = IF value[s] > 0 THEN s ELSE NoDev]
  BY <1>0, <1>1
<1>7. \A e, c : WaitingAt(c, e)' /\ c \in Pid => WaitingAt(c, e)
  BY <1>4, <1>5 DEF WaitingAt
<1>8. DeviceArgs'
  BY <1>2, <1>4, <1>5 DEF DeviceArgs
<1>9. \A c \in Pid : returning'[c] = IF c # CID THEN returning[c]
                                     ELSE IF value[s] > 0 THEN s ELSE NoDev
  BY <1>2, <1>6 DEF DTypes
<1>10. ASSUME NEW e \in Disks \ {s} PROVE OneAnswer(e)'
  <2>1. value'[e] = value[e]
    BY <1>2, <1>4, <1>5, DeviceSets
  <2>2. \A c \in Pid : returning'[c] = e => returning[c] = e
    BY <1>9, DeviceSets
  <2> QED BY <1>1, <1>7, <2>1, <2>2, OtherAnswer DEF diskVars
<1>11. ASSUME s \in Disks PROVE OneAnswer(s)'
  <2>1. OneAnswer(s) /\ driver[s] = CID
    BY <1>2, <1>4, <1>11 DEF DeviceInv, OneAnswer
  <2>2. CASE value[s] > 0
    <3>1. value[s] = 1 /\ answer[s] # "none" /\ devStatus[s] = answer[s]
      BY <2>1, <2>2 DEF OneAnswer
    <3>2. value'[s] = 0
      BY <1>2, <1>4, <1>5, <2>2, <3>1
    <3>3. \A c \in Pid : returning'[c] = s => c = CID
      BY <1>9, <2>1, <2>2 DEF OneAnswer
    <3> QED BY <1>1, <1>7, <2>1, <3>1, <3>2, <3>3 DEF OneAnswer, diskVars
  <2>3. CASE ~(value[s] > 0)
    <3>1. \A c \in Pid : returning'[c] = s => returning[c] = s
      BY <1>4, <1>9, <2>3, DeviceSets
    <3> QED BY <1>1, <1>5, <1>7, <1>11, <2>3, <3>1, OtherAnswer DEF diskVars
  <2> QED BY <2>2, <2>3
<1> QED BY <1>8, <1>10, <1>11

LEMMA ReadAnswer ==
  ASSUME DeviceInv, NEW d \in DevSems, Read(d)
  PROVE  DeviceArgs' /\ \A e \in Disks : OneAnswer(e)'
<1>1. /\ On /\ pc[CID].at = "user" /\ returning[CID] = d
      /\ Returns(d) /\ returning' = [returning EXCEPT ![CID] = NoDev]
      /\ UNCHANGED << kvars, tickVars, devStatus, okToAbort >>
  BY DEF Read, Here
<1>2. Typed /\ DTypes /\ CID \in Pid
  BY <1>1, TypedParts DEF DeviceInv
<1>3. PcStays /\ UNCHANGED << pc, value, devStatus >>
  BY <1>1 DEF kvars, semVars, PcStays
<1>4. \A e \in Disks \ {d} : driver'[e] = driver[e] /\ answer'[e] = answer[e]
  BY <1>1, <1>2 DEF Returns, diskVars, DTypes
<1>5. \A c \in Pid : returning'[c] = IF c = CID THEN NoDev ELSE returning[c]
  BY <1>1, <1>2 DEF DTypes
<1>6. ASSUME NEW e \in Disks \ {d} PROVE OneAnswer(e)'
  BY <1>3, <1>4, <1>5, SameAnswer, DeviceSets
<1>7. ASSUME d \in Disks PROVE OneAnswer(d)'
  <2>1. OneAnswer(d) /\ d # Clock /\ d # NoDev
    BY <1>7, DeviceSets DEF DeviceInv
  <2>2. driver' = [driver EXCEPT ![d] = NoPid] /\ answer' = [answer EXCEPT ![d] = "none"]
    BY <1>1, <2>1 DEF Returns
  <2>3. driver'[d] = NoPid /\ answer'[d] = "none"
    BY <1>2, <1>7, <2>2 DEF DTypes
  <2>4. driver[d] = CID /\ value[d] = 0
    BY <1>1, <1>2, <2>1 DEF OneAnswer
  <2>5. \A c \in Pid : returning'[c] # d
    BY <1>5, <2>1, <2>4 DEF OneAnswer
  <2>6. \A c \in Pid : ~WaitingAt(c, d)
    BY <1>1, <2>1, <2>4 DEF OneAnswer, WaitingAt
  <2> QED BY <1>3, <2>3, <2>4, <2>5, <2>6 DEF OneAnswer, WaitingAt
<1> QED BY <1>2, <1>3, <1>6, <1>7, SameArgs


(* The steps that no disk sees *)
LEMMA KernelQuiet ==
  ASSUME DeviceInv, KernelStep \/ WaitDispatch \/ UNCHANGED dvars
  PROVE  DTypes' /\ PcStays /\ UNCHANGED << value, diskVars, waitVars >>
<1>1. KInv /\ DTypes
  BY TypedParts DEF DeviceInv
<1>2. UNCHANGED << tickVars, diskVars, waitVars >>
  BY DEF KernelStep, WaitDispatch, dvars
<1>3. PcStays
  <2>1. CASE KernelStep
    BY <1>1, <2>1, KernelStays
  <2>2. CASE WaitDispatch
    BY <1>1, <2>2, DispatchStays DEF WaitDispatch
  <2>3. CASE UNCHANGED dvars
    BY <2>3 DEF dvars, kvars, PcStays
  <2> QED BY <2>1, <2>2, <2>3
<1>4. value' = value
  BY DEF KernelStep, KBoot, EvalTarget, ContextSwitch, Launch, UserFork,
         SentinelFork, ForkCall, SentinelStep, Stopped, WaitDispatch, PDispatch,
         dvars, kvars, semVars
<1>5. DTypes'
  BY <1>1, <1>2 DEF DTypes, tickVars, diskVars, waitVars
<1> QED BY <1>2, <1>3, <1>4, <1>5

LEMMA QuietStep ==
  ASSUME DeviceInv, PcStays, UNCHANGED << diskVars, returning >>,
         \A d \in Disks : value'[d] = value[d] /\ devStatus'[d] = devStatus[d]
  PROVE  DeviceArgs' /\ \A d \in Disks : OneAnswer(d)'
BY SameAnswer, SameArgs DEF DeviceInv, diskVars

LEMMA DeviceInvStep ==
  ASSUME DeviceInv, [DNext]_dvars
  PROVE  DeviceInv'
<1>1. /\ Typed /\ KInv /\ value \in [Sem -> 0 .. MaxValue]
      /\ \A d \in Disks : d \in Sem /\ d # Clock /\ d \in DevSems
  BY TypedParts, DeviceSets DEF DeviceInv
<1>2. KInv'
  BY <1>1, DeviceKInv
<1>3. ASSUME value' = value \/ value' = [value EXCEPT ![Clock] = @ + 1]
      PROVE  \A d \in Disks : value'[d] = value[d]
  BY <1>1, <1>3
<1>4. DTypes' /\ DeviceArgs' /\ \A d \in Disks : OneAnswer(d)'
  <2>1. CASE TickWakes \/ TickPasses
    <3>1. value' = value \/ value' = [value EXCEPT ![Clock] = @ + 1]
      BY <2>1 DEF TickWakes, TickPasses, WakeupDevice, SemV
    <3> QED BY <1>1, <1>3, <2>1, <3>1, TickTypes, QuietStep
  <2>2. CASE HandlerGoesOn
    <3>1. DTypes' /\ PcStays /\ UNCHANGED << value, diskVars, waitVars >>
      BY <1>1, <2>2, HandlerTypes
    <3> QED BY <3>1, QuietStep DEF waitVars
  <2>3. CASE \E d \in Disks, st \in Statuses : DiskInterrupt(d, st)
    BY <2>3, InterruptAnswer
  <2>4. CASE \E d \in Disks : Request(d)
    BY <1>1, <2>4, RequestAnswer, WaitTypes
  <2>5. CASE \E d \in DevSems : Wait(d)
    BY <1>1, <2>5, WaitAnswer, WaitTypes
  <2>6. CASE \E d \in DevSems : Read(d)
    BY <1>1, <2>6, ReadAnswer, WaitTypes
  <2>7. CASE WaitAgain
    BY <1>1, <2>7, AgainAnswer, WaitTypes
  <2>8. CASE AbortClock
    <3>1. /\ WakeupDevice(Clock, "tick", TRUE)
          /\ UNCHANGED << CID, pc, misled, tickVars, diskVars, returning >>
      BY <2>8 DEF AbortClock
    <3>2. "tick" \in Results /\ Clock \in DevSems
      BY DeviceSets DEF Results
    <3>3. UNCHANGED << driver, answer >> /\ answer' \in [Disks -> Results]
      BY <1>1, <3>1, TypedParts DEF diskVars, DTypes
    <3>4. DTypes'
      BY <1>1, <3>1, <3>2, <3>3, WakeTypes
    <3>5. \A d \in Disks : devStatus'[d] = devStatus[d]
      BY <1>1, <3>1, <3>2, TypedParts, WakeupStatus
    <3>6. value' = [value EXCEPT ![Clock] = @ + 1] /\ PcStays
      BY <3>1 DEF WakeupDevice, SemV, PcStays
    <3> QED BY <1>3, <3>1, <3>4, <3>5, <3>6, QuietStep
  <2>9. CASE KernelStep \/ WaitDispatch \/ UNCHANGED dvars
    <3>1. DTypes' /\ PcStays /\ UNCHANGED << value, diskVars, waitVars >>
      BY <2>9, KernelQuiet
    <3> QED BY <3>1, QuietStep DEF waitVars
  <2> QED BY <2>1, <2>2, <2>3, <2>4, <2>5, <2>6, <2>7, <2>8, <2>9 DEF DNext
<1>5. KTypeOK'
  BY <1>2 DEF KInv, TypeInv
<1> QED BY <1>2, <1>4, <1>5 DEF DeviceInv, Typed, DTypeOK, DTypes, Frames

LEMMA DeviceInvariance == DSpec => []DeviceInv
<1>1. DInit => DeviceInv
  <2> SUFFICES ASSUME DInit PROVE DeviceInv
    OBVIOUS
  <2>1. KInv /\ KTypeOK
    BY KInitInv DEF DInit, KInv, TypeInv
  <2>2. /\ 0 \in 0 .. 2 * Reset /\ "none" \in Results /\ << >> \in Seq(Frames)
        /\ \A d \in Disks : d \in Sem
    BY ResetPositive, DeviceSets DEF Results
  <2>3. DTypes
    BY <2>2 DEF DInit, DTypes
  <2>4. DeviceArgs /\ \A c \in Pid : pc[c].at = "none"
    BY DEF DInit, KInit, At, DeviceArgs
  <2>5. ASSUME NEW d \in Disks PROVE OneAnswer(d)
    <3>1. value[d] = 0 /\ answer[d] = "none" /\ \A c \in Pid : returning[c] = NoDev
      BY <2>2 DEF DInit, KInit
    <3> QED BY <2>4, <3>1, DeviceSets DEF OneAnswer, WaitingAt
  <2> QED BY <2>1, <2>3, <2>4, <2>5 DEF DeviceInv, Typed, DTypeOK, DTypes, Frames
<1>2. DeviceInv /\ [DNext]_dvars => DeviceInv'
  BY DeviceInvStep
<1> QED BY <1>1, <1>2, PTL DEF DSpec

(* The variables of the devices keep their types, however many handlers    *)
(* wait on how many stacks: the depth a handler comes back at is one its   *)
(* stack has, and the bounded counter of the ticks stays in its range.     *)
THEOREM DevicesTypeCorrect == DSpec => []DTypeOK
BY DeviceInvariance, PTL DEF DeviceInv, Typed

(* The driver of a disk that comes back from P1_WaitDevice has the status  *)
(* of its own request, unless it is told of an abort: no interrupt leaves  *)
(* a status for one request that the driver of another reads.              *)
THEOREM OwnAnswerRead == DSpec => AnswerIsRead
<1> DEFINE Answered == \A d \in Disks : driver[d] # NoPid /\ driver'[d] = NoPid
                                    => Status(d) \in {answer[d], "aborted"}
<1>1. DeviceInv /\ [DNext]_dvars => [Answered]_dvars
  <2> SUFFICES ASSUME DeviceInv, DNext, NEW d \in Disks,
                      driver[d] # NoPid, driver'[d] = NoPid
               PROVE  Status(d) \in {answer[d], "aborted"}
    BY DEF DeviceInv
  <2>1. Typed /\ OneAnswer(d) /\ NoPid \notin Pid /\ d # NoDev /\ d \in DevSems
    BY DeviceSets DEF DeviceInv
  <2>2. DTypes /\ (On => CID \in Pid)
    BY <2>1, TypedParts
  <2>3. answer[d] # "none" => Status(d) \in {answer[d], "aborted"}
    BY <2>1 DEF OneAnswer, Status
  <2>4. ASSUME UNCHANGED driver PROVE FALSE
    BY <2>4
  <2>5. ASSUME NEW e \in Disks, Request(e) PROVE FALSE
    <3>1. driver' = [driver EXCEPT ![e] = CID] /\ CID \in Pid
      BY <2>2, <2>5 DEF Request, Here
    <3> QED BY <2>1, <2>2, <3>1 DEF DTypes
  <2>6. ASSUME NEW e \in DevSems, Returns(e) PROVE e = d
    BY <2>2, <2>6, <2>4 DEF Returns, diskVars, DTypes
  <2>7. ASSUME NEW e \in DevSems, Wait(e) PROVE answer[d] # "none"
    <3>1. value[e] > 0 /\ Returns(e)
      BY <2>4, <2>7 DEF Wait, diskVars
    <3> QED BY <2>1, <2>6, <3>1 DEF OneAnswer
  <2>8. ASSUME NEW e \in DevSems, Read(e) PROVE answer[d] # "none"
    <3>1. Returns(e) /\ returning[CID] = e /\ CID \in Pid
      BY <2>2, <2>8 DEF Read, Here
    <3> QED BY <2>1, <2>6, <3>1 DEF OneAnswer
  <2>9. ASSUME \/ TickWakes \/ TickPasses \/ HandlerGoesOn
               \/ \E e \in Disks, st \in Statuses : DiskInterrupt(e, st)
               \/ WaitAgain \/ WaitDispatch \/ AbortClock \/ KernelStep
        PROVE  UNCHANGED driver
    BY <2>9 DEF TickWakes, TickPasses, HandlerGoesOn, DiskInterrupt, WaitAgain,
                WaitDispatch, AbortClock, KernelStep, diskVars
  <2> QED BY <2>3, <2>4, <2>5, <2>7, <2>8, <2>9 DEF DNext
<1> QED BY <1>1, DeviceInvariance, PTL DEF DSpec, AnswerIsRead
=============================================================================
