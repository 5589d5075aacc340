---------------------------- MODULE KernelProofs ----------------------------
(***************************************************************************)
(* What interrupts, nested switches and semaphores can never do to the     *)
(* kernel of phase 1, for every number of processes, semaphores, devices   *)
(* and nested interrupts: proofs about module Kernel.                      *)
(***************************************************************************)
EXTENDS Kernel, ProcTableProofs

-----------------------------------------------------------------------------
(* Whoever leaves the dispatch queue is the process whose code runs, or    *)
(* the code has mistaken it for another one.                               *)
ByItself == misled' \/ GetPid = CID

(* The kernel's steps as steps on the process table.  The sentinel forks   *)
(* with priority 2 and joins with both tags, whatever the processes do.    *)
OtherStep ==
  \/ \E tg \in Tag : Reap(tg)
  \/ ByItself /\ (QuitFirst \/ QuitOther)
  \/ ByItself /\ ((\E now \in BOOLEAN : Block(now)) \/ JoinWait)
  \/ \E p \in Pid : Wake(p)
  \/ \E rotate \in BOOLEAN : Dispatch(rotate)
  \/ UNCHANGED vars

TableStep == OtherStep \/ \E pr \in Prio, tg \in Tag : Fork(pr, tg)

Forks == KBoot \/ SentinelFork \/ \E pr \in ForkPrios, tg \in Tags : UserFork(pr, tg)

(* A context that is inside a call has an argument of the call's kind. *)
Args ==
  \A c \in Pid : /\ pc[c].at \in {"P", "Pdisp", "V"} => pc[c].arg \in Sem
                 /\ pc[c].at \in {"J", "sReap"} => pc[c].arg \in Tag

(* A context runs only after the sentinel was forked. *)
Started == CID # NoPid => ~first

LEMMA TableStepInv ==
  ASSUME Inv, TableStep
  PROVE  Inv'
<1>1. CASE UNCHANGED vars
  BY <1>1, NextInv
<1>2. CASE ~UNCHANGED vars
  BY <1>2, ForkInv, ReapInv, QuitFirstInv, QuitOtherInv, BlockInv, JoinWaitInv,
     WakeInv, DispatchInv, Zenon DEF TableStep, OtherStep
<1> QED BY <1>1, <1>2

(* What the proofs need to know of Sem *)
LEMMA SemSets ==
  /\ DevSems \subseteq Sem
  /\ MaxValue \in Nat \ {0}
  /\ 0 \in Tag /\ 0 \in Sem \cup Tag
BY KernelAssumption DEF Sem, DevSems, Tag

(* P1_V, whoever calls it, wakes the first waiter or changes no process.   *)
LEMMA SemVTable ==
  ASSUME KTypeOK, NEW s \in Sem, SemV(s)
  PROVE  \/ \E p \in Pid : Wake(p)
         \/ UNCHANGED vars
<1>1. semQ[s] \in Seq(Pid)
  BY DEF KTypeOK
<1>2. CASE semQ[s] # << >>
  <2>1. Wake(Head(semQ[s]))
    BY <1>2 DEF SemV, MustWake
  <2>2. Head(semQ[s]) \in Pid
    BY <1>1, <1>2
  <2> QED BY <2>1, <2>2
<1>3. CASE semQ[s] = << >>
  BY <1>3 DEF SemV, MustWake
<1> QED BY <1>2, <1>3

(* Before the first switch there is only startup, and after the last       *)
(* nothing.                                                                *)
LEMMA OnOrNot ==
  ASSUME KNext
  PROVE  On \/ KBoot \/ Stopped
BY DEF KNext, EvalTarget, ContextSwitch, Launch, DeviceInterrupt, WaitDevice,
       QuantumInterrupt, Interrupt, PCheck, VCheck, SemFree, PLoop, PDispatch,
       VDo, SemCreate, UserFork, QuitCall, JoinFirst, JoinAgain, SentinelFork,
       SentinelStep, SentinelQuit, Here

(* Every step of the kernel but the forks is another step on the table ... *)
LEMMA KernelOtherStep ==
  ASSUME KTypeOK, Args, KNext, ~Forks
  PROVE  OtherStep
<1>1. CASE EvalTarget \/ ContextSwitch \/ Launch \/ Stopped
  BY <1>1 DEF EvalTarget, ContextSwitch, Launch, Stopped, kvars, OtherStep
<1>2. CASE \E s \in DevSems : DeviceInterrupt(s)
  BY <1>2, SemSets, SemVTable DEF DeviceInterrupt, OtherStep
<1>3. CASE \E s \in DevSems : WaitDevice(s)
  BY <1>3 DEF WaitDevice, TakeOrBlock, UsesGetPid, ByItself, OtherStep
<1>4. CASE QuantumInterrupt \/ PDispatch
  BY <1>4 DEF QuantumInterrupt, PDispatch, OtherStep
<1>5. CASE \/ \E s \in Sem \ DevSems : PCheck(s) \/ VCheck(s) \/ SemFree(s)
           \/ \E v \in 0 .. 1 : SemCreate(v)
  BY <1>5 DEF PCheck, VCheck, SemFree, SemCreate, OtherStep
<1>6. CASE PLoop
  BY <1>6 DEF PLoop, TakeOrBlock, UsesGetPid, ByItself, OtherStep
<1>7. CASE VDo
  <2>1. Arg \in Sem
    BY <1>7 DEF VDo, Here, On, Args, Arg, KTypeOK
  <2> QED BY <1>7, <2>1, SemVTable DEF VDo, OtherStep
<1>8. CASE QuitCall \/ SentinelQuit
  BY <1>8 DEF QuitCall, SentinelQuit, UsesGetPid, ByItself, OtherStep
<1>9. CASE \E tg \in Tags : JoinFirst(tg)
  BY <1>9, TagsAssumption DEF JoinFirst, UsesGetPid, ByItself, OtherStep, Tag
<1>10. CASE JoinAgain \/ SentinelStep
  <2>1. Here("J") \/ Here("sReap") => Arg \in Tag
    BY DEF Here, On, Args, Arg, KTypeOK
  <2> QED BY <1>10, <2>1 DEF JoinAgain, SentinelStep, OtherStep
<1> QED BY <1>1, <1>2, <1>3, <1>4, <1>5, <1>6, <1>7, <1>8, <1>9, <1>10
        DEF KNext, Forks

(* ... and the forks are forks.                                            *)
LEMMA KernelTableStep ==
  ASSUME KTypeOK, Args, KNext
  PROVE  TableStep
<1>1. CASE KBoot
  BY <1>1 DEF KBoot, Boot, TableStep, SentinelPrio, Prio, Tag
<1>2. CASE SentinelFork
  BY <1>2 DEF SentinelFork, ForkCall, TableStep, Prio, Tag
<1>3. CASE \E pr \in ForkPrios, tg \in Tags : UserFork(pr, tg)
  BY <1>3, ForkPriosAssumption, TagsAssumption
     DEF UserFork, ForkCall, TableStep, Prio, Tag
<1>4. CASE ~Forks
  BY <1>4, KernelOtherStep DEF TableStep
<1> QED BY <1>1, <1>2, <1>3, <1>4 DEF Forks

-----------------------------------------------------------------------------
(* startup's P1_Fork of the sentinel *)
LEMMA BootEffect ==
  ASSUME Inv, KBoot
  PROVE  /\ FreeContext \in Pid
         /\ Settles([state EXCEPT ![FreeContext] = "Running"])
         /\ ~pending' /\ halted' = "no" /\ first' = FALSE
         /\ \A p \in Pid : state[p] = "Free"
<1>1. SentinelPrio \in Prio /\ 0 \in Tag
  BY DEF SentinelPrio, Prio, Tag
<1>2. Fork(SentinelPrio, 0) /\ first
  BY DEF KBoot, Boot
<1>3. \A p \in Pid : state[p] = "Free"
  BY <1>2 DEF Inv, ParentOK, Used
<1> QED BY <1>1, <1>2, <1>3, ForkInv DEF Fork

-----------------------------------------------------------------------------
(* A process is BLOCKED with P1Dispatch still to come only while its own   *)
(* code stands between the two regions of P1_P.                            *)
PendingHere == On /\ pending => sw[CID] = << >> /\ pc[CID].at = "Pdisp"

TypeInv == Inv /\ KTypeOK /\ Args /\ Started /\ PendingHere

LEMMA RunningCurrent ==
  ASSUME TypeInv, On, ~pending
  PROVE  /\ Executing
         /\ queue # << >> /\ Current \in Pid /\ state[Current] = "Running"
         /\ cid[Current] = Current /\ Current \in contexts
<1>1. Executing
  BY DEF TypeInv, On, Executing, Started
<1>2. queue # << >> /\ Current \in Pid /\ state[Current] = "Running"
  BY <1>1, CurrentLives DEF TypeInv
<1>3. Current \in Used
  BY <1>2 DEF Used
<1> QED BY <1>1, <1>2, <1>3 DEF TypeInv, Inv, CidIsPid

(* A region that ends at a point of its kind keeps the points well formed. *)
PcOK == pc \in [Pid -> [at : Points, arg : Sem \cup Tag]] /\ Args

LEMMA GotoOK ==
  ASSUME PcOK, CID \in Pid, NEW a \in Points, NEW x \in Sem \cup Tag,
         a \in {"P", "Pdisp", "V"} => x \in Sem,
         a \in {"J", "sReap"} => x \in Tag,
         Goto(a, x)
  PROVE  PcOK'
<1>1. pc' = [pc EXCEPT ![CID] = [at |-> a, arg |-> x]]
  BY DEF Goto, At
<1>2. pc' \in [Pid -> [at : Points, arg : Sem \cup Tag]]
  BY <1>1 DEF PcOK
<1>3. Args'
  BY <1>1 DEF PcOK, Args
<1> QED BY <1>2, <1>3 DEF PcOK

LEMMA FrontLast ==
  ASSUME NEW S, NEW q \in Seq(S), q # << >>
  PROVE  Front(q) \in Seq(S) /\ Last(q) \in S
<1>1. Len(q) \in Nat \ {0} /\ \A i \in 1 .. Len(q) : q[i] \in S
  BY EmptySeq, LenProperties, ElementOfSeq
<1>2. Last(q) \in S
  BY <1>1 DEF Last
<1>3. SubSeq(q, 1, Len(q) - 1) \in Seq(S)
  BY <1>1, SubSeqProperties
<1> QED BY <1>2, <1>3 DEF Front

LEMMA InDispatchOK ==
  ASSUME sw \in [Pid -> Seq(Pid \cup {NoPid})], CID \in Pid, InDispatch
  PROVE  sw' \in [Pid -> Seq(Pid \cup {NoPid})] /\ sw'[CID] # << >>
<1> DEFINE S == Pid \cup {NoPid}
           q == sw[CID]
<1>1. q \in Seq(S) /\ NoPid \in S
  OBVIOUS
<1>2. sw' = [sw EXCEPT ![CID] = Append(q, NoPid)]
  BY DEF InDispatch
<1>3. Append(q, NoPid) \in Seq(S) /\ Append(q, NoPid) # << >>
  <2> HIDE DEF S, q
  <2> QED BY <1>1, AppendProperties
<1> QED BY <1>2, <1>3

(* The variables of Kernel's own, in one place for the cases below *)
LEMMA OwnTypes ==
  ASSUME TypeInv
  PROVE  /\ CID \in Pid \cup {NoPid} /\ PcOK
         /\ sw \in [Pid -> Seq(Pid \cup {NoPid})]
         /\ semUsed \in [Sem -> BOOLEAN] /\ value \in [Sem -> 0 .. MaxValue]
         /\ semQ \in [Sem -> Seq(Pid)] /\ misled \in BOOLEAN
         /\ On => CID \in Pid /\ ~first
BY DEF TypeInv, KTypeOK, PcOK, On, Started

(* What P1_V does to the variables of the semaphores and of the switch *)
LEMMA SemVOwn ==
  ASSUME TypeInv, On, NEW s \in Sem, SemV(s)
  PROVE  /\ UNCHANGED << semUsed, first >>
         /\ value' \in [Sem -> 0 .. MaxValue] /\ semQ' \in [Sem -> Seq(Pid)]
         /\ sw' \in [Pid -> Seq(Pid \cup {NoPid})]
         /\ halted' = "no" /\ pending' => pending /\ sw' = sw
<1>1. /\ value[s] \in 0 .. MaxValue /\ value[s] < MaxValue
      /\ value' = [value EXCEPT ![s] = @ + 1] /\ semUsed' = semUsed
  BY OwnTypes DEF SemV
<1>2. value[s] + 1 \in 0 .. MaxValue
  BY <1>1, SemSets
<1>3. value' \in [Sem -> 0 .. MaxValue]
  BY <1>1, <1>2, OwnTypes
<1>4. CASE semQ[s] = << >>
  BY <1>1, <1>3, <1>4, OwnTypes DEF SemV, MustWake, vars
<1>5. CASE semQ[s] # << >>
  <2>1. /\ semQ' = [semQ EXCEPT ![s] = Tail(@)]
        /\ Wake(Head(semQ[s])) /\ InDispatch
    BY <1>5 DEF SemV, MustWake, RemoveWaiter
  <2>2. semQ[s] \in Seq(Pid) /\ Head(semQ[s]) \in Pid /\ Tail(semQ[s]) \in Seq(Pid)
    BY <1>5, OwnTypes
  <2>3. semQ' \in [Sem -> Seq(Pid)]
    BY <2>1, <2>2, OwnTypes
  <2>4. sw' \in [Pid -> Seq(Pid \cup {NoPid})]
    BY <2>1, OwnTypes, InDispatchOK
  <2>5. first' = first /\ (halted' = "no" => ~pending')
    BY <2>1, <2>2, WakeEffect DEF TypeInv
  <2> QED BY <1>1, <1>3, <2>3, <2>4, <2>5
<1> QED BY <1>4, <1>5

(* What a step has to establish of them *)
OwnOK ==
  /\ CID \in Pid \cup {NoPid} /\ PcOK
  /\ sw \in [Pid -> Seq(Pid \cup {NoPid})]
  /\ semUsed \in [Sem -> BOOLEAN] /\ value \in [Sem -> 0 .. MaxValue]
  /\ semQ \in [Sem -> Seq(Pid)] /\ misled \in BOOLEAN
  /\ Started /\ PendingHere

(* The switch itself *)
LEMMA SwitchOwn ==
  ASSUME TypeInv, Inv', KBoot \/ EvalTarget \/ ContextSwitch \/ Launch
  PROVE  OwnOK'
<1>1. CASE KBoot
  <2>1. ~pending' /\ halted' = "no" /\ first' = FALSE
    BY <1>1, BootEffect DEF TypeInv
  <2>2. queue' # << >> /\ queue' \in Seq(Pid) /\ cid' \in [Pid -> Pid]
    BY <2>1 DEF Inv, HeadBest, Executing, TypeOK
  <2>3. queue'[1] \in Pid
    BY <2>2, Z3
  <2>4. CID' \in Pid /\ CID' = cid'[queue'[1]]
    BY <1>1, <2>2, <2>3 DEF KBoot
  <2>5. /\ pc' = [pc EXCEPT ![CID'] = [at |-> "new", arg |-> 0]]
        /\ UNCHANGED << semVars, sw, misled >>
    BY <1>1 DEF KBoot, At
  <2>6. PcOK'
    BY <2>4, <2>5, SemSets, OwnTypes DEF PcOK, Args, Points
  <2> QED BY <2>1, <2>4, <2>5, <2>6, OwnTypes
          DEF OwnOK, Started, PendingHere, semVars
<1>2. CASE EvalTarget
  <2>1. /\ ~pending /\ On /\ sw[CID] # << >>
        /\ sw' = [sw EXCEPT ![CID] = Append(Front(@), cid[Current])]
        /\ UNCHANGED << vars, semVars, CID, pc, misled >>
    BY <1>2 DEF EvalTarget, TypeInv, PendingHere
  <2>2. Front(sw[CID]) \in Seq(Pid \cup {NoPid}) /\ cid[Current] \in Pid
    BY <2>1, OwnTypes, FrontLast, RunningCurrent
  <2>3. Append(Front(sw[CID]), cid[Current]) \in Seq(Pid \cup {NoPid})
    BY <2>2, AppendProperties
  <2>4. sw' \in [Pid -> Seq(Pid \cup {NoPid})]
    BY <2>1, <2>3, OwnTypes
  <2> QED BY <2>1, <2>4, OwnTypes
          DEF OwnOK, PcOK, Args, Started, PendingHere, On, vars, semVars, TypeInv
<1>3. CASE ContextSwitch
  <2>1. /\ ~pending /\ On /\ sw[CID] # << >>
        /\ sw' = [sw EXCEPT ![CID] = Front(@)]
        /\ CID' \in contexts \cup {CID} /\ misled' \in BOOLEAN
        /\ UNCHANGED << vars, semVars, pc >>
    BY <1>3 DEF ContextSwitch, TypeInv, PendingHere
  <2>2. Front(sw[CID]) \in Seq(Pid \cup {NoPid})
    BY <2>1, OwnTypes, FrontLast
  <2>3. sw' \in [Pid -> Seq(Pid \cup {NoPid})]
    BY <2>1, <2>2, OwnTypes
  <2>4. CID' \in Pid
    BY <2>1, OwnTypes DEF TypeInv, Inv, TypeOK
  <2> QED BY <2>1, <2>3, <2>4, OwnTypes
          DEF OwnOK, PcOK, Args, Started, PendingHere, vars, semVars
<1>4. CASE Launch
  <2>1. PcOK'
    BY <1>4, OwnTypes, GotoOK, SemSets DEF Launch, Here, Points
  <2>2. ~pending
    BY <1>4 DEF Launch, Here, TypeInv, PendingHere
  <2> QED BY <1>4, <2>1, <2>2, OwnTypes
          DEF Launch, Here, OwnOK, Started, PendingHere, vars, semVars
<1> QED BY <1>1, <1>2, <1>3, <1>4

(* A region of a process's own code that is entered at a and does not end  *)
(* between P1SetState and P1Dispatch                                       *)
LEMMA HereOwn ==
  ASSUME TypeInv, NEW a \in Points, Here(a)
  PROVE  /\ On /\ CID \in Pid /\ sw[CID] = << >> /\ pc[CID].at = a
         /\ halted = "no" /\ ~misled /\ ~first
         /\ a # "Pdisp" => /\ ~pending /\ Executing
                           /\ Current \in Pid /\ state[Current] = "Running"
         /\ Arg \in Sem \cup Tag
         /\ a \in {"P", "Pdisp", "V"} => Arg \in Sem
         /\ a \in {"J", "sReap"} => Arg \in Tag
<1>1. /\ On /\ CID \in Pid /\ sw[CID] = << >> /\ pc[CID].at = a /\ ~first
      /\ halted = "no" /\ ~misled
      /\ PcOK
  BY OwnTypes DEF Here, On
<1>2. a # "Pdisp" => ~pending
  BY <1>1 DEF TypeInv, PendingHere
<1>3. a # "Pdisp" => Executing /\ Current \in Pid /\ state[Current] = "Running"
  BY <1>1, <1>2, RunningCurrent
<1>4. /\ Arg \in Sem \cup Tag
      /\ a \in {"P", "Pdisp", "V"} => Arg \in Sem
      /\ a \in {"J", "sReap"} => Arg \in Tag
  BY <1>1 DEF PcOK, Args, Arg
<1> QED BY <1>1, <1>2, <1>3, <1>4

(* Interrupts *)
LEMMA InterruptOwn ==
  ASSUME TypeInv, (\E s \in DevSems : DeviceInterrupt(s)) \/ QuantumInterrupt
  PROVE  OwnOK'
<1>1. /\ On /\ CID \in Pid /\ ~first /\ halted = "no" /\ ~misled
      /\ pc[CID].at = "sWait" => Goto("sCheck", 0)
      /\ pc[CID].at # "sWait" => UNCHANGED pc
      /\ UNCHANGED << CID, misled >>
  BY OwnTypes DEF DeviceInterrupt, QuantumInterrupt, Interrupt, On
<1>2. PcOK'
  <2>1. CASE pc[CID].at = "sWait"
    BY <1>1, <2>1, OwnTypes, GotoOK, SemSets DEF Points
  <2>2. CASE pc[CID].at # "sWait"
    BY <1>1, <2>2, OwnTypes DEF PcOK, Args
  <2> QED BY <2>1, <2>2
<1>3. CASE \E s \in DevSems : DeviceInterrupt(s)
  <2>1. PICK s \in Sem : SemV(s)
    BY <1>3, SemSets DEF DeviceInterrupt
  <2>2. /\ UNCHANGED << semUsed, first >>
        /\ value' \in [Sem -> 0 .. MaxValue] /\ semQ' \in [Sem -> Seq(Pid)]
        /\ sw' \in [Pid -> Seq(Pid \cup {NoPid})]
        /\ halted' = "no" /\ pending' => pending /\ sw' = sw
    BY <1>1, <2>1, SemVOwn
  <2>3. PendingHere'
    BY <1>1, <2>2 DEF TypeInv, PendingHere, On
  <2> QED BY <1>1, <1>2, <2>2, <2>3, OwnTypes DEF OwnOK, Started
<1>4. CASE QuantumInterrupt
  <2>1. Dispatch(TRUE) /\ InDispatch /\ UNCHANGED semVars
    BY <1>4 DEF QuantumInterrupt
  <2>2. (halted' = "no" => ~pending') /\ first' = first
    BY <2>1, DispatchEffect DEF TypeInv
  <2>3. sw' \in [Pid -> Seq(Pid \cup {NoPid})]
    BY <1>1, <2>1, OwnTypes, InDispatchOK
  <2> QED BY <1>1, <1>2, <2>1, <2>2, <2>3, OwnTypes
          DEF OwnOK, Started, PendingHere, On, semVars
<1> QED BY <1>3, <1>4

(* P1_P past its check *)
LEMMA TakeOrBlockOwn ==
  ASSUME TypeInv, NEW a \in {"user", "P"}, Here(a), NEW s \in Sem,
         NEW now \in BOOLEAN, TakeOrBlock(s, now)
  PROVE  OwnOK'
<1>1. /\ On /\ CID \in Pid /\ sw[CID] = << >> /\ ~pending /\ ~first
      /\ halted = "no" /\ ~misled
  BY HereOwn DEF Points
<1>2. CASE value[s] > 0 /\ Goto("user", 0)
           /\ value' = [value EXCEPT ![s] = @ - 1]
           /\ UNCHANGED << vars, semUsed, semQ, CID, sw, misled >>
  <2>1. value' \in [Sem -> 0 .. MaxValue]
    BY <1>2, OwnTypes, SemSets
  <2>2. PcOK'
    BY <1>1, <1>2, OwnTypes, GotoOK, SemSets DEF Points
  <2> QED BY <1>1, <1>2, <2>1, <2>2, OwnTypes DEF OwnOK, Started, PendingHere, vars
<1>3. CASE /\ UsesGetPid /\ Block(now)
           /\ semQ' = [semQ EXCEPT ![s] = Append(@, GetPid)]
           /\ IF now THEN Goto("P", s) /\ InDispatch
              ELSE Goto("Pdisp", s) /\ UNCHANGED sw
           /\ UNCHANGED << semUsed, value, CID >>
  <2>1. /\ GetPid \in Pid /\ first' = first
        /\ now /\ halted' = "no" => ~pending'
    BY <1>3, BlockEffect DEF TypeInv
  <2>2. semQ' \in [Sem -> Seq(Pid)]
    BY <1>3, <2>1, OwnTypes, AppendProperties
  <2>3. PcOK'
    BY <1>1, <1>3, OwnTypes, GotoOK DEF Points
  <2>4. misled' \in BOOLEAN
    BY <1>3 DEF UsesGetPid
  <2>5. CASE now
    <3>1. sw' \in [Pid -> Seq(Pid \cup {NoPid})]
      BY <1>1, <1>3, <2>5, OwnTypes, InDispatchOK
    <3> QED BY <1>1, <1>3, <2>1, <2>2, <2>3, <2>4, <2>5, <3>1, OwnTypes
            DEF OwnOK, Started, PendingHere, On
  <2>6. CASE ~now
    <3>1. pc'[CID].at = "Pdisp"
      BY <1>1, <1>3, <2>6, OwnTypes DEF Goto, At, PcOK
    <3> QED BY <1>1, <1>3, <2>1, <2>2, <2>3, <2>4, <2>6, <3>1, OwnTypes
            DEF OwnOK, Started, PendingHere, On
  <2> QED BY <2>5, <2>6
<1> QED BY <1>2, <1>3 DEF TakeOrBlock

(* The calls on semaphores *)
LEMMA SemOwn ==
  ASSUME TypeInv,
         \/ \E s \in DevSems : WaitDevice(s)
         \/ \E s \in Sem \ DevSems : PCheck(s) \/ VCheck(s) \/ SemFree(s)
         \/ PLoop \/ PDispatch \/ VDo
         \/ \E v \in 0 .. 1 : SemCreate(v)
  PROVE  OwnOK'
<1>1. CASE \E s \in DevSems : WaitDevice(s)
  BY <1>1, SemSets, TakeOrBlockOwn DEF WaitDevice
<1>2. CASE \E s \in Sem \ DevSems : PCheck(s) \/ VCheck(s)
  <2>1. PICK s \in Sem : PCheck(s) \/ VCheck(s)
    BY <1>2
  <2>2. /\ Here("user") /\ (Goto("P", s) \/ Goto("V", s))
        /\ UNCHANGED << vars, semVars, CID, sw, misled >>
    BY <2>1 DEF PCheck, VCheck
  <2>3. CID \in Pid /\ ~pending /\ ~first
    BY <2>2, HereOwn DEF Points
  <2>4. PcOK'
    BY <2>2, <2>3, OwnTypes, GotoOK DEF Points
  <2> QED BY <2>2, <2>3, <2>4, OwnTypes
          DEF OwnOK, Started, PendingHere, vars, semVars
<1>3. CASE \E s \in Sem \ DevSems : SemFree(s)
  <2>1. PICK s \in Sem : SemFree(s)
    BY <1>3
  <2>2. Here("user") /\ ~pending /\ ~first
    BY <2>1, HereOwn DEF SemFree, Points
  <2>3. semUsed' \in [Sem -> BOOLEAN] /\ PcOK'
    BY <2>1, OwnTypes DEF SemFree, PcOK, Args
  <2> QED BY <2>1, <2>2, <2>3, OwnTypes
          DEF SemFree, OwnOK, Started, PendingHere, vars
<1>4. CASE PLoop
  <2>1. Here("P") /\ Arg \in Sem
    BY <1>4, HereOwn DEF PLoop, Points
  <2> QED BY <1>4, <2>1, TakeOrBlockOwn DEF PLoop
<1>5. CASE PDispatch
  <2>1. /\ Here("Pdisp") /\ Dispatch(FALSE) /\ Goto("P", Arg) /\ InDispatch
        /\ UNCHANGED << semVars, CID, misled >>
    BY <1>5 DEF PDispatch
  <2>2. CID \in Pid /\ Arg \in Sem /\ ~first
    BY <2>1, HereOwn DEF Points
  <2>3. PcOK'
    BY <2>1, <2>2, OwnTypes, GotoOK DEF Points
  <2>4. sw' \in [Pid -> Seq(Pid \cup {NoPid})]
    BY <2>1, <2>2, OwnTypes, InDispatchOK
  <2>5. first' = first /\ (halted' = "no" => ~pending')
    BY <2>1, DispatchEffect DEF TypeInv
  <2> QED BY <2>1, <2>2, <2>3, <2>4, <2>5, OwnTypes
          DEF OwnOK, Started, PendingHere, On, semVars
<1>6. CASE VDo
  <2>1. /\ Here("V") /\ SemV(Arg) /\ Goto("user", 0)
        /\ UNCHANGED << CID, misled >>
    BY <1>6 DEF VDo
  <2>2. On /\ CID \in Pid /\ ~pending /\ Arg \in Sem
    BY <2>1, HereOwn DEF Points
  <2>3. PcOK'
    BY <2>1, <2>2, OwnTypes, GotoOK, SemSets DEF Points
  <2>4. /\ UNCHANGED << semUsed, first >>
        /\ value' \in [Sem -> 0 .. MaxValue] /\ semQ' \in [Sem -> Seq(Pid)]
        /\ sw' \in [Pid -> Seq(Pid \cup {NoPid})]
        /\ halted' = "no" => ~pending'
    BY <2>1, <2>2, SemVOwn
  <2> QED BY <2>1, <2>2, <2>3, <2>4, OwnTypes
          DEF OwnOK, Started, PendingHere, On
<1>7. CASE \E v \in 0 .. 1 : SemCreate(v)
  <2>1. PICK v \in 0 .. 1 : SemCreate(v)
    BY <1>7
  <2>2. Here("user") /\ ~pending /\ ~first
    BY <2>1, HereOwn DEF SemCreate, Points
  <2>3. v \in 0 .. MaxValue /\ << >> \in Seq(Pid)
    BY SemSets
  <2>4. /\ semUsed' \in [Sem -> BOOLEAN] /\ value' \in [Sem -> 0 .. MaxValue]
        /\ semQ' \in [Sem -> Seq(Pid)] /\ PcOK'
    BY <2>1, <2>3, OwnTypes DEF SemCreate, PcOK, Args
  <2> QED BY <2>1, <2>2, <2>4, OwnTypes
          DEF SemCreate, OwnOK, Started, PendingHere, vars
<1> QED BY <1>1, <1>2, <1>3, <1>4, <1>5, <1>6, <1>7

(* P1_Fork by a process or by the sentinel *)
LEMMA ForkOwn ==
  ASSUME TypeInv, NEW a \in {"user", "sFork"}, Here(a),
         NEW pr \in Prio, NEW tg \in Tag, NEW then \in {"user", "sCheck"},
         ForkCall(pr, tg, then)
  PROVE  OwnOK'
<1> DEFINE c == FreeContext
<1>1. /\ CID \in Pid /\ ~misled
  BY HereOwn DEF Points
<1>2. c \in Pid /\ ~pending' /\ first' = FALSE
  BY ForkInv DEF ForkCall, Fork, TypeInv
<1>3. /\ pc' = [pc EXCEPT ![c] = [at |-> "new", arg |-> 0],
                          ![CID] = [at |-> then, arg |-> 0]]
      /\ sw' = [sw EXCEPT ![c] = << >>,
                          ![CID] = IF pr < prio[Current] THEN Append(@, NoPid) ELSE @]
      /\ UNCHANGED << semVars, CID, misled >>
  BY DEF ForkCall, At
<1> HIDE DEF c
<1>4. PcOK'
  BY <1>1, <1>2, <1>3, SemSets, OwnTypes DEF PcOK, Args, Points
<1>5. sw' \in [Pid -> Seq(Pid \cup {NoPid})]
  <2> DEFINE S == Seq(Pid \cup {NoPid})
  <2>1. << >> \in S /\ \A q \in S : Append(q, NoPid) \in S
    BY EmptySeq, AppendProperties
  <2>2. sw \in [Pid -> S] /\ (pr < prio[Current]) \in BOOLEAN
    BY OwnTypes
  <2> HIDE DEF S
  <2> QED BY <1>1, <1>2, <1>3, <2>1, <2>2 DEF S
<1> QED BY <1>1, <1>2, <1>3, <1>4, <1>5, OwnTypes
        DEF OwnOK, Started, PendingHere, semVars

(* P1_Quit and the waiting P1_Join: the process leaves the queue for good  *)
(* or until a child quits, with P1Dispatch in the same region.             *)
LEMMA QuitJoinOwn ==
  ASSUME TypeInv, QuitCall \/ SentinelQuit \/ \E tg \in Tags : JoinFirst(tg)
  PROVE  OwnOK'
<1>1. ASSUME NEW a \in {"user", "sQuit"}, Here(a),
             NEW b \in {"quit", "J"}, NEW x \in Tag, Goto(b, x),
             UsesGetPid, InDispatch, UNCHANGED << semVars, CID >>,
             first' = first, halted' = "no" => ~pending'
      PROVE  OwnOK'
  <2>1. CID \in Pid /\ ~first
    BY <1>1, HereOwn DEF Points
  <2>2. PcOK'
    BY <1>1, <2>1, OwnTypes, GotoOK DEF Points
  <2>3. sw' \in [Pid -> Seq(Pid \cup {NoPid})]
    BY <1>1, <2>1, OwnTypes, InDispatchOK
  <2>4. misled' \in BOOLEAN
    BY <1>1 DEF UsesGetPid
  <2> QED BY <1>1, <2>1, <2>2, <2>3, <2>4, OwnTypes
          DEF OwnOK, Started, PendingHere, On, semVars
<1>2. CASE QuitCall
  <2>1. first' = first /\ ~pending'
    BY <1>2, QuitOtherInv DEF QuitCall, QuitOther, TypeInv
  <2> QED BY <1>1, <1>2, <2>1, SemSets DEF QuitCall
<1>3. CASE SentinelQuit
  <2>1. first' = first /\ ~pending'
    BY <1>3, QuitFirstInv DEF SentinelQuit, QuitFirst, TypeInv
  <2> QED BY <1>1, <1>3, <2>1, SemSets DEF SentinelQuit
<1>4. CASE \E tg \in Tags : JoinFirst(tg)
  <2>1. PICK tg \in Tag : JoinFirst(tg)
    BY <1>4, TagsAssumption DEF Tag
  <2>2. CASE Reap(tg) /\ UNCHANGED << pc, sw, misled >>
    <3>1. ~pending /\ pending' = pending /\ ~first /\ first' = first
      BY <2>2 DEF Reap, Executing
    <3> QED BY <2>1, <2>2, <3>1, OwnTypes
            DEF JoinFirst, OwnOK, PcOK, Args, Started, PendingHere, semVars
  <2>3. CASE UsesGetPid /\ JoinWait /\ Goto("J", tg) /\ InDispatch
    <3>1. first' = first /\ (halted' = "no" => ~pending')
      BY <2>3, JoinWaitEffect DEF TypeInv
    <3> QED BY <1>1, <2>1, <2>3, <3>1 DEF JoinFirst
  <2> QED BY <2>1, <2>2, <2>3 DEF JoinFirst
<1> QED BY <1>2, <1>3, <1>4

(* The steps that reap or only look *)
LEMMA ReapOwn ==
  ASSUME TypeInv, JoinAgain \/ SentinelStep
  PROVE  OwnOK'
<1>1. ASSUME NEW a \in {"J", "sCheck", "sReap"}, Here(a),
             NEW b \in {"user", "sQuit", "sReap", "sWait"},
             NEW x \in Tag, Goto(b, x),
             UNCHANGED << semVars, CID, sw, misled >>,
             UNCHANGED vars \/ \E tg \in Tag : Reap(tg)
      PROVE  OwnOK'
  <2>1. CID \in Pid /\ ~pending /\ ~first
    BY <1>1, HereOwn DEF Points
  <2>2. PcOK'
    BY <1>1, <2>1, OwnTypes, GotoOK DEF Points
  <2>3. UNCHANGED << pending, first >>
    BY <1>1 DEF Reap, vars
  <2> QED BY <1>1, <2>1, <2>2, <2>3, OwnTypes
          DEF OwnOK, Started, PendingHere, semVars
<1>2. CASE JoinAgain
  <2>1. Here("J") /\ Arg \in Tag
    BY <1>2, HereOwn DEF JoinAgain, Points
  <2> QED BY <1>1, <1>2, <2>1, SemSets DEF JoinAgain
<1>3. CASE SentinelStep
  <2>1. CASE /\ Here("sCheck") /\ UNCHANGED vars
             /\ Goto("sQuit", 0) \/ Goto("sReap", 0)
    BY <1>1, <1>3, <2>1, SemSets DEF SentinelStep
  <2>2. CASE /\ Here("sReap")
             /\ IF Arg < LastTag THEN Goto("sReap", Arg + 1) ELSE Goto("sWait", 0)
             /\ Reap(Arg) \/ UNCHANGED vars
    <3>1. Arg \in Tag
      BY <2>2, HereOwn DEF Points
    <3>2. PICK b \in {"sReap", "sWait"}, x \in Tag : Goto(b, x)
      BY <2>2, <3>1, SemSets DEF LastTag, Tag
    <3> QED BY <1>1, <1>3, <2>2, <3>1, <3>2 DEF SentinelStep
  <2> QED BY <1>3, <2>1, <2>2 DEF SentinelStep
<1> QED BY <1>2, <1>3

(* Every step keeps the types. *)
LEMMA TypeStep ==
  ASSUME TypeInv, KNext
  PROVE  TypeInv'
<1>1. Inv'
  BY KernelTableStep, TableStepInv DEF TypeInv
<1>2. OwnOK'
  <2>1. CASE KBoot \/ EvalTarget \/ ContextSwitch \/ Launch
    BY <1>1, <2>1, SwitchOwn
  <2>2. CASE \/ \E s \in DevSems : DeviceInterrupt(s) \/ WaitDevice(s)
             \/ QuantumInterrupt
    BY <2>2, InterruptOwn, SemOwn
  <2>3. CASE \/ \E s \in Sem \ DevSems : PCheck(s) \/ VCheck(s) \/ SemFree(s)
             \/ PLoop \/ PDispatch \/ VDo
             \/ \E v \in 0 .. 1 : SemCreate(v)
    BY <2>3, SemOwn
  <2>4. CASE \E pr \in ForkPrios, tg \in Tags : UserFork(pr, tg)
    BY <2>4, ForkPriosAssumption, TagsAssumption, ForkOwn DEF UserFork, Prio, Tag
  <2>5. CASE SentinelFork
    BY <2>5, ForkOwn DEF SentinelFork, Prio, Tag
  <2>6. CASE QuitCall \/ SentinelQuit \/ \E tg \in Tags : JoinFirst(tg)
    BY <2>6, QuitJoinOwn
  <2>7. CASE JoinAgain \/ SentinelStep
    BY <2>7, ReapOwn
  <2>8. CASE Stopped
    BY <2>8, OwnTypes
       DEF Stopped, kvars, vars, semVars, TypeInv, OwnOK, PcOK, Args, Started,
           PendingHere, On
  <2> QED BY <2>1, <2>2, <2>3, <2>4, <2>5, <2>6, <2>7, <2>8 DEF KNext
<1> QED BY <1>1, <1>2 DEF TypeInv, OwnOK, PcOK, KTypeOK, Inv
-----------------------------------------------------------------------------
(* Whose code runs, and where the code of every process stands *)
HeadRuns == On /\ sw[CID] = << >> /\ ~pending => CID = cid[Current]

Fits(p) ==
  /\ state[p] = "Blocked" => pc[p].at \in {"P", "Pdisp"}
  /\ state[p] = "Joining" => pc[p].at = "J"
  /\ state[p] = "Quit" => pc[p].at = "quit"
  /\ pc[p].at = "quit" => state[p] \in {"Quit", "Free"}
  /\ pc[p].at = "J" /\ state[p] \in {"Ready", "Running"} => quitChildren[p] # << >>

Places == ~misled => \A p \in Pid : Fits(p)

(* The inductive invariant of the kernel *)
KInv == TypeInv /\ HeadRuns /\ Places

(* A process whose own code runs outside the two regions of P1_P is the    *)
(* head of the queue.                                                      *)
LEMMA RunsHere ==
  ASSUME KInv, NEW a \in Points \ {"Pdisp"}, Here(a)
  PROVE  /\ CID = Current /\ CID \in Pid /\ state[CID] = "Running"
         /\ queue # << >> /\ CID = cid[Current]
         /\ On /\ sw[CID] = << >> /\ pc[CID].at = a
         /\ ~pending /\ ~misled /\ ~first
<1>1. /\ On /\ CID \in Pid /\ sw[CID] = << >> /\ pc[CID].at = a
      /\ ~misled /\ ~first /\ ~pending
  BY HereOwn DEF KInv
<1>2. CID = cid[Current]
  BY <1>1 DEF KInv, HeadRuns
<1>3. /\ queue # << >> /\ state[Current] = "Running" /\ cid[Current] = Current
  BY <1>1, RunningCurrent DEF KInv
<1> QED BY <1>1, <1>2, <1>3

(* What the next cases need of the types *)
LEMMA PlaceTypes ==
  ASSUME KInv
  PROVE  /\ state \in [Pid -> States] /\ quitChildren \in [Pid -> Seq(Pid)]
         /\ pc \in [Pid -> [at : Points, arg : Sem \cup Tag]]
         /\ sw \in [Pid -> Seq(Pid \cup {NoPid})]
         /\ On => CID \in Pid /\ ~misled
         /\ \A p \in Pid : ~misled => Fits(p)
BY DEF KInv, TypeInv, KTypeOK, TypeOK, Places, On

(* The steps at the end of which the running context is inside P1Dispatch  *)
LEMMA InDispatchRuns ==
  ASSUME KInv, CID \in Pid, InDispatch, CID' = CID
  PROVE  HeadRuns'
BY PlaceTypes, InDispatchOK DEF HeadRuns

(* The steps that leave the head of the queue and its context alone *)
LEMMA SameHeadRuns ==
  ASSUME KInv, UNCHANGED << CID, sw, queue, cid, pending, halted, misled >>
  PROVE  HeadRuns'
BY DEF KInv, HeadRuns, On, Current

(* A step that only wakes processes and moves the running one to a point   *)
(* that is not in P1_Join or P1_Quit, or not at all                        *)
LEMMA WakingPlaces ==
  ASSUME KInv, On,
         \A p \in Pid : \A s \in {"Free", "Quit", "Joining"} :
           state'[p] = s <=> state[p] = s,
         \A p \in Pid : state'[p] = "Blocked" => state[p] = "Blocked",
         state' \in [Pid -> States], quitChildren' = quitChildren,
         \/ pc' = pc
         \/ \E a \in Points \ {"J", "quit"}, x \in Sem \cup Tag :
              /\ Goto(a, x)
              /\ \/ /\ pc[CID].at \in {"new", "user", "V", "J", "sFork", "sCheck",
                                         "sReap", "sWait"}
                    /\ state[CID] \in {"Ready", "Running"}
                 \/ pc[CID].at = "sWait"
                 \/ pc[CID].at \in {"P", "Pdisp"} /\ a = "P"
  PROVE  Places'
<1> SUFFICES ASSUME NEW p \in Pid PROVE Fits(p)'
  BY DEF Places
<1>1. Fits(p) /\ Fits(CID) /\ CID \in Pid
  BY PlaceTypes
<1>2. CASE pc'[p] = pc[p]
  BY <1>1, <1>2, PlaceTypes DEF Fits, States
<1>3. CASE pc'[p] # pc[p]
  <2>1. PICK a \in Points \ {"J", "quit"}, x \in Sem \cup Tag :
          /\ Goto(a, x)
          /\ \/ /\ pc[CID].at \in {"new", "user", "V", "J", "sFork", "sCheck",
                                    "sReap", "sWait"}
                /\ state[CID] \in {"Ready", "Running"}
             \/ pc[CID].at = "sWait"
             \/ pc[CID].at \in {"P", "Pdisp"} /\ a = "P"
    BY <1>3
  <2>2. p = CID /\ pc'[p] = [at |-> a, arg |-> x]
    BY <1>3, <2>1, PlaceTypes DEF Goto, At
  <2> QED BY <1>1, <2>1, <2>2 DEF Fits
<1> QED BY <1>2, <1>3

(* The switch itself *)
LEMMA SwitchPlaces ==
  ASSUME KInv, TypeInv', KBoot \/ EvalTarget \/ ContextSwitch \/ Launch
  PROVE  HeadRuns' /\ Places'
<1>1. CASE KBoot
  <2>1. /\ ~pending' /\ halted' = "no" /\ first' = FALSE
        /\ FreeContext \in Pid
        /\ Settles([state EXCEPT ![FreeContext] = "Running"])
        /\ \A p \in Pid : state[p] = "Free"
    BY <1>1, BootEffect DEF KInv, TypeInv
  <2>2. /\ queue' # << >> /\ state'[Current'] = "Running" /\ Current' \in Pid
        /\ cid'[Current'] = Current' /\ queue' \in Seq(Pid)
        /\ state' \in [Pid -> States]
    <3>1. Executing'
      BY <2>1 DEF Executing
    <3>2. /\ queue' # << >> /\ state'[Current'] = "Running" /\ queue' \in Seq(Pid)
          /\ state' \in [Pid -> States]
      BY <3>1 DEF TypeInv, Inv, HeadBest, TypeOK
    <3>3. Current' \in Pid
      BY <3>2 DEF Current
    <3> QED BY <3>2, <3>3 DEF TypeInv, Inv, CidIsPid, Used
  <2>3. /\ CID' = Current'
        /\ pc' = [pc EXCEPT ![CID'] = [at |-> "new", arg |-> 0]]
    BY <1>1, <2>2 DEF KBoot, At, Current
  <2>4. \A p \in Pid : state'[p] \notin {"Blocked", "Joining", "Quit"}
    BY <2>1, PlaceTypes DEF Settles
  <2>5. \A p \in Pid : p # FreeContext => state'[p] = "Free"
    BY <2>1, PlaceTypes DEF Settles
  <2>6. FreeContext = CID'
    BY <2>2, <2>3, <2>5
  <2>7. HeadRuns'
    BY <2>2, <2>3 DEF HeadRuns
  <2>8. Places'
    BY <2>1, <2>2, <2>3, <2>4, <2>5, <2>6, PlaceTypes DEF Places, Fits
  <2> QED BY <2>7, <2>8
<1>2. CASE EvalTarget
  <2>1. /\ On /\ CID \in Pid /\ CID' = CID /\ sw[CID] # << >> /\ ~pending
        /\ sw' = [sw EXCEPT ![CID] = Append(Front(@), cid[Current])]
        /\ UNCHANGED << state, quitChildren, pc, misled >>
    BY <1>2, PlaceTypes DEF EvalTarget, vars, KInv, TypeInv, PendingHere
  <2>2. Front(sw[CID]) \in Seq(Pid \cup {NoPid}) /\ cid[Current] \in Pid \cup {NoPid}
    BY <2>1, PlaceTypes, FrontLast, RunningCurrent DEF KInv
  <2>3. Append(Front(sw[CID]), cid[Current]) # << >>
    BY <2>2, AppendProperties
  <2>4. sw'[CID] = Append(Front(sw[CID]), cid[Current])
    BY <2>1, PlaceTypes
  <2> QED BY <2>1, <2>3, <2>4 DEF HeadRuns, KInv, Places, Fits
<1>3. CASE ContextSwitch
  <2>1. /\ On /\ ~pending /\ ~misled
        /\ CID' = IF Last(sw[CID]) \in contexts THEN Last(sw[CID]) ELSE CID
        /\ misled' = (Last(sw[CID]) # cid[Current])
        /\ UNCHANGED << state, quitChildren, queue, cid, pc >>
    BY <1>3 DEF ContextSwitch, vars, KInv, TypeInv, PendingHere, On
  <2>2. cid[Current] \in contexts
    BY <2>1, RunningCurrent DEF KInv
  <2>3. HeadRuns'
    BY <2>1, <2>2 DEF HeadRuns, On, Current
  <2> QED BY <2>1, <2>3 DEF KInv, Places, Fits
<1>4. CASE Launch
  <2>1. /\ On /\ state[CID] = "Running" /\ pc[CID].at = "new"
        /\ Goto("sFork", 0) \/ Goto("user", 0)
        /\ UNCHANGED << vars, semVars, CID, sw, misled >>
    BY <1>4, RunsHere DEF Launch, Points
  <2>2. HeadRuns'
    BY <2>1, SameHeadRuns DEF vars
  <2>3. Places'
    BY <2>1, SemSets, PlaceTypes, WakingPlaces DEF vars, Points
  <2> QED BY <2>2, <2>3
<1> QED BY <1>1, <1>2, <1>3, <1>4

(* What P1_V does to the states *)
LEMMA SemVPlaces ==
  ASSUME KInv, On, NEW s \in Sem, SemV(s), CID' = CID, misled' = misled
  PROVE  /\ HeadRuns'
         /\ \A p \in Pid : \A t \in {"Free", "Quit", "Joining"} :
              state'[p] = t <=> state[p] = t
         /\ \A p \in Pid : state'[p] = "Blocked" => state[p] = "Blocked"
         /\ quitChildren' = quitChildren
<1>1. CASE semQ[s] = << >>
  <2>1. UNCHANGED << vars, sw >>
    BY <1>1 DEF SemV, MustWake
  <2> QED BY <2>1, SameHeadRuns DEF vars
<1>2. CASE semQ[s] # << >>
  <2>1. Wake(Head(semQ[s])) /\ InDispatch
    BY <1>2 DEF SemV, MustWake
  <2>2. Head(semQ[s]) \in Pid
    BY <1>2, OwnTypes DEF KInv
  <2>3. /\ Settles([state EXCEPT ![Head(semQ[s])] = "Ready"])
        /\ state[Head(semQ[s])] = "Blocked" /\ quitChildren' = quitChildren
    BY <2>1, <2>2, WakeEffect DEF KInv, TypeInv
  <2>4. HeadRuns'
    BY <2>1, PlaceTypes, InDispatchRuns
  <2> QED BY <2>2, <2>3, <2>4, PlaceTypes DEF Settles
<1> QED BY <1>1, <1>2

(* Interrupts *)
LEMMA InterruptPlaces ==
  ASSUME KInv, TypeInv', (\E s \in DevSems : DeviceInterrupt(s)) \/ QuantumInterrupt
  PROVE  HeadRuns' /\ Places'
<1>1. /\ On /\ CID \in Pid /\ UNCHANGED << CID, misled >>
      /\ pc[CID].at = "sWait" => Goto("sCheck", 0)
      /\ pc[CID].at # "sWait" => pc' = pc
  BY PlaceTypes DEF DeviceInterrupt, QuantumInterrupt, Interrupt
<1>2. /\ HeadRuns'
      /\ \A p \in Pid : \A t \in {"Free", "Quit", "Joining"} :
           state'[p] = t <=> state[p] = t
      /\ \A p \in Pid : state'[p] = "Blocked" => state[p] = "Blocked"
      /\ quitChildren' = quitChildren
  <2>1. CASE \E s \in DevSems : DeviceInterrupt(s)
    BY <1>1, <2>1, SemSets, SemVPlaces DEF DeviceInterrupt
  <2>2. CASE QuantumInterrupt
    <3>1. Dispatch(TRUE) /\ InDispatch
      BY <2>2 DEF QuantumInterrupt
    <3> QED BY <1>1, <3>1, DispatchEffect, InDispatchRuns DEF KInv, TypeInv, Settles
  <2> QED BY <2>1, <2>2
<1>3. state' \in [Pid -> States]
  BY DEF TypeInv, Inv, TypeOK
<1>4. Places'
  BY <1>1, <1>2, <1>3, SemSets, WakingPlaces DEF Points
<1> QED BY <1>2, <1>4

(* P1_P past its check: the process that goes to sleep is the one in P1_P. *)
LEMMA TakeOrBlockPlaces ==
  ASSUME KInv, TypeInv', NEW a \in {"user", "P"}, Here(a), NEW s \in Sem,
         NEW now \in BOOLEAN, TakeOrBlock(s, now)
  PROVE  HeadRuns' /\ Places'
<1>1. /\ On /\ CID \in Pid /\ sw[CID] = << >> /\ pc[CID].at = a
      /\ state[CID] = "Running"
  BY RunsHere DEF Points
<1>2. CASE Goto("user", 0) /\ UNCHANGED << vars, semUsed, semQ, CID, sw, misled >>
  <2>1. HeadRuns'
    BY <1>2, SameHeadRuns DEF vars
  <2>2. \A p \in Pid : Fits(p)'
    BY <1>1, <1>2, PlaceTypes DEF Goto, At, vars, Fits, On
  <2> QED BY <2>1, <2>2 DEF Places
<1>3. CASE /\ UsesGetPid /\ Block(now)
           /\ IF now THEN Goto("P", s) /\ InDispatch
              ELSE Goto("Pdisp", s) /\ UNCHANGED sw
           /\ UNCHANGED << semUsed, value, CID >>
  <2>1. /\ GetPid \in Pid /\ Settles([state EXCEPT ![GetPid] = "Blocked"])
        /\ quitChildren' = quitChildren
    BY <1>3, BlockEffect DEF KInv, TypeInv
  <2>2. HeadRuns'
    <3>1. CASE now
      BY <1>1, <1>3, <3>1, InDispatchRuns
    <3>2. CASE ~now
      BY <1>3, <3>2 DEF Block, Leave, HeadRuns
    <3> QED BY <3>1, <3>2
  <2>3. pc'[CID].at \in {"P", "Pdisp"} /\ \A p \in Pid \ {CID} : pc'[p] = pc[p]
    BY <1>1, <1>3, PlaceTypes DEF Goto, At
  <2>4. ASSUME NEW p \in Pid, ~misled' PROVE Fits(p)'
    <3>1. GetPid = CID
      BY <1>3, <2>4 DEF UsesGetPid
    <3>2. state' \in [Pid -> States]
      BY DEF TypeInv, Inv, TypeOK
    <3>3. CASE p = CID
      BY <1>1, <2>1, <2>3, <3>1, <3>2, <3>3, PlaceTypes DEF Settles, Fits
    <3>4. CASE p # CID
      BY <1>1, <2>1, <2>3, <3>1, <3>2, <3>4, PlaceTypes DEF Settles, Fits, States
    <3> QED BY <3>3, <3>4
  <2> QED BY <2>2, <2>4 DEF Places
<1> QED BY <1>2, <1>3 DEF TakeOrBlock

(* The calls on semaphores *)
LEMMA SemPlaces ==
  ASSUME KInv, TypeInv',
         \/ \E s \in DevSems : WaitDevice(s)
         \/ \E s \in Sem \ DevSems : PCheck(s) \/ VCheck(s) \/ SemFree(s)
         \/ PLoop \/ PDispatch \/ VDo
         \/ \E v \in 0 .. 1 : SemCreate(v)
  PROVE  HeadRuns' /\ Places'
<1>1. CASE \E s \in DevSems : WaitDevice(s)
  BY <1>1, SemSets, TakeOrBlockPlaces DEF WaitDevice
<1>2. CASE \E s \in Sem \ DevSems : PCheck(s) \/ VCheck(s)
  <2>1. PICK s \in Sem : PCheck(s) \/ VCheck(s)
    BY <1>2
  <2>2. /\ Here("user") /\ (Goto("P", s) \/ Goto("V", s))
        /\ UNCHANGED << vars, semVars, CID, sw, misled >>
    BY <2>1 DEF PCheck, VCheck
  <2>3. On /\ state[CID] = "Running" /\ pc[CID].at = "user"
    BY <2>2, RunsHere DEF Points
  <2>4. HeadRuns'
    BY <2>2, SameHeadRuns DEF vars
  <2>5. Places'
    BY <2>2, <2>3, PlaceTypes, WakingPlaces DEF vars, Points
  <2> QED BY <2>4, <2>5
<1>3. CASE \/ \E s \in Sem \ DevSems : SemFree(s)
           \/ \E v \in 0 .. 1 : SemCreate(v)
  <2>1. UNCHANGED << vars, CID, pc, sw, misled >>
    BY <1>3 DEF SemFree, SemCreate
  <2>2. HeadRuns'
    BY <2>1, SameHeadRuns DEF vars
  <2> QED BY <2>1, <2>2 DEF vars, KInv, Places, Fits
<1>4. CASE PLoop
  <2>1. Here("P") /\ Arg \in Sem
    BY <1>4, HereOwn DEF PLoop, Points, KInv
  <2> QED BY <1>4, <2>1, TakeOrBlockPlaces DEF PLoop
<1>5. CASE PDispatch
  <2>1. /\ Here("Pdisp") /\ Dispatch(FALSE) /\ Goto("P", Arg) /\ InDispatch
        /\ UNCHANGED << semVars, CID, misled >>
    BY <1>5 DEF PDispatch
  <2>2. On /\ CID \in Pid /\ Arg \in Sem /\ pc[CID].at = "Pdisp"
    BY <2>1, HereOwn DEF Points, KInv
  <2>3. HeadRuns'
    BY <2>1, <2>2, InDispatchRuns
  <2>4. Settles(state) /\ quitChildren' = quitChildren /\ state' \in [Pid -> States]
    BY <2>1, DispatchEffect DEF KInv, TypeInv, Inv, TypeOK
  <2>5. Places'
    BY <2>1, <2>2, <2>4, WakingPlaces DEF Settles, Points
  <2> QED BY <2>3, <2>5
<1>6. CASE VDo
  <2>1. /\ Here("V") /\ SemV(Arg) /\ Goto("user", 0)
        /\ UNCHANGED << CID, misled >>
    BY <1>6 DEF VDo
  <2>2. On /\ state[CID] = "Running" /\ Arg \in Sem /\ pc[CID].at = "V"
    BY <2>1, HereOwn, RunsHere DEF Points, KInv
  <2>3. /\ HeadRuns'
        /\ \A p \in Pid : \A t \in {"Free", "Quit", "Joining"} :
             state'[p] = t <=> state[p] = t
        /\ \A p \in Pid : state'[p] = "Blocked" => state[p] = "Blocked"
        /\ quitChildren' = quitChildren
    BY <2>1, <2>2, SemVPlaces
  <2>4. state' \in [Pid -> States]
    BY DEF TypeInv, Inv, TypeOK
  <2>5. Places'
    BY <2>1, <2>2, <2>3, <2>4, SemSets, WakingPlaces DEF Points
  <2> QED BY <2>3, <2>5
<1> QED BY <1>1, <1>2, <1>3, <1>4, <1>5, <1>6

(* P1_Fork: either the child's priority is better and the parent is inside *)
(* P1Dispatch, or the parent stays the head of the queue.                  *)
LEMMA ForkPlaces ==
  ASSUME KInv, TypeInv', NEW a \in {"user", "sFork"}, Here(a),
         NEW pr \in Prio, NEW tg \in Tag, NEW then \in {"user", "sCheck"},
         ForkCall(pr, tg, then)
  PROVE  HeadRuns' /\ Places'
<1> DEFINE c == FreeContext
<1>1. /\ On /\ CID = Current /\ CID \in Pid /\ state[CID] = "Running"
      /\ queue # << >> /\ sw[CID] = << >> /\ CID = cid[Current] /\ ~misled
      /\ ~first
  BY RunsHere DEF Points
<1>2. /\ c \in Pid /\ state[c] = "Free" /\ c = Min(Pid \ Used)
      /\ Settles([state EXCEPT ![c] = "Running"])
      /\ ~pending'
  <2>1. c \in Pid \ Used /\ c = Min(Pid \ Used)
        /\ Settles([state EXCEPT ![c] = "Running"]) /\ ~pending'
    BY ForkInv DEF ForkCall, KInv, TypeInv
  <2> QED BY <2>1 DEF Used
<1>3. c # CID
  BY <1>1, <1>2
<1>4. /\ pc' = [pc EXCEPT ![c] = [at |-> "new", arg |-> 0],
                          ![CID] = [at |-> then, arg |-> 0]]
      /\ sw' = [sw EXCEPT ![c] = << >>,
                          ![CID] = IF pr < prio[Current] THEN Append(@, NoPid) ELSE @]
      /\ UNCHANGED << semVars, CID, misled >>
      /\ Fork(pr, tg)
  BY DEF ForkCall, At
<1>5. /\ cid' = [cid EXCEPT ![c] = c]
      /\ quitChildren' = [quitChildren EXCEPT ![c] = << >>]
      /\ ~(pr < prio[Current]) => queue' = Insert(queue, c)
  BY <1>1, <1>2, <1>4 DEF Fork, FillPCB
<1> HIDE DEF c
<1>6. HeadRuns'
  <2>1. CASE pr < prio[Current]
    <3>1. sw[CID] \in Seq(Pid \cup {NoPid}) /\ NoPid \in Pid \cup {NoPid}
      BY <1>1, PlaceTypes
    <3>2. Append(sw[CID], NoPid) # << >>
      BY <3>1, AppendProperties
    <3>3. sw'[CID] = Append(sw[CID], NoPid)
      BY <1>1, <1>2, <1>3, <1>4, <2>1, PlaceTypes
    <3> QED BY <1>4, <3>2, <3>3 DEF HeadRuns
  <2>2. CASE ~(pr < prio[Current])
    <3>1. queue \in Seq(Pid) /\ IsInjective(queue)
      BY QueueType DEF KInv, TypeInv
    <3>2. /\ queue' \in Seq(Pid) /\ queue' # << >> /\ queue'[1] = queue[1]
      BY <1>1, <1>2, <1>5, <2>2, <3>1, InsertProps
    <3>3. Current' = Current
      BY <1>1, <3>1, <3>2 DEF Current
    <3>4. cid'[Current] = cid[Current]
      BY <1>1, <1>3, <1>5 DEF KInv, TypeInv, Inv, TypeOK
    <3> QED BY <1>1, <1>4, <3>3, <3>4 DEF HeadRuns
  <2> QED BY <2>1, <2>2
<1>7. Places'
  <2> SUFFICES ASSUME NEW p \in Pid PROVE Fits(p)'
    BY DEF Places
  <2>1. state' \in [Pid -> States] /\ Fits(p)
    BY <1>1, PlaceTypes DEF TypeInv, Inv, TypeOK
  <2>2. CASE p = c
    <3>1. pc'[p].at = "new"
      BY <1>2, <1>3, <1>4, <2>2, PlaceTypes
    <3>2. state'[p] \notin {"Blocked", "Joining", "Quit"}
      BY <1>2, <2>2, PlaceTypes DEF Settles
    <3> QED BY <3>1, <3>2 DEF Fits
  <2>3. CASE p # c
    <3>1. /\ \A t \in {"Free", "Quit", "Joining", "Blocked"} :
               state'[p] = t <=> state[p] = t
          /\ quitChildren'[p] = quitChildren[p]
      BY <1>2, <1>5, <2>3, PlaceTypes DEF Settles
    <3>2. CASE p = CID
      <4>1. pc'[p].at = then
        BY <1>1, <1>2, <1>3, <1>4, <3>2, PlaceTypes
      <4> QED BY <1>1, <3>1, <3>2, <4>1 DEF Fits
    <3>3. CASE p # CID
      <4>1. pc'[p] = pc[p]
        BY <1>4, <2>3, <3>3, PlaceTypes
      <4> QED BY <2>1, <3>1, <4>1, PlaceTypes DEF Fits, States
    <3> QED BY <3>2, <3>3
  <2> QED BY <2>2, <2>3
<1> QED BY <1>6, <1>7

(* P1_Quit of a process and of the sentinel *)
LEMMA QuitPlaces ==
  ASSUME KInv, TypeInv', QuitCall \/ SentinelQuit
  PROVE  HeadRuns' /\ Places'
<1>1. /\ Here("user") \/ Here("sQuit")
      /\ Goto("quit", 0) /\ InDispatch /\ UsesGetPid /\ CID' = CID
  BY DEF QuitCall, SentinelQuit
<1>2. CID \in Pid /\ state[CID] = "Running" /\ ~misled
  BY <1>1, RunsHere DEF Points
<1>3. HeadRuns'
  BY <1>1, <1>2, InDispatchRuns
<1>4. /\ pc'[CID].at = "quit" /\ \A p \in Pid \ {CID} : pc'[p] = pc[p]
  BY <1>1, <1>2, PlaceTypes DEF Goto, At
<1>5. ASSUME NEW p \in Pid, ~misled' PROVE Fits(p)'
  <2>1. GetPid = CID
    BY <1>1, <1>5 DEF UsesGetPid
  <2>2. state' \in [Pid -> States] /\ Fits(p)
    BY <1>2, PlaceTypes DEF TypeInv, Inv, TypeOK
  <2>3. CASE SentinelQuit
    <3>1. /\ CID = 0 /\ Settles([state EXCEPT ![CID] = "Quit"])
          /\ quitChildren' = quitChildren
      BY <2>1, <2>3, QuitFirstInv DEF SentinelQuit, QuitFirst, KInv, TypeInv
    <3>2. /\ p # CID => \A t \in {"Free", "Quit", "Joining", "Blocked"} :
                          state'[p] = t <=> state[p] = t
          /\ p = CID => state'[p] = "Quit"
      BY <1>2, <3>1, PlaceTypes DEF Settles
    <3> QED BY <1>4, <2>2, <3>1, <3>2, PlaceTypes DEF Fits, States
  <2>4. CASE QuitCall
    <3>1. /\ parent[CID] \in Pid \ {CID}
          /\ \A r \in Pid :
               /\ state'[r] = "Free" <=> state[r] = "Free"
               /\ state'[r] = "Quit" <=> state[r] = "Quit" \/ r = CID
               /\ state'[r] = "Blocked" <=> state[r] = "Blocked"
               /\ state'[r] = "Joining" <=> state[r] = "Joining" /\ r # parent[CID]
          /\ quitChildren' = [quitChildren EXCEPT ![parent[CID]] = Append(@, CID)]
      BY <2>1, <2>4, QuitOtherInv DEF QuitCall, QuitOther, ListedAt, KInv, TypeInv
    <3>2. CASE p = CID
      BY <1>4, <3>1, <3>2 DEF Fits
    <3>3. CASE p # CID /\ p # parent[CID]
      <4>1. quitChildren'[p] = quitChildren[p]
        BY <3>1, <3>3, PlaceTypes
      <4> QED BY <1>4, <2>2, <3>1, <3>3, <4>1, PlaceTypes DEF Fits, States
    <3>4. CASE p = parent[CID]
      <4>1. quitChildren'[p] = Append(quitChildren[p], CID)
        BY <3>1, <3>4, PlaceTypes
      <4>2. quitChildren'[p] # << >>
        BY <1>2, <4>1, PlaceTypes, AppendProperties
      <4> QED BY <1>4, <2>2, <3>1, <3>4, <4>2, PlaceTypes DEF Fits, States
    <3> QED BY <3>2, <3>3, <3>4
  <2> QED BY <2>3, <2>4
<1> QED BY <1>3, <1>5 DEF Places

(* P1_Join and the sentinel's rounds *)
LEMMA JoinPlaces ==
  ASSUME KInv, TypeInv',
         (\E tg \in Tags : JoinFirst(tg)) \/ JoinAgain \/ SentinelStep
  PROVE  HeadRuns' /\ Places'
<1>1. ASSUME NEW a \in {"user", "J", "sCheck", "sReap"}, Here(a),
             UNCHANGED << CID, sw, misled >>,
             UNCHANGED vars \/ \E tg \in Tag : Reap(tg),
             \/ pc' = pc /\ a = "user"
             \/ \E b \in {"user", "sQuit", "sReap", "sWait"},
                   x \in Sem \cup Tag : Goto(b, x)
      PROVE  HeadRuns' /\ Places'
  <2>1. /\ On /\ CID = Current /\ CID \in Pid /\ state[CID] = "Running"
        /\ pc[CID].at = a /\ ~misled
    BY <1>1, RunsHere DEF Points
  <2>2. UNCHANGED << queue, cid, pending, halted >>
    BY <1>1 DEF vars, Reap
  <2>3. HeadRuns'
    BY <1>1, <2>2, SameHeadRuns
  <2>4. /\ pc'[CID].at \in {"user", "sQuit", "sReap", "sWait"}
        /\ \A p \in Pid \ {CID} : pc'[p] = pc[p]
    BY <1>1, <2>1, PlaceTypes DEF Goto, At
  <2>5. CASE UNCHANGED vars
    BY <2>1, <2>3, <2>4, <2>5, PlaceTypes DEF vars, Places, Fits
  <2>6. CASE \E tg \in Tag : Reap(tg)
    <3>1. PICK tg \in Tag : Reap(tg)
      BY <2>6
    <3>2. PICK target \in Pid : /\ state[target] = "Quit"
                                /\ state' = [state EXCEPT ![target] = "Free"]
      BY <3>1, ReapInv DEF KInv, TypeInv
    <3>3. \A p \in Pid \ {CID} : quitChildren'[p] = quitChildren[p]
      BY <2>1, <3>1, PlaceTypes DEF Reap
    <3>4. ASSUME NEW p \in Pid PROVE Fits(p)'
      <4>1. CASE p = CID
        BY <2>1, <2>4, <3>2, <4>1, PlaceTypes DEF Fits
      <4>2. CASE p # CID
        <5>1. /\ Fits(p) /\ pc'[p] = pc[p] /\ quitChildren'[p] = quitChildren[p]
              /\ state \in [Pid -> States]
          BY <2>1, <2>4, <3>3, <4>2, PlaceTypes
        <5>2. state'[p] = state[p] \/ (state[p] = "Quit" /\ state'[p] = "Free")
          BY <3>2, <5>1
        <5> QED BY <5>1, <5>2 DEF Fits
      <4> QED BY <4>1, <4>2
    <3> QED BY <2>3, <3>4 DEF Places
  <2> QED BY <1>1, <2>5, <2>6
<1>2. CASE \E tg \in Tags : JoinFirst(tg)
  <2>1. PICK tg \in Tag : JoinFirst(tg)
    BY <1>2, TagsAssumption DEF Tag
  <2>2. Here("user") /\ UNCHANGED << semVars, CID >>
    BY <2>1 DEF JoinFirst
  <2>3. CASE Reap(tg) /\ UNCHANGED << pc, sw, misled >>
    BY <1>1, <2>2, <2>3
  <2>4. CASE UsesGetPid /\ JoinWait /\ Goto("J", tg) /\ InDispatch
    <3>1. CID \in Pid /\ state[CID] = "Running" /\ ~misled
      BY <2>2, RunsHere DEF Points
    <3>2. /\ pc'[CID].at = "J" /\ \A p \in Pid \ {CID} : pc'[p] = pc[p]
      BY <2>4, <3>1, PlaceTypes DEF Goto, At
    <3>3. HeadRuns'
      BY <2>2, <2>4, <3>1, InDispatchRuns
    <3>4. Settles([state EXCEPT ![GetPid] = "Joining"]) /\ quitChildren' = quitChildren
      BY <2>4, JoinWaitEffect DEF KInv, TypeInv
    <3>5. ASSUME NEW p \in Pid, ~misled' PROVE Fits(p)'
      <4>1. GetPid = CID
        BY <2>4, <3>5 DEF UsesGetPid
      <4>2. state' \in [Pid -> States] /\ Fits(p)
        BY <3>1, PlaceTypes DEF TypeInv, Inv, TypeOK
      <4>3. /\ p # CID => \A t \in {"Free", "Quit", "Joining", "Blocked"} :
                            state'[p] = t <=> state[p] = t
            /\ p = CID => state'[p] = "Joining"
        BY <3>1, <3>4, <4>1, PlaceTypes DEF Settles
      <4> QED BY <3>2, <3>4, <4>2, <4>3, PlaceTypes DEF Fits, States
    <3> QED BY <3>3, <3>5 DEF Places
  <2> QED BY <2>1, <2>3, <2>4 DEF JoinFirst
<1>3. CASE JoinAgain
  <2>1. Here("J") /\ Arg \in Tag
    BY <1>3, HereOwn DEF JoinAgain, Points, KInv
  <2> QED BY <1>1, <1>3, <2>1, SemSets DEF JoinAgain
<1>4. CASE SentinelStep
  <2>1. CASE /\ Here("sCheck") /\ UNCHANGED vars
             /\ Goto("sQuit", 0) \/ Goto("sReap", 0)
    BY <1>1, <1>4, <2>1, SemSets DEF SentinelStep
  <2>2. CASE /\ Here("sReap")
             /\ IF Arg < LastTag THEN Goto("sReap", Arg + 1) ELSE Goto("sWait", 0)
             /\ Reap(Arg) \/ UNCHANGED vars
    <3>1. Arg \in Tag
      BY <2>2, HereOwn DEF Points, KInv
    <3>2. PICK b \in {"sReap", "sWait"}, x \in Tag : Goto(b, x)
      BY <2>2, <3>1, SemSets DEF LastTag, Tag
    <3> QED BY <1>1, <1>4, <2>2, <3>1, <3>2 DEF SentinelStep
  <2> QED BY <1>4, <2>1, <2>2 DEF SentinelStep
<1> QED BY <1>2, <1>3, <1>4

(* Every step of the kernel preserves its invariant. *)
LEMMA KInvStep ==
  ASSUME KInv, [KNext]_kvars
  PROVE  KInv'
<1>1. CASE UNCHANGED kvars
  <2>1. Inv'
    BY <1>1, NextInv DEF kvars, KInv, TypeInv
  <2>2. TypeInv'
    BY <1>1, <2>1
       DEF kvars, vars, semVars, KInv, TypeInv, KTypeOK, TypeOK, Inv, Args, Started,
           PendingHere, On
  <2>3. HeadRuns' /\ Places'
    BY <1>1 DEF kvars, vars, KInv, HeadRuns, Places, Fits, On, Current
  <2> QED BY <2>2, <2>3 DEF KInv
<1>2. CASE KNext
  <2>1. TypeInv'
    BY <1>2, TypeStep DEF KInv
  <2>2. HeadRuns' /\ Places'
    <3>1. CASE KBoot \/ EvalTarget \/ ContextSwitch \/ Launch
      BY <2>1, <3>1, SwitchPlaces
    <3>2. CASE \/ \E s \in DevSems : DeviceInterrupt(s) \/ WaitDevice(s)
               \/ QuantumInterrupt
      BY <2>1, <3>2, InterruptPlaces, SemPlaces
    <3>3. CASE \/ \E s \in Sem \ DevSems : PCheck(s) \/ VCheck(s) \/ SemFree(s)
               \/ PLoop \/ PDispatch \/ VDo
               \/ \E v \in 0 .. 1 : SemCreate(v)
      BY <2>1, <3>3, SemPlaces
    <3>4. CASE \E pr \in ForkPrios, tg \in Tags : UserFork(pr, tg)
      BY <2>1, <3>4, ForkPriosAssumption, TagsAssumption, ForkPlaces
         DEF UserFork, Prio, Tag
    <3>5. CASE SentinelFork
      BY <2>1, <3>5, ForkPlaces DEF SentinelFork, Prio, Tag
    <3>6. CASE QuitCall \/ SentinelQuit
      BY <2>1, <3>6, QuitPlaces
    <3>7. CASE (\E tg \in Tags : JoinFirst(tg)) \/ JoinAgain \/ SentinelStep
      BY <2>1, <3>7, JoinPlaces
    <3>8. CASE Stopped
      BY <3>8 DEF Stopped, kvars, vars, KInv, HeadRuns, Places, Fits, On, Current
    <3> QED BY <1>2, <3>1, <3>2, <3>3, <3>4, <3>5, <3>6, <3>7, <3>8 DEF KNext
  <2> QED BY <2>1, <2>2 DEF KInv
<1> QED BY <1>1, <1>2

LEMMA KInitInv == KInit => KInv
<1> SUFFICES ASSUME KInit PROVE KInv
  OBVIOUS
<1>1. Inv
  BY InitInv DEF KInit
<1>2. << >> \in Seq(Pid \cup {NoPid}) /\ << >> \in Seq(Pid)
  OBVIOUS
<1>3. KTypeOK
  <2>1. pc \in [Pid -> [at : Points, arg : Sem \cup Tag]]
    BY SemSets DEF KInit, At, Points
  <2>2. /\ semUsed \in [Sem -> BOOLEAN] /\ value \in [Sem -> 0 .. MaxValue]
        /\ semQ \in [Sem -> Seq(Pid)] /\ sw \in [Pid -> Seq(Pid \cup {NoPid})]
    BY <1>2, SemSets DEF KInit
  <2> QED BY <1>1, <2>1, <2>2 DEF KInit, KTypeOK, Inv
<1>4. Args /\ Started /\ PendingHere /\ HeadRuns /\ Places
  BY DEF KInit, Init, Args, Started, PendingHere, HeadRuns, Places, Fits, On, At
<1> QED BY <1>1, <1>3, <1>4 DEF KInv, TypeInv

LEMMA KInvariance == KSpec => []KInv
<1>1. KInit => KInv
  BY KInitInv
<1>2. KInv /\ [KNext]_kvars => KInv'
  BY KInvStep
<1> QED BY <1>1, <1>2, PTL DEF KSpec

(* The kernel's variables keep their types: in particular the argument of  *)
(* P1ContextSwitch and the queues of the semaphores hold process IDs       *)
(* however interrupts nest.                                                *)
THEOREM KernelTypeCorrect == KSpec => []KTypeOK
BY KInvariance, PTL DEF KInv, TypeInv

(* Every step of the kernel is a step of ProcTable or leaves it alone.     *)
LEMMA KernelTable ==
  ASSUME 2 \in ForkPrios, Tags = Tag, KInv, [KNext]_kvars
  PROVE  [Next]_vars
<1>1. CASE KBoot
  BY <1>1 DEF KBoot, Next
<1>2. CASE UNCHANGED kvars
  BY <1>2 DEF kvars
<1>3. CASE \E pr \in ForkPrios, tg \in Tags : UserFork(pr, tg)
  <2>1. PICK pr \in ForkPrios, tg \in Tags : UserFork(pr, tg)
    BY <1>3
  <2>2. ~first
    BY <2>1, RunsHere DEF UserFork, Points
  <2> QED BY <2>1, <2>2 DEF UserFork, ForkCall, Next
<1>4. CASE SentinelFork
  <2>1. ~first
    BY <1>4, RunsHere DEF SentinelFork, Points
  <2> QED BY <1>4, <2>1 DEF SentinelFork, ForkCall, Next, Tag
<1>5. CASE KNext /\ ~Forks
  <2>1. OtherStep
    BY <1>5, KernelOtherStep DEF KInv, TypeInv
  <2> QED BY <2>1 DEF OtherStep, Next
<1> QED BY <1>1, <1>2, <1>3, <1>4, <1>5 DEF Forks

(* The kernel with its contexts, interrupts and semaphores implements the  *)
(* process table: every region that it runs with interrupts disabled is a  *)
(* step of ProcTable, or leaves the table alone.  The sentinel forks       *)
(* P2_Startup with priority 2 and joins with both tags, so these must be   *)
(* among the priorities and tags of the table.                             *)
THEOREM KernelImplementsTable ==
  ASSUME 2 \in ForkPrios, Tags = Tag
  PROVE  KSpec => Spec
<1>1. KInit => Init
  BY DEF KInit
<1>2. KInv /\ [KNext]_kvars => [Next]_vars
  BY KernelTable
<1> QED BY <1>1, <1>2, KInvariance, PTL DEF KSpec, Spec

LEMMA RunsItselfHolds == KInv => RunsItself
<1> SUFFICES ASSUME KInv, On PROVE RunsItself
  BY DEF RunsItself
<1>1. /\ sw[CID] = << >> /\ ~pending => CID = cid[Current]
      /\ pending => pc[CID].at = "Pdisp"
  BY DEF KInv, TypeInv, HeadRuns, PendingHere
<1>2. \A p \in Pid : Fits(p)
  BY PlaceTypes
<1>3. ~(sw[CID] = << >> /\ pc[CID].at = "quit")
  <2> SUFFICES ASSUME sw[CID] = << >>, pc[CID].at = "quit" PROVE FALSE
    OBVIOUS
  <2>1. state[CID] = "Running"
    BY RunsHere DEF Here, Points
  <2> QED BY <1>2, <2>1, PlaceTypes DEF Fits
<1> QED BY <1>1, <1>2, <1>3 DEF RunsItself, Fits

(* The process whose own code runs is the head of the dispatch queue, and  *)
(* every process stands where its state says: a BLOCKED one in P1_P, a     *)
(* JOINING one in P1_Join, and one that has quit never comes back from     *)
(* P1Dispatch, however interrupts nest on its stack.                       *)
THEOREM CodeMatchesTable == KSpec => []RunsItself
BY KInvariance, RunsItselfHolds, PTL

(* A process that P1_Join made wait comes back only to a quit child, so    *)
(* the loop of P1_Join never asks P1SetState again with interrupts enabled *)
(* between the question and the answer.                                    *)
THEOREM JoinComesBackServed == KSpec => []JoinFindsChild
<1>1. KInv => JoinFindsChild
  <2> SUFFICES ASSUME KInv, Here("J") PROVE quitChildren[CID] # << >>
    BY DEF JoinFindsChild
  <2>1. CID \in Pid /\ state[CID] = "Running" /\ pc[CID].at = "J"
    BY RunsHere DEF Points
  <2> QED BY <2>1, PlaceTypes DEF Fits, Here
<1> QED BY <1>1, KInvariance, PTL

-----------------------------------------------------------------------------
(* How the machine comes to a halt: only when the sentinel is the last     *)
(* process, whatever interrupts and adoptions came between its last look   *)
(* at its children and its call of P1_Quit.                                *)

(* The code of the sentinel in phase1d.c, after its launch *)
SentinelPoints == {"sFork", "sCheck", "sReap", "sWait", "sQuit"}

Runs == {"Ready", "Running"}

(* Only process 0 executes that code, it never leaves it and never waits   *)
(* for anything; once it has seen that it has no child, it has none.       *)
SentinelGuards ==
  ~misled /\ halted = "no" =>
    /\ ~first => state[0] \in Runs /\ pc[0].at \in {"new"} \cup SentinelPoints
    /\ pc[0].at = "sQuit" => NumChildren(0) = 0

Sentry ==
  /\ \A p \in Pid \ {0} : pc[p].at \notin SentinelPoints
  /\ SentinelGuards

HaltInv == KInv /\ Family /\ Sentry /\ HaltsClean

-----------------------------------------------------------------------------
(* The context that runs is that of process 0 exactly at the points of the *)
(* sentinel.                                                               *)
LEMMA SentinelRuns ==
  ASSUME HaltInv, On
  PROVE  /\ CID \in Pid /\ 0 \in Pid /\ ~first /\ halted = "no" /\ ~misled
         /\ state[0] \in Runs
         /\ pc[0].at \in {"new"} \cup SentinelPoints
         /\ pc[CID].at \in SentinelPoints => CID = 0
         /\ pc[CID].at \notin {"new"} \cup SentinelPoints => CID # 0
<1>1. CID \in Pid /\ 0 \in Pid /\ ~first /\ halted = "no" /\ ~misled
  BY OwnTypes, PidNat DEF HaltInv, KInv, On
<1> QED BY <1>1 DEF HaltInv, Sentry, SentinelGuards

(* The steps on the process table of which none takes the sentinel off the *)
(* queue, unless the code mistakes it for another process.                 *)
BesidesSentinel ==
  \/ \E pr \in Prio, tg \in Tag : Fork(pr, tg)
  \/ \E tg \in Tag : Reap(tg)
  \/ QuitOther
  \/ (misled' \/ GetPid # 0) /\ \E now \in BOOLEAN : Block(now)
  \/ (misled' \/ GetPid # 0) /\ JoinWait
  \/ \E p \in Pid : Wake(p)
  \/ \E rotate \in BOOLEAN : Dispatch(rotate)
  \/ UNCHANGED vars

LEMMA KernelBesides ==
  ASSUME HaltInv, KNext, On, ~SentinelQuit
  PROVE  BesidesSentinel
<1>1. KTypeOK /\ Args /\ CID \in Pid /\ ~first
  BY SentinelRuns DEF HaltInv, KInv, TypeInv
<1>2. ASSUME NEW a \in {"user", "P"}, Here(a), UsesGetPid
      PROVE  misled' \/ GetPid # 0
  <2>1. CID # 0
    BY <1>2, SentinelRuns DEF Here, SentinelPoints
  <2> QED BY <1>2, <2>1 DEF UsesGetPid
<1>3. ASSUME NEW a \in {"user", "P"}, Here(a), NEW s, NEW now \in BOOLEAN,
             TakeOrBlock(s, now)
      PROVE  BesidesSentinel
  BY <1>2, <1>3 DEF TakeOrBlock, BesidesSentinel
<1>4. CASE \E s \in DevSems : WaitDevice(s)
  BY <1>3, <1>4 DEF WaitDevice
<1>5. CASE PLoop
  BY <1>3, <1>5 DEF PLoop
<1>6. CASE \E tg \in Tags : JoinFirst(tg)
  BY <1>2, <1>6, TagsAssumption DEF JoinFirst, BesidesSentinel, Tag
<1>7. CASE QuitCall
  BY <1>7 DEF QuitCall, BesidesSentinel
<1>8. CASE KBoot
  BY <1>1, <1>8 DEF KBoot, Boot
<1>9. CASE SentinelFork
  BY <1>9 DEF SentinelFork, ForkCall, BesidesSentinel, Prio, Tag
<1>10. CASE \E pr \in ForkPrios, tg \in Tags : UserFork(pr, tg)
  BY <1>10, ForkPriosAssumption, TagsAssumption
     DEF UserFork, ForkCall, BesidesSentinel, Prio, Tag
<1>11. CASE EvalTarget \/ ContextSwitch \/ Launch \/ Stopped
  BY <1>11 DEF EvalTarget, ContextSwitch, Launch, Stopped, kvars, BesidesSentinel
<1>12. CASE \E s \in DevSems : DeviceInterrupt(s)
  BY <1>1, <1>12, SemSets, SemVTable DEF DeviceInterrupt, BesidesSentinel
<1>13. CASE QuantumInterrupt \/ PDispatch
  BY <1>13 DEF QuantumInterrupt, PDispatch, BesidesSentinel
<1>14. CASE \/ \E s \in Sem \ DevSems : PCheck(s) \/ VCheck(s) \/ SemFree(s)
            \/ \E v \in 0 .. 1 : SemCreate(v)
  BY <1>14 DEF PCheck, VCheck, SemFree, SemCreate, BesidesSentinel
<1>15. CASE VDo
  <2>1. Arg \in Sem
    BY <1>1, <1>15 DEF VDo, Here, On, Args, Arg
  <2> QED BY <1>1, <1>15, <2>1, SemVTable DEF VDo, BesidesSentinel
<1>16. CASE JoinAgain \/ SentinelStep
  <2>1. Here("J") \/ Here("sReap") => Arg \in Tag
    BY <1>1 DEF Here, On, Args, Arg
  <2> QED BY <1>16, <2>1 DEF JoinAgain, SentinelStep, BesidesSentinel
<1> QED BY <1>4, <1>5, <1>6, <1>7, <1>8, <1>9, <1>10, <1>11, <1>12, <1>13,
           <1>14, <1>15, <1>16 DEF KNext

(* P1Dispatch halts the machine only if it finds nobody in the queue. *)
LEMMA HaltsOnlyEmpty ==
  ASSUME Inv, Inv', halted = "no", BesidesSentinel
  PROVE  /\ halted' \in {"no", "empty"}
         /\ state'[0] \in Runs => halted' = "no"
<1>1. ASSUME NEW q, NEW st, NEW pr, NEW rotate, DispatchOn(q, st, pr, rotate)
      PROVE  halted' = "no" \/ (halted' = "empty" /\ queue' = << >>)
  BY <1>1 DEF DispatchOn
<1>2. halted' = "no" \/ (halted' = "empty" /\ queue' = << >>)
  <2>1. CASE \E pr \in Prio, tg \in Tag : Fork(pr, tg)
    BY <2>1, ForkInv
  <2>2. CASE \E tg \in Tag : Reap(tg)
    BY <2>2 DEF Reap
  <2>3. CASE QuitOther
    BY <1>1, <2>3 DEF QuitOther
  <2>4. CASE \E now \in BOOLEAN : Block(now)
    BY <1>1, <2>4 DEF Block, Leave
  <2>5. CASE JoinWait
    BY <1>1, <2>5 DEF JoinWait, Leave
  <2>6. CASE \E p \in Pid : Wake(p)
    BY <1>1, <2>6 DEF Wake
  <2>7. CASE \E rotate \in BOOLEAN : Dispatch(rotate)
    BY <1>1, <2>7 DEF Dispatch
  <2>8. CASE UNCHANGED vars
    BY <2>8 DEF vars
  <2> QED BY <2>1, <2>2, <2>3, <2>4, <2>5, <2>6, <2>7, <2>8 DEF BesidesSentinel
<1>3. state'[0] \in Runs => queue' # << >>
  <2>1. 0 \in Pid /\ Range(queue') = {p \in Pid : state'[p] \in Runs}
    BY PidNat DEF Inv, QueueExact, Runs
  <2>2. DOMAIN << >> = {} /\ Range(<< >>) = {}
    BY EmptySeq DEF Range
  <2> QED BY <2>1, <2>2
<1> QED BY <1>2, <1>3

(* These steps leave the sentinel in the queue. *)
LEMMA SentinelStays ==
  ASSUME Inv, Inv', halted = "no", state[0] \in Runs, BesidesSentinel, ~misled'
  PROVE  state'[0] \in Runs
<1>1. /\ 0 \in Pid /\ state \in [Pid -> States] /\ state'[0] \in States
      /\ state[0] \in {"Ready", "Running"}
  BY PidNat DEF Inv, TypeOK, Runs
<1>2. ASSUME NEW st, Settles(st), st[0] \in Runs
      PROVE  state'[0] \in Runs
  BY <1>1, <1>2 DEF Settles, States, Runs
<1>3. CASE \E pr \in Prio, tg \in Tag : Fork(pr, tg)
  BY <1>1, <1>2, <1>3, ForkInv DEF Runs
<1>4. CASE \E tg \in Tag : Reap(tg)
  BY <1>1, <1>4, ReapInv DEF Runs
<1>5. CASE QuitOther
  <2>1. GetPid # 0
    BY <1>5 DEF QuitOther
  <2> QED BY <1>1, <1>5, <2>1, QuitOtherInv DEF States, Runs
<1>6. CASE GetPid # 0 /\ ((\E now \in BOOLEAN : Block(now)) \/ JoinWait)
  BY <1>1, <1>2, <1>6, BlockEffect, JoinWaitEffect DEF Runs
<1>7. CASE \E p \in Pid : Wake(p)
  BY <1>1, <1>2, <1>7, WakeEffect DEF Runs
<1>8. CASE \E rotate \in BOOLEAN : Dispatch(rotate)
  BY <1>1, <1>2, <1>8, DispatchEffect DEF Runs
<1>9. CASE UNCHANGED vars
  BY <1>9 DEF vars
<1> QED BY <1>3, <1>4, <1>5, <1>6, <1>7, <1>8, <1>9 DEF BesidesSentinel

-----------------------------------------------------------------------------
(* The points: process 0 stays within the code of the sentinel, the others *)
(* out of it.                                                              *)
PointsStay ==
  /\ \A p \in Pid \ {0} : pc'[p].at \notin SentinelPoints
  /\ pc'[0].at \in {"new"} \cup SentinelPoints
  /\ pc'[0].at = "sQuit" => \/ pc[0].at = "sQuit"
                            \/ UNCHANGED vars /\ NumChildren(0) = 0

LEMMA SamePoints ==
  ASSUME HaltInv, On, pc' = pc
  PROVE  PointsStay
BY SentinelRuns DEF HaltInv, Sentry, PointsStay

LEMMA GotoPoints ==
  ASSUME HaltInv, On, NEW a \in Points, NEW x, Goto(a, x),
         a \in SentinelPoints <=> CID = 0,
         a = "sQuit" => UNCHANGED vars /\ NumChildren(0) = 0
  PROVE  PointsStay
<1>1. /\ pc' = [pc EXCEPT ![CID] = [at |-> a, arg |-> x]]
      /\ pc \in [Pid -> [at : Points, arg : Sem \cup Tag]]
  BY PlaceTypes DEF Goto, At, HaltInv
<1>2. \A p \in Pid : pc'[p].at = IF p = CID THEN a ELSE pc[p].at
  BY <1>1
<1> QED BY <1>2, SentinelRuns DEF HaltInv, Sentry, PointsStay

LEMMA KernelPoints ==
  ASSUME HaltInv, KNext, On, ~SentinelQuit
  PROVE  PointsStay
<1>0. CID \in Pid /\ ~first /\ KInv
  BY SentinelRuns DEF HaltInv
<1>1. ASSUME NEW b \in {"user", "P", "Pdisp", "V", "J"}, Here(b),
             NEW a \in Points \ SentinelPoints, NEW x, Goto(a, x)
      PROVE  PointsStay
  <2>1. CID # 0
    BY <1>1, SentinelRuns DEF Here, SentinelPoints
  <2> QED BY <1>1, <2>1, GotoPoints DEF SentinelPoints
<1>2. ASSUME NEW b \in SentinelPoints, pc[CID].at = b,
             NEW a \in SentinelPoints \ {"sQuit"}, NEW x, Goto(a, x)
      PROVE  PointsStay
  BY <1>2, SentinelRuns, GotoPoints DEF SentinelPoints, Points
<1>3. CASE Launch
  <2>1. Here("new") /\ CID = Current
    BY <1>0, <1>3, RunsHere DEF Launch, Points
  <2>2. IF CID = 0 THEN Goto("sFork", 0) ELSE Goto("user", 0)
    BY <1>3, <2>1 DEF Launch
  <2> QED BY <2>2, GotoPoints DEF SentinelPoints, Points
<1>4. CASE \/ \E s \in DevSems : DeviceInterrupt(s)
           \/ QuantumInterrupt
  <2>1. Interrupt
    BY <1>4 DEF DeviceInterrupt, QuantumInterrupt
  <2>2. IF pc[CID].at = "sWait" THEN Goto("sCheck", 0) ELSE pc' = pc
    BY <2>1 DEF Interrupt
  <2> QED BY <1>2, <2>2, SamePoints DEF SentinelPoints
<1>5. ASSUME NEW b \in {"user", "P"}, Here(b), NEW s, NEW now \in BOOLEAN,
             TakeOrBlock(s, now)
      PROVE  PointsStay
  <2>1. Goto("user", 0) \/ Goto("P", s) \/ Goto("Pdisp", s)
    BY <1>5 DEF TakeOrBlock
  <2> QED BY <1>1, <1>5, <2>1 DEF SentinelPoints, Points
<1>6. CASE \/ \E s \in DevSems : WaitDevice(s)
           \/ PLoop
  BY <1>5, <1>6 DEF WaitDevice, PLoop
<1>7. CASE \/ \E s \in Sem \ DevSems : PCheck(s) \/ VCheck(s)
           \/ PDispatch \/ VDo \/ QuitCall \/ JoinAgain
  BY <1>1, <1>7 DEF PCheck, VCheck, PDispatch, VDo, QuitCall, JoinAgain,
                    SentinelPoints, Points
<1>8. CASE \/ \E s \in Sem \ DevSems : SemFree(s)
           \/ \E v \in 0 .. 1 : SemCreate(v)
           \/ EvalTarget \/ ContextSwitch \/ Stopped
  BY <1>8, SamePoints DEF SemFree, SemCreate, EvalTarget, ContextSwitch, Stopped,
                          kvars
<1>9. CASE \E tg \in Tags : JoinFirst(tg)
  BY <1>1, <1>9, SamePoints DEF JoinFirst, SentinelPoints, Points
<1>10. CASE KBoot
  BY <1>0, <1>10 DEF KBoot, Boot
<1>11. ASSUME NEW pr \in Prio, NEW tg \in Tag,
              \/ Here("sFork") /\ ForkCall(pr, tg, "sCheck")
              \/ Here("user") /\ ForkCall(pr, tg, "user")
       PROVE  PointsStay
  <2> DEFINE c == FreeContext
  <2>1. c \in Pid \ Used /\ 0 \in Used
    BY <1>0, <1>11, ForkInv DEF ForkCall, KInv, TypeInv, Inv, ParentOK
  <2>2. PICK then \in {"user", "sCheck"} :
          /\ pc' = [pc EXCEPT ![c] = [at |-> "new", arg |-> 0],
                              ![CID] = [at |-> then, arg |-> 0]]
          /\ then = "sCheck" <=> CID = 0
    BY <1>11, SentinelRuns DEF ForkCall, At, Here, SentinelPoints
  <2> HIDE DEF c
  <2>3. \A p \in Pid : pc'[p].at = IF p = CID THEN then
                                   ELSE IF p = c THEN "new" ELSE pc[p].at
    BY <2>1, <2>2, <1>0, PlaceTypes
  <2>4. CID \in Pid /\ 0 \in Pid /\ 0 # c
    BY <2>1, SentinelRuns
  <2>5. ASSUME NEW p \in Pid \ {0}
        PROVE  pc'[p].at \notin SentinelPoints
    <3>1. pc[p].at \notin SentinelPoints
      BY DEF HaltInv, Sentry
    <3>2. p = CID => then = "user"
      BY <2>2
    <3>3. pc'[p].at = "user" \/ pc'[p].at = "new" \/ pc'[p].at = pc[p].at
      BY <2>3, <3>2
    <3> QED BY <3>1, <3>3 DEF SentinelPoints
  <2>6. CASE CID = 0
    BY <2>2, <2>3, <2>5, <2>6, <2>4 DEF PointsStay, SentinelPoints
  <2>7. CASE CID # 0
    <3>1. pc'[0].at = pc[0].at
      BY <2>3, <2>4, <2>7
    <3> QED BY <2>5, <3>1, SentinelRuns DEF PointsStay
  <2> QED BY <2>6, <2>7
<1>12. CASE SentinelFork
  BY <1>11, <1>12 DEF SentinelFork, Prio, Tag
<1>13. CASE \E pr \in ForkPrios, tg \in Tags : UserFork(pr, tg)
  BY <1>11, <1>13, ForkPriosAssumption, TagsAssumption DEF UserFork, Prio, Tag
<1>14. CASE SentinelStep
  <2>1. CASE Here("sCheck") /\ SentinelDone /\ Goto("sQuit", 0) /\ UNCHANGED vars
    BY <2>1, SentinelRuns, GotoPoints
       DEF Here, SentinelDone, SentinelPoints, Points
  <2>2. CASE Here("sCheck") /\ Goto("sReap", 0)
    BY <1>2, <2>2 DEF Here, SentinelPoints
  <2>3. CASE Here("sReap") /\ (Goto("sReap", Arg + 1) \/ Goto("sWait", 0))
    BY <1>2, <2>3 DEF Here, SentinelPoints
  <2> QED BY <1>14, <2>1, <2>2, <2>3 DEF SentinelStep
<1> QED BY <1>3, <1>4, <1>6, <1>7, <1>8, <1>9, <1>10, <1>12, <1>13, <1>14 DEF KNext

(* Between its last look at its children and P1_Quit the sentinel is the   *)
(* only living process: nobody can fork, quit or be reaped.                *)
LEMMA StaysAlone ==
  ASSUME HaltInv, KNext, On, ~SentinelQuit, pc[0].at = "sQuit"
  PROVE  NumChildren(0)' = 0
<1>1. /\ NumChildren(0) = 0 /\ Inv /\ ~first /\ halted = "no" /\ 0 \in Pid
      /\ FamilyInv
  BY SentinelRuns DEF HaltInv, Sentry, SentinelGuards, KInv, TypeInv, FamilyInv
<1>2. children[0] = {} /\ quitChildren[0] = << >> /\ Live \ {0} = {}
  BY <1>1, NoChildren, Alone
<1>3. ASSUME NEW p \in Pid, state[p] = "Running"
      PROVE  p = 0
  BY <1>2, <1>3 DEF Live
<1>4. Executing => Current = 0
  BY <1>1, <1>3, CurrentLives
<1>5. ~QuitOther
  BY <1>3, GetPidRuns DEF QuitOther
<1>6. \A tg \in Tag : ~Reap(tg)
  <2> SUFFICES ASSUME NEW tg \in Tag, Reap(tg) PROVE FALSE
    OBVIOUS
  <2>1. Executing /\ ChildStatus(tg) = "SUCCESS"
    BY DEF Reap
  <2>2. quitChildren[Current] = << >>
    BY <1>2, <1>4, <2>1
  <2> QED BY <2>1, <2>2 DEF ChildStatus
<1>7. ~Forks
  <2>1. ~KBoot
    BY <1>1 DEF KBoot, Boot
  <2>2. ASSUME NEW a \in {"user", "sFork"}, Here(a)
        PROVE  FALSE
    <3>1. CID = Current /\ CID \in Pid /\ state[CID] = "Running" /\ pc[CID].at = a
      BY <2>2, RunsHere DEF HaltInv, Points
    <3>2. CID = 0
      BY <1>3, <3>1
    <3> QED BY <3>1, <3>2
  <2> QED BY <2>1, <2>2 DEF Forks, SentinelFork, UserFork
<1>8. OtherStep
  BY <1>7, KernelOtherStep DEF HaltInv, KInv, TypeInv
<1>9. UNCHANGED << children, quitChildren >>
  BY <1>5, <1>6, <1>8
     DEF OtherStep, QuitFirst, Block, JoinWait, Leave, Wake, Dispatch, vars
<1> QED BY <1>1, <1>9 DEF NumChildren

-----------------------------------------------------------------------------
(* Every step keeps the family together ... *)
LEMMA KernelFamily ==
  ASSUME KInv, Family, KNext
  PROVE  Family'
<1>1. FamilyInv /\ TableStep
  BY KernelTableStep DEF FamilyInv, KInv, TypeInv
<1>2. CASE \E pr \in Prio, tg \in Tag : Fork(pr, tg)
  BY <1>1, <1>2, ForkFamily
<1>3. CASE QuitFirst
  BY <1>1, <1>3, QuitFirstFamily DEF Family
<1>4. CASE QuitOther
  BY <1>1, <1>4, QuitOtherFamily
<1>5. CASE ~(\E pr \in Prio, tg \in Tag : Fork(pr, tg)) /\ ~QuitFirst /\ ~QuitOther
  BY <1>1, <1>5, OtherFamily DEF TableStep, OtherStep
<1> QED BY <1>2, <1>3, <1>4, <1>5

(* ... and the sentinel on guard. *)
LEMMA SentryStep ==
  ASSUME HaltInv, KNext, KInv', Family'
  PROVE  Sentry' /\ HaltsClean'
<1>1. CASE Stopped
  BY <1>1 DEF Stopped, kvars, vars, HaltInv, Sentry, SentinelGuards, HaltsClean,
              NumChildren, Live
<1>2. CASE KBoot
  <2>1. /\ ~pending' /\ halted' = "no" /\ first' = FALSE
        /\ FreeContext \in Pid /\ 0 \in Pid
        /\ Settles([state EXCEPT ![FreeContext] = "Running"])
        /\ \A p \in Pid : state[p] = "Free"
    BY <1>2, BootEffect, PidNat DEF HaltInv, KInv, TypeInv
  <2>2. 0 \in Live'
    BY <2>1 DEF Family
  <2>3. state \in [Pid -> States]
    BY PlaceTypes DEF HaltInv
  <2>4. \A p \in Pid : p # FreeContext => state'[p] = "Free"
    BY <2>1, <2>3 DEF Settles
  <2>5. CID' \in Pid /\ state'[CID'] = "Running"
    <3>1. Executing' /\ Inv'
      BY <2>1 DEF Executing, KInv, TypeInv
    <3>2. Current' \in Pid /\ state'[Current'] = "Running" /\ cid'[Current'] = Current'
      <4>1. queue' # << >> /\ state'[Current'] = "Running" /\ queue' \in Seq(Pid)
        BY <3>1 DEF Inv, HeadBest, TypeOK
      <4>2. Current' \in Pid
        BY <4>1 DEF Current
      <4> QED BY <3>1, <4>1, <4>2 DEF Inv, CidIsPid, Used
    <3>3. CID' = Current'
      <4>1. CID' = cid'[queue'[1]]
        BY <1>2 DEF KBoot
      <4>2. queue' # << >> /\ queue' \in Seq(Pid)
        BY <3>1 DEF Inv, HeadBest, TypeOK
      <4>3. Current' = queue'[1]
        BY <4>2 DEF Current
      <4> QED BY <3>2, <4>1, <4>3
    <3> QED BY <3>2, <3>3
  <2>6. CID' = 0
    BY <2>1, <2>2, <2>4, <2>5 DEF Live
  <2>7. \A p \in Pid : pc'[p].at = IF p = 0 THEN "new" ELSE pc[p].at
    BY <1>2, <2>1, <2>6, PlaceTypes DEF KBoot, At, HaltInv
  <2>8. state'[0] \in Runs /\ pc'[0].at = "new"
    BY <2>1, <2>5, <2>6, <2>7 DEF Runs
  <2> QED BY <2>1, <2>7, <2>8
          DEF HaltInv, Sentry, SentinelGuards, HaltsClean
<1>3. CASE SentinelQuit
  <2>1. Here("sQuit") /\ On /\ pc[CID].at = "sQuit"
    BY <1>3 DEF SentinelQuit, Here
  <2>2. CID = 0 /\ 0 \in Pid /\ halted = "no" /\ ~misled
    BY <2>1, SentinelRuns DEF SentinelPoints
  <2>3. NumChildren(0) = 0
    BY <2>1, <2>2 DEF HaltInv, Sentry, SentinelGuards
  <2>4. halted' = "empty" /\ Live' = {}
    BY <1>3, <2>3, QuitFirstFamily DEF SentinelQuit, HaltInv, KInv, TypeInv, FamilyInv
  <2>5. \A p \in Pid \ {0} : pc'[p] = pc[p]
    BY <1>3, <2>2, PlaceTypes DEF SentinelQuit, Goto, HaltInv
  <2> QED BY <2>4, <2>5 DEF HaltInv, Sentry, SentinelGuards, HaltsClean
<1>4. CASE On /\ ~SentinelQuit
  <2>1. /\ Inv /\ Inv' /\ halted = "no" /\ state[0] \in Runs
        /\ BesidesSentinel /\ PointsStay /\ ~misled
    BY <1>4, SentinelRuns, KernelBesides, KernelPoints DEF HaltInv, KInv, TypeInv
  <2>2. halted' \in {"no", "empty"}
    BY <2>1, HaltsOnlyEmpty
  <2>3. ~misled' => state'[0] \in Runs /\ halted' = "no"
    BY <2>1, SentinelStays, HaltsOnlyEmpty
  <2>4. pc'[0].at = "sQuit" => NumChildren(0)' = 0
    <3>1. CASE pc[0].at = "sQuit"
      BY <1>4, <3>1, StaysAlone
    <3>2. CASE UNCHANGED vars /\ NumChildren(0) = 0
      BY <3>2 DEF vars, NumChildren
    <3> QED BY <2>1, <3>1, <3>2 DEF PointsStay
  <2> QED BY <2>1, <2>2, <2>3, <2>4
          DEF Sentry, SentinelGuards, HaltsClean, PointsStay
<1> QED BY <1>1, <1>2, <1>3, <1>4, OnOrNot

LEMMA HaltInvariance == KSpec => []HaltInv
<1>1. KInit => HaltInv
  <2> SUFFICES ASSUME KInit PROVE HaltInv
    OBVIOUS
  <2>1. KInv /\ 0 \in Pid
    BY KInitInv, PidNat
  <2>2. Live = {} /\ first /\ halted = "no"
    BY DEF KInit, Init, Live
  <2>3. Family /\ HaltsClean
    BY <2>2 DEF Family, Acyclic, HaltsClean
  <2>4. \A p \in Pid : pc[p].at = "none"
    BY DEF KInit, At
  <2>5. Sentry
    BY <2>1, <2>2, <2>4 DEF Sentry, SentinelGuards, SentinelPoints
  <2> QED BY <2>1, <2>3, <2>5 DEF HaltInv
<1>2. HaltInv /\ [KNext]_kvars => HaltInv'
  <2> SUFFICES ASSUME HaltInv, [KNext]_kvars PROVE HaltInv'
    OBVIOUS
  <2>1. KInv'
    BY KInvStep DEF HaltInv
  <2>2. CASE KNext
    <3>1. Family'
      BY <2>2, KernelFamily DEF HaltInv
    <3>2. Sentry' /\ HaltsClean'
      BY <2>1, <2>2, <3>1, SentryStep
    <3> QED BY <2>1, <3>1, <3>2 DEF HaltInv
  <2>3. CASE UNCHANGED kvars
    BY <2>1, <2>3
       DEF kvars, vars, HaltInv, Family, Acyclic, Live, Sentry, SentinelGuards,
           HaltsClean, NumChildren
  <2> QED BY <2>2, <2>3
<1> QED BY <1>1, <1>2, PTL DEF KSpec

(* The machine never halts with "First process quitting with children",    *)
(* and when it halts because the dispatch queue is empty nobody is left    *)
(* blocked or joining: the sentinel looks at its children and calls        *)
(* P1_Quit in different regions, and nothing can come between them.        *)
THEOREM MachineHaltsClean == KSpec => []HaltsClean
BY HaltInvariance, PTL DEF HaltInv

-----------------------------------------------------------------------------
(* The lists of the semaphores are exact, as long as no process frees a    *)
(* semaphore.                                                              *)

(* Semaphores that are never freed: whoever is past the check of P1_P or   *)
(* P1_V, or on a list, is there with a semaphore in use, so P1_SemCreate   *)
(* never empties a list with processes on it.                              *)
UsedOK ==
  /\ \A s \in DevSems : semUsed[s]
  /\ \A p \in Pid : pc[p].at \in {"P", "Pdisp", "V"} => semUsed[pc[p].arg]
  /\ \A s \in Sem : semQ[s] # << >> => semUsed[s]

SemInv == KInv /\ UsedOK /\ WaitersExact

LEMMA SemTypes ==
  ASSUME KInv
  PROVE  /\ semUsed \in [Sem -> BOOLEAN] /\ semQ \in [Sem -> Seq(Pid)]
         /\ pc \in [Pid -> [at : Points, arg : Sem \cup Tag]]
         /\ \A p \in Pid : pc[p].at \in {"P", "Pdisp", "V"} => pc[p].arg \in Sem
         /\ On => CID \in Pid /\ ~misled
BY PlaceTypes, OwnTypes DEF KInv, TypeInv, Args

(* What a step must do to keep UsedOK: no semaphore is freed, and whoever  *)
(* goes into P1_P or P1_V or onto a list does so with one in use.          *)
LEMMA UsedFrame ==
  ASSUME SemInv,
         \A s \in Sem : semUsed[s] => semUsed'[s],
         \A p \in Pid : \/ pc'[p] = pc[p]
                        \/ pc'[p].at \notin {"P", "Pdisp", "V"}
                        \/ pc'[p].arg \in Sem /\ semUsed[pc'[p].arg],
         \A s \in Sem : semQ'[s] # << >> => semQ[s] # << >> \/ semUsed[s]
  PROVE  UsedOK'
BY SemSets, SemTypes DEF SemInv, UsedOK

(* What a step must do to keep WaitersExact without touching the lists *)
LEMMA WaitersSame ==
  ASSUME WaitersExact, ~misled, semQ' = semQ,
         \A p \in Pid : /\ state'[p] = "Blocked" <=> state[p] = "Blocked"
                        /\ state[p] = "Blocked" => pc'[p].arg = pc[p].arg
  PROVE  WaitersExact'
<1> SUFFICES ASSUME NEW s \in Sem
             PROVE  /\ IsInjective(semQ[s])
                    /\ Range(semQ[s]) =
                         {p \in Pid : state'[p] = "Blocked" /\ pc'[p].arg = s}
  BY DEF WaitersExact
<1> QED BY DEF WaitersExact

(* P1_V takes the first waiter off the list and wakes that one. *)
LEMMA HeadTailSet ==
  ASSUME NEW q \in Seq(Pid), q # << >>, IsInjective(q)
  PROVE  /\ Head(q) \in Range(q) /\ Tail(q) \in Seq(Pid)
         /\ IsInjective(Tail(q)) /\ Range(Tail(q)) = Range(q) \ {Head(q)}
<1>1. /\ Len(q) \in Nat \ {0} /\ Range(q) = {q[i] : i \in 1 .. Len(q)}
      /\ \A i, j \in 1 .. Len(q) : q[i] = q[j] => i = j
  BY SeqRange, EmptySeq, LenProperties
<1>2. /\ Tail(q) \in Seq(Pid) /\ Len(Tail(q)) = Len(q) - 1 /\ Head(q) = q[1]
      /\ \A i \in 1 .. Len(q) - 1 : Tail(q)[i] = q[i + 1]
  BY HeadTailProperties
<1>3. /\ Range(Tail(q)) = {Tail(q)[i] : i \in 1 .. Len(q) - 1}
      /\ IsInjective(Tail(q)) <=>
           \A i, j \in 1 .. Len(q) - 1 : Tail(q)[i] = Tail(q)[j] => i = j
  <2> DEFINE t == Tail(q)
  <2>1. t \in Seq(Pid) /\ Len(t) = Len(q) - 1
    BY <1>2
  <2> HIDE DEF t
  <2>2. /\ Range(t) = {t[i] : i \in 1 .. Len(t)}
        /\ IsInjective(t) <=> \A i, j \in 1 .. Len(t) : t[i] = t[j] => i = j
    BY <2>1, SeqRange
  <2> QED BY <2>1, <2>2 DEF t
<1>4. IsInjective(Tail(q))
  BY <1>1, <1>2, <1>3
<1>5. ASSUME NEW p \in Range(q) \ {Head(q)} PROVE p \in Range(Tail(q))
  <2>1. PICK i \in 1 .. Len(q) : p = q[i]
    BY <1>1
  <2>2. i - 1 \in 1 .. Len(q) - 1 /\ (i - 1) + 1 = i
    BY <1>1, <1>2, <2>1
  <2> QED BY <1>2, <1>3, <2>1, <2>2
<1>6. ASSUME NEW p \in Range(Tail(q)) PROVE p \in Range(q) \ {Head(q)}
  <2>1. PICK i \in 1 .. Len(q) - 1 : p = q[i + 1]
    BY <1>2, <1>3
  <2>2. i + 1 \in 1 .. Len(q) /\ i + 1 # 1 /\ 1 \in 1 .. Len(q)
    BY <1>1
  <2> QED BY <1>1, <1>2, <2>1, <2>2
<1>7. Head(q) \in Range(q)
  BY <1>1, <1>2
<1> QED BY <1>2, <1>4, <1>5, <1>6, <1>7

(* P1_V, by a process or by the handler of a device *)
LEMMA SemVWaiters ==
  ASSUME SemInv, On, NEW s \in Sem, SemV(s), misled' = misled,
         \A p \in Pid : state[p] = "Blocked" => pc'[p].arg = pc[p].arg
  PROVE  /\ WaitersExact'
         /\ semUsed' = semUsed
         /\ \A t \in Sem : semQ'[t] # << >> => semQ[t] # << >>
<1>0. ~misled /\ semUsed' = semUsed
  BY DEF On, SemV
<1>1. CASE semQ[s] = << >>
  <2>1. UNCHANGED << vars, semQ >>
    BY <1>1 DEF SemV, MustWake
  <2> QED BY <1>0, <2>1, WaitersSame DEF SemInv, vars
<1>2. CASE semQ[s] # << >>
  <2> DEFINE h == Head(semQ[s])
  <2>1. semQ' = [semQ EXCEPT ![s] = Tail(@)] /\ Wake(h)
    BY <1>2 DEF SemV, MustWake, RemoveWaiter
  <2>2. /\ semQ \in [Sem -> Seq(Pid)] /\ h \in Pid
        /\ state \in [Pid -> States]
    BY <1>2, SemTypes, PlaceTypes DEF SemInv
  <2>3. \A t \in Sem : /\ IsInjective(semQ[t])
                       /\ Range(semQ[t]) =
                            {p \in Pid : state[p] = "Blocked" /\ pc[p].arg = t}
    BY <1>0 DEF SemInv, WaitersExact
  <2>4. Settles([state EXCEPT ![h] = "Ready"])
    BY <2>1, <2>2, WakeEffect DEF SemInv, KInv, TypeInv
  <2>5. /\ h \in Range(semQ[s]) /\ Tail(semQ[s]) \in Seq(Pid)
        /\ IsInjective(Tail(semQ[s])) /\ Range(Tail(semQ[s])) = Range(semQ[s]) \ {h}
    BY <1>2, <2>2, <2>3, HeadTailSet
  <2> HIDE DEF h
  <2>6. \A p \in Pid : state'[p] = "Blocked" <=> state[p] = "Blocked" /\ p # h
    BY <2>2, <2>4 DEF Settles
  <2>7. state[h] = "Blocked" /\ pc[h].arg = s
    BY <2>3, <2>5
  <2>8. ASSUME NEW t \in Sem
        PROVE  /\ IsInjective(semQ'[t])
               /\ Range(semQ'[t]) =
                    {p \in Pid : state'[p] = "Blocked" /\ pc'[p].arg = t}
    <3>1. CASE t = s
      <4>1. semQ'[t] = Tail(semQ[s])
        BY <2>1, <2>2, <3>1
      <4>2. Range(semQ[s]) \ {h} =
              {p \in Pid : state'[p] = "Blocked" /\ pc'[p].arg = s}
        BY <2>3, <2>6
      <4> QED BY <2>5, <3>1, <4>1, <4>2
    <3>2. CASE t # s
      <4>1. semQ'[t] = semQ[t]
        BY <2>1, <2>2, <3>2
      <4>2. Range(semQ[t]) =
              {p \in Pid : state'[p] = "Blocked" /\ pc'[p].arg = t}
        BY <2>3, <2>6, <2>7, <3>2
      <4> QED BY <2>3, <4>1, <4>2
    <3> QED BY <3>1, <3>2
  <2>9. \A t \in Sem : semQ'[t] # << >> => semQ[t] # << >>
    BY <1>2, <2>1, <2>2
  <2> QED BY <1>0, <2>8, <2>9 DEF WaitersExact
<1> QED BY <1>1, <1>2

(* P1_P: whoever goes to sleep is put on the list of the semaphore that    *)
(* its code waits for.                                                     *)
LEMMA TakeOrBlockWaiters ==
  ASSUME SemInv, NEW a \in {"user", "P"}, Here(a), NEW s \in Sem, semUsed[s],
         NEW now \in BOOLEAN, TakeOrBlock(s, now)
  PROVE  UsedOK' /\ WaitersExact'
<1>1. /\ On /\ CID \in Pid /\ state[CID] = "Running" /\ ~misled
  BY RunsHere DEF Points, SemInv
<1>2. CASE Goto("user", 0) /\ UNCHANGED << vars, semUsed, semQ, CID, sw, misled >>
  <2>1. /\ pc'[CID].at = "user" /\ \A p \in Pid \ {CID} : pc'[p] = pc[p]
    BY <1>1, <1>2, SemTypes DEF SemInv, Goto, At
  <2>2. UsedOK'
    BY <1>2, <2>1, UsedFrame
  <2>3. WaitersExact'
    BY <1>1, <1>2, <2>1, WaitersSame DEF vars, SemInv
  <2> QED BY <2>2, <2>3
<1>3. CASE /\ UsesGetPid /\ Block(now)
           /\ semQ' = [semQ EXCEPT ![s] = Append(@, GetPid)]
           /\ IF now THEN Goto("P", s) /\ InDispatch
              ELSE Goto("Pdisp", s) /\ UNCHANGED sw
           /\ UNCHANGED << semUsed, value, CID >>
  <2>1. /\ GetPid \in Pid /\ Settles([state EXCEPT ![GetPid] = "Blocked"])
    BY <1>3, BlockEffect DEF SemInv, KInv, TypeInv
  <2>2. /\ pc'[CID].arg = s /\ \A p \in Pid \ {CID} : pc'[p] = pc[p]
    <3>1. Goto("P", s) \/ Goto("Pdisp", s)
      BY <1>3
    <3> QED BY <1>1, <3>1, SemTypes DEF SemInv, Goto, At
  <2>3. semQ \in [Sem -> Seq(Pid)] /\ state \in [Pid -> States]
    BY SemTypes, PlaceTypes DEF SemInv
  <2>4. UsedOK'
    <3>1. \A t \in Sem : semQ'[t] # << >> => semQ[t] # << >> \/ semUsed[t]
      BY <1>3, <2>3
    <3> QED BY <1>3, <2>2, <3>1, UsedFrame
  <2>5. ASSUME ~misled', NEW t \in Sem
        PROVE  /\ IsInjective(semQ'[t])
               /\ Range(semQ'[t]) =
                    {p \in Pid : state'[p] = "Blocked" /\ pc'[p].arg = t}
    <3>1. GetPid = CID
      BY <1>3, <2>5 DEF UsesGetPid
    <3>2. \A p \in Pid : state'[p] = "Blocked" <=> state[p] = "Blocked" \/ p = CID
      BY <2>1, <2>3, <3>1 DEF Settles
    <3>3. /\ IsInjective(semQ[t])
          /\ Range(semQ[t]) = {p \in Pid : state[p] = "Blocked" /\ pc[p].arg = t}
      BY <1>1 DEF SemInv, WaitersExact
    <3>4. CASE t = s
      <4>1. semQ'[t] = Append(semQ[s], CID) /\ CID \notin Range(semQ[s])
        BY <1>1, <1>3, <2>3, <3>1, <3>3, <3>4
      <4>2. IsInjective(semQ'[t]) /\ Range(semQ'[t]) = Range(semQ[s]) \cup {CID}
        BY <1>1, <2>3, <3>3, <3>4, <4>1, AppendSet
      <4>3. Range(semQ[s]) \cup {CID} =
              {p \in Pid : state'[p] = "Blocked" /\ pc'[p].arg = s}
        BY <1>1, <2>2, <3>2, <3>3, <3>4
      <4> QED BY <3>4, <4>2, <4>3
    <3>5. CASE t # s
      <4>1. semQ'[t] = semQ[t]
        BY <1>3, <2>3, <3>5
      <4>2. Range(semQ[t]) =
              {p \in Pid : state'[p] = "Blocked" /\ pc'[p].arg = t}
        BY <1>1, <2>2, <3>2, <3>3, <3>5
      <4> QED BY <3>3, <4>1, <4>2
    <3> QED BY <3>4, <3>5
  <2> QED BY <2>4, <2>5 DEF WaitersExact
<1> QED BY <1>2, <1>3 DEF TakeOrBlock

(* The steps outside the semaphores: nobody goes to sleep or is woken in   *)
(* P1_P, and the code that goes on is not that of a process in P1_P.       *)
LEMMA OtherWaiters ==
  ASSUME SemInv, NEW a \in Points \ {"P", "Pdisp"}, Here(a),
         UNCHANGED << semUsed, semQ >>,
         misled' = misled \/ UsesGetPid,
         \A p \in Pid : ~misled' => (state'[p] = "Blocked" <=> state[p] = "Blocked"),
         \/ pc' = pc
         \/ \E b \in Points \ {"P", "Pdisp", "V"}, x \in Sem \cup Tag : Goto(b, x)
  PROVE  UsedOK' /\ WaitersExact'
<1>1. /\ On /\ CID \in Pid /\ state[CID] = "Running" /\ ~misled
  BY RunsHere DEF SemInv
<1>2. /\ \A p \in Pid \ {CID} : pc'[p] = pc[p]
      /\ pc'[CID] = pc[CID] \/ pc'[CID].at \notin {"P", "Pdisp", "V"}
  BY <1>1, SemTypes DEF SemInv, Goto, At
<1>3. UsedOK'
  BY <1>2, UsedFrame
<1>4. WaitersExact'
  <2>1. CASE ~misled'
    BY <1>1, <1>2, <2>1, WaitersSame DEF SemInv
  <2>2. CASE misled'
    BY <2>2 DEF WaitersExact
  <2> QED BY <2>1, <2>2
<1> QED BY <1>3, <1>4

(* The switch between contexts *)
LEMMA SwitchWaiters ==
  ASSUME SemInv, KInv', EvalTarget \/ ContextSwitch \/ KBoot
  PROVE  UsedOK' /\ WaitersExact'
<1>1. CASE EvalTarget \/ ContextSwitch
  <2>1. ~misled /\ UNCHANGED << state, semUsed, semQ, pc >>
    BY <1>1 DEF EvalTarget, ContextSwitch, vars, semVars, On
  <2> QED BY <2>1, UsedFrame, WaitersSame DEF SemInv
<1>2. CASE KBoot
  <2>1. /\ CID' \in Pid
        /\ pc' = [pc EXCEPT ![CID'] = [at |-> "new", arg |-> 0]]
        /\ UNCHANGED << semVars, sw, misled >>
    <3>1. CID' \in Pid \cup {NoPid} /\ cid' \in [Pid -> Pid] /\ NoPid \notin Pid
      BY PidNat DEF KInv, TypeInv, KTypeOK, TypeOK
    <3>2. /\ ~pending' /\ halted' = "no" /\ first' = FALSE
      BY <1>2, BootEffect DEF SemInv, KInv, TypeInv
    <3>3. queue' # << >> /\ queue' \in Seq(Pid)
      BY <3>2 DEF KInv, TypeInv, Inv, HeadBest, Executing, TypeOK
    <3>4. queue'[1] \in Pid
      BY <3>3, Z3
    <3> QED BY <1>2, <3>1, <3>4 DEF KBoot, At
  <2>2. \A p \in Pid : state[p] = "Free"
    BY <1>2, BootEffect DEF SemInv, KInv, TypeInv
  <2>3. \A p \in Pid : state'[p] # "Blocked"
    <3>1. FreeContext \in Pid /\ Settles([state EXCEPT ![FreeContext] = "Running"])
      BY <1>2, BootEffect DEF SemInv, KInv, TypeInv
    <3> QED BY <2>2, <3>1, PlaceTypes DEF Settles, SemInv
  <2>4. \A p \in Pid : pc'[p] = pc[p] \/ pc'[p].at \notin {"P", "Pdisp", "V"}
    BY <2>1, SemTypes DEF SemInv
  <2>5. UsedOK'
    BY <2>1, <2>4, UsedFrame DEF semVars
  <2>6. WaitersExact'
    <3>1. CASE misled
      BY <2>1, <3>1 DEF WaitersExact
    <3>2. CASE ~misled
      BY <2>1, <2>2, <2>3, <3>2, WaitersSame DEF semVars, SemInv
    <3> QED BY <3>1, <3>2
  <2> QED BY <2>5, <2>6
<1> QED BY <1>1, <1>2

(* Interrupts *)
LEMMA InterruptWaiters ==
  ASSUME SemInv, (\E s \in DevSems : DeviceInterrupt(s)) \/ QuantumInterrupt
  PROVE  UsedOK' /\ WaitersExact'
<1>1. /\ On /\ CID \in Pid /\ ~misled /\ UNCHANGED << CID, misled >>
      /\ pc[CID].at = "sWait" => Goto("sCheck", 0)
      /\ pc[CID].at # "sWait" => pc' = pc
  BY SemTypes DEF DeviceInterrupt, QuantumInterrupt, Interrupt, SemInv
<1>2. \A p \in Pid : \/ pc'[p] = pc[p]
                     \/ pc[p].at = "sWait" /\ pc'[p].at = "sCheck"
  BY <1>1, SemTypes DEF SemInv, Goto, At
<1>3. \A p \in Pid : state[p] = "Blocked" => pc'[p] = pc[p]
  BY <1>1, <1>2, PlaceTypes DEF SemInv, Fits
<1>4. CASE \E s \in DevSems : DeviceInterrupt(s)
  <2>1. PICK s \in Sem : SemV(s)
    BY <1>4, SemSets DEF DeviceInterrupt
  <2>2. /\ WaitersExact' /\ semUsed' = semUsed
        /\ \A t \in Sem : semQ'[t] # << >> => semQ[t] # << >>
    BY <1>1, <1>3, <2>1, SemVWaiters
  <2>3. UsedOK'
    BY <1>2, <2>2, UsedFrame
  <2> QED BY <2>2, <2>3
<1>5. CASE QuantumInterrupt
  <2>1. Dispatch(TRUE) /\ UNCHANGED << semUsed, semQ >>
    BY <1>5 DEF QuantumInterrupt, semVars
  <2>2. \A p \in Pid : state'[p] = "Blocked" <=> state[p] = "Blocked"
    BY <2>1, DispatchEffect DEF SemInv, KInv, TypeInv, Settles
  <2>3. UsedOK'
    BY <1>2, <2>1, UsedFrame
  <2> QED BY <1>1, <1>3, <2>1, <2>2, <2>3, WaitersSame DEF SemInv
<1> QED BY <1>4, <1>5

(* The calls on semaphores *)
LEMMA SemWaiters ==
  ASSUME SemInv,
         \/ \E s \in DevSems : WaitDevice(s)
         \/ \E s \in Sem \ DevSems : PCheck(s) \/ VCheck(s)
         \/ PLoop \/ PDispatch \/ VDo
         \/ \E v \in 0 .. 1 : SemCreate(v)
  PROVE  UsedOK' /\ WaitersExact'
<1>1. CASE \E s \in DevSems : WaitDevice(s)
  BY <1>1, SemSets, TakeOrBlockWaiters DEF WaitDevice, SemInv, UsedOK
<1>2. CASE \E s \in Sem \ DevSems : PCheck(s) \/ VCheck(s)
  <2>1. PICK s \in Sem : PCheck(s) \/ VCheck(s)
    BY <1>2
  <2>2. /\ Here("user") /\ semUsed[s] /\ (Goto("P", s) \/ Goto("V", s))
        /\ UNCHANGED << vars, semVars, misled >>
    BY <2>1 DEF PCheck, VCheck
  <2>3. On /\ CID \in Pid /\ state[CID] = "Running" /\ ~misled
    BY <2>2, RunsHere DEF Points, SemInv
  <2>4. pc'[CID].arg = s /\ \A p \in Pid \ {CID} : pc'[p] = pc[p]
    BY <2>2, <2>3, SemTypes DEF SemInv, Goto, At
  <2>5. UsedOK'
    BY <2>2, <2>4, UsedFrame DEF semVars
  <2>6. WaitersExact'
    BY <2>2, <2>3, <2>4, WaitersSame DEF vars, semVars, SemInv
  <2> QED BY <2>5, <2>6
<1>3. CASE PLoop
  <2>1. Here("P") /\ Arg \in Sem /\ pc[CID].at = "P" /\ CID \in Pid
    BY <1>3, HereOwn DEF PLoop, Points, SemInv, KInv
  <2>2. semUsed[Arg]
    BY <2>1 DEF SemInv, UsedOK, Arg
  <2> QED BY <1>3, <2>1, <2>2, TakeOrBlockWaiters DEF PLoop
<1>4. CASE PDispatch
  <2>1. /\ Here("Pdisp") /\ Dispatch(FALSE) /\ Goto("P", Arg)
        /\ UNCHANGED << semVars, misled >>
    BY <1>4 DEF PDispatch
  <2>2. /\ On /\ CID \in Pid /\ ~misled /\ pc[CID].at = "Pdisp" /\ Arg \in Sem
    BY <2>1, HereOwn DEF Points, SemInv, KInv
  <2>3. \A p \in Pid : state'[p] = "Blocked" <=> state[p] = "Blocked"
    BY <2>1, DispatchEffect DEF SemInv, KInv, TypeInv, Settles
  <2>4. \A p \in Pid : pc'[p].arg = pc[p].arg
    BY <2>1, <2>2, SemTypes DEF SemInv, Goto, At, Arg
  <2>5. semUsed[Arg] /\ \A p \in Pid \ {CID} : pc'[p] = pc[p]
    BY <2>1, <2>2, SemTypes DEF SemInv, UsedOK, Goto, Arg
  <2>6. UsedOK'
    BY <2>1, <2>2, <2>4, <2>5, UsedFrame DEF semVars, Arg
  <2> QED BY <2>1, <2>2, <2>3, <2>4, <2>6, WaitersSame DEF semVars, SemInv
<1>5. CASE VDo
  <2>1. /\ Here("V") /\ SemV(Arg) /\ Goto("user", 0) /\ misled' = misled
    BY <1>5 DEF VDo
  <2>2. On /\ CID \in Pid /\ state[CID] = "Running" /\ Arg \in Sem
    BY <2>1, HereOwn, RunsHere DEF Points, SemInv, KInv
  <2>3. /\ pc'[CID].at = "user" /\ \A p \in Pid \ {CID} : pc'[p] = pc[p]
    BY <2>1, <2>2, SemTypes DEF SemInv, Goto, At
  <2>4. /\ WaitersExact' /\ semUsed' = semUsed
        /\ \A t \in Sem : semQ'[t] # << >> => semQ[t] # << >>
    BY <2>1, <2>2, <2>3, SemVWaiters
  <2>5. UsedOK'
    BY <2>3, <2>4, UsedFrame
  <2> QED BY <2>4, <2>5
<1>6. CASE \E v \in 0 .. 1 : SemCreate(v)
  <2> DEFINE free == {s \in Sem : ~semUsed[s]}
             j == Min(free)
  <2>1. PICK v \in 0 .. 1 : SemCreate(v)
    BY <1>6
  <2>2. j \in free
    <3>1. free \subseteq Nat /\ free # {}
      BY <2>1, KernelAssumption DEF SemCreate, Sem
    <3> HIDE DEF free
    <3> QED BY <3>1, MinNat
  <2>3. /\ semUsed' = [semUsed EXCEPT ![j] = TRUE]
        /\ semQ' = [semQ EXCEPT ![j] = << >>]
        /\ UNCHANGED << vars, CID, pc, sw, misled >>
        /\ On
    BY <2>1 DEF SemCreate, Here
  <2>4. j \in Sem /\ semQ[j] = << >>
    BY <2>2 DEF SemInv, UsedOK
  <2> HIDE DEF j
  <2>5. semQ' = semQ /\ \A s \in Sem : semUsed[s] => semUsed'[s]
    BY <2>3, <2>4, SemTypes DEF SemInv
  <2>6. UsedOK'
    BY <2>3, <2>5, UsedFrame
  <2> QED BY <2>3, <2>5, <2>6, WaitersSame DEF vars, On, SemInv
<1> QED BY <1>1, <1>2, <1>3, <1>4, <1>5, <1>6

(* P1_Fork, P1_Quit, P1_Join and the sentinel *)
LEMMA ForkWaiters ==
  ASSUME SemInv, NEW a \in {"user", "sFork"}, Here(a),
         NEW pr \in Prio, NEW tg \in Tag, NEW then \in {"user", "sCheck"},
         ForkCall(pr, tg, then)
  PROVE  UsedOK' /\ WaitersExact'
<1> DEFINE c == FreeContext
<1>1. CID \in Pid /\ state[CID] = "Running" /\ ~misled
  BY RunsHere DEF Points, SemInv
<1>2. c \in Pid /\ state[c] = "Free" /\ Settles([state EXCEPT ![c] = "Running"])
  <2>1. c \in Pid \ Used /\ Settles([state EXCEPT ![c] = "Running"])
    BY ForkInv DEF ForkCall, SemInv, KInv, TypeInv
  <2> QED BY <2>1 DEF Used
<1>3. /\ pc' = [pc EXCEPT ![c] = [at |-> "new", arg |-> 0],
                          ![CID] = [at |-> then, arg |-> 0]]
      /\ UNCHANGED << semUsed, semQ, misled >>
  BY DEF ForkCall, At, semVars
<1> HIDE DEF c
<1>4. /\ \A p \in Pid \ {c, CID} : pc'[p] = pc[p]
      /\ pc'[c].at = "new" /\ pc'[CID].at = then
  BY <1>1, <1>2, <1>3, SemTypes DEF SemInv
<1>5. \A p \in Pid : state'[p] = "Blocked" <=> state[p] = "Blocked"
  BY <1>2, PlaceTypes DEF Settles, SemInv
<1>6. UsedOK'
  BY <1>3, <1>4, UsedFrame
<1> QED BY <1>1, <1>2, <1>3, <1>4, <1>5, <1>6, WaitersSame DEF SemInv

LEMMA QuitWaiters ==
  ASSUME SemInv, QuitCall \/ SentinelQuit
  PROVE  UsedOK' /\ WaitersExact'
<1>1. /\ Here("user") \/ Here("sQuit")
      /\ Goto("quit", 0) /\ UsesGetPid /\ UNCHANGED << semUsed, semQ >>
  BY DEF QuitCall, SentinelQuit, semVars
<1>2. CID \in Pid /\ state[CID] = "Running"
  BY <1>1, RunsHere DEF Points, SemInv
<1>3. \A p \in Pid : state'[p] = "Blocked" <=> state[p] = "Blocked"
  <2>1. CASE QuitCall
    BY <2>1, QuitOtherInv DEF QuitCall, SemInv, KInv, TypeInv
  <2>2. CASE SentinelQuit
    <3>1. state[0] = "Running" /\ 0 \in Pid /\ Settles([state EXCEPT ![0] = "Quit"])
      BY <2>2, QuitFirstInv, GetPidRuns, PidNat
         DEF SentinelQuit, QuitFirst, SemInv, KInv, TypeInv
    <3> QED BY <3>1, PlaceTypes DEF Settles, SemInv
  <2> QED BY <2>1, <2>2
<1> QED BY <1>1, <1>3, OtherWaiters, SemSets DEF Points

LEMMA JoinWaiters ==
  ASSUME SemInv, (\E tg \in Tags : JoinFirst(tg)) \/ JoinAgain \/ SentinelStep
  PROVE  UsedOK' /\ WaitersExact'
<1>1. UNCHANGED << semUsed, semQ >>
  BY DEF JoinFirst, JoinAgain, SentinelStep, semVars
<1>2. ASSUME UNCHANGED vars \/ \E tg \in Tag : Reap(tg)
      PROVE  \A p \in Pid : state'[p] = "Blocked" <=> state[p] = "Blocked"
  <2>1. CASE UNCHANGED vars
    BY <2>1 DEF vars
  <2>2. CASE \E tg \in Tag : Reap(tg)
    <3>1. PICK target \in Pid : /\ state[target] = "Quit"
                                /\ state' = [state EXCEPT ![target] = "Free"]
      BY <2>2, ReapInv DEF SemInv, KInv, TypeInv
    <3> QED BY <3>1, PlaceTypes DEF SemInv
  <2> QED BY <1>2, <2>1, <2>2
<1>3. CASE \E tg \in Tags : JoinFirst(tg)
  <2>1. PICK tg \in Tag : JoinFirst(tg)
    BY <1>3, TagsAssumption DEF Tag
  <2>2. Here("user")
    BY <2>1 DEF JoinFirst
  <2>3. CASE Reap(tg) /\ UNCHANGED << pc, sw, misled >>
    BY <1>1, <1>2, <2>2, <2>3, OtherWaiters DEF Points
  <2>4. CASE UsesGetPid /\ JoinWait /\ Goto("J", tg)
    <3>1. /\ GetPid \in Pid /\ state[GetPid] = "Running"
          /\ Settles([state EXCEPT ![GetPid] = "Joining"])
      BY <2>4, JoinWaitEffect DEF SemInv, KInv, TypeInv
    <3>2. \A p \in Pid : state'[p] = "Blocked" <=> state[p] = "Blocked"
      BY <3>1, PlaceTypes DEF Settles, SemInv
    <3> QED BY <1>1, <2>2, <2>4, <3>2, OtherWaiters DEF Points
  <2> QED BY <2>1, <2>3, <2>4 DEF JoinFirst
<1>4. CASE JoinAgain
  <2>1. /\ Here("J") /\ Arg \in Tag /\ Goto("user", 0) /\ misled' = misled
        /\ Reap(Arg) \/ UNCHANGED vars
    BY <1>4, HereOwn DEF JoinAgain, Points, SemInv, KInv
  <2> QED BY <1>1, <1>2, <2>1, OtherWaiters, SemSets DEF Points
<1>5. CASE SentinelStep
  <2>1. CASE /\ Here("sCheck") /\ UNCHANGED vars /\ misled' = misled
             /\ Goto("sQuit", 0) \/ Goto("sReap", 0)
    BY <1>1, <1>2, <2>1, OtherWaiters, SemSets DEF Points
  <2>2. CASE /\ Here("sReap") /\ misled' = misled
             /\ IF Arg < LastTag THEN Goto("sReap", Arg + 1) ELSE Goto("sWait", 0)
             /\ Reap(Arg) \/ UNCHANGED vars
    <3>1. Arg \in Tag
      BY <2>2, HereOwn DEF Points, SemInv, KInv
    <3>2. PICK b \in {"sReap", "sWait"}, x \in Tag : Goto(b, x)
      BY <2>2, <3>1, SemSets DEF LastTag, Tag
    <3> QED BY <1>1, <1>2, <2>2, <3>1, <3>2, OtherWaiters DEF Points
  <2> QED BY <1>5, <2>1, <2>2 DEF SentinelStep
<1> QED BY <1>3, <1>4, <1>5

(* Without P1_SemFree every step keeps the lists of the semaphores exact.  *)
LEMMA SemInvStep ==
  ASSUME "semfree" \notin Calls, SemInv, [KNext]_kvars
  PROVE  SemInv'
<1>1. KInv'
  BY KInvStep DEF SemInv
<1>2. UsedOK' /\ WaitersExact'
  <2>1. CASE UNCHANGED kvars \/ Stopped
    <3>1. UNCHANGED << state, pc, semUsed, semQ, misled >>
      BY <2>1 DEF Stopped, kvars, vars, semVars
    <3> QED BY <3>1 DEF SemInv, UsedOK, WaitersExact
  <2>2. CASE KBoot \/ EvalTarget \/ ContextSwitch
    BY <1>1, <2>2, SwitchWaiters
  <2>3. CASE Launch
    <3>1. /\ Here("new") /\ UNCHANGED << vars, semVars, misled >>
          /\ Goto("sFork", 0) \/ Goto("user", 0)
      BY <2>3 DEF Launch
    <3> QED BY <3>1, OtherWaiters, SemSets DEF vars, semVars, Points
  <2>4. CASE \/ \E s \in DevSems : DeviceInterrupt(s) \/ WaitDevice(s)
             \/ QuantumInterrupt
    BY <2>4, InterruptWaiters, SemWaiters
  <2>5. CASE \/ \E s \in Sem \ DevSems : PCheck(s) \/ VCheck(s) \/ SemFree(s)
             \/ PLoop \/ PDispatch \/ VDo
             \/ \E v \in 0 .. 1 : SemCreate(v)
    BY <2>5, SemWaiters DEF SemFree
  <2>6. CASE (\E pr \in ForkPrios, tg \in Tags : UserFork(pr, tg)) \/ SentinelFork
    BY <2>6, ForkWaiters, ForkPriosAssumption, TagsAssumption
       DEF UserFork, SentinelFork, Prio, Tag
  <2>7. CASE QuitCall \/ SentinelQuit
    BY <2>7, QuitWaiters
  <2>8. CASE (\E tg \in Tags : JoinFirst(tg)) \/ JoinAgain \/ SentinelStep
    BY <2>8, JoinWaiters
  <2> QED BY <2>1, <2>2, <2>3, <2>4, <2>5, <2>6, <2>7, <2>8 DEF KNext
<1> QED BY <1>1, <1>2 DEF SemInv

LEMMA SemInvInit == KInit => SemInv
<1> SUFFICES ASSUME KInit PROVE SemInv
  OBVIOUS
<1>1. UsedOK
  BY SemSets DEF KInit, UsedOK, At
<1>2. DOMAIN << >> = {}
  OBVIOUS
<1>3. IsInjective(<< >>) /\ Range(<< >>) = {}
  BY <1>2 DEF IsInjective, Range
<1>4. WaitersExact
  BY <1>3 DEF KInit, Init, WaitersExact
<1> QED BY <1>1, <1>4, KInitInv DEF SemInv

(* The list of a semaphore holds exactly the processes BLOCKED in P1_P on  *)
(* it, each once, for every number of processes, semaphores and nested     *)
(* interrupts, as long as no process calls P1_SemFree.                     *)
THEOREM WaitersStayExact ==
  ASSUME "semfree" \notin Calls
  PROVE  KSpec => []WaitersExact
<1>1. KInit => SemInv
  BY SemInvInit
<1>2. SemInv /\ [KNext]_kvars => SemInv'
  BY SemInvStep
<1>3. SemInv => WaitersExact
  BY DEF SemInv
<1> QED BY <1>1, <1>2, <1>3, PTL DEF KSpec

-----------------------------------------------------------------------------
(* No wakeup of a semaphore is lost: what P1_P and P1_V owe the processes  *)
(* that wait.                                                              *)

(* A process on its way to take a unit *)
Comes(p) == state[p] \in Runs /\ pc[p].at \in {"P", "Pdisp"}

(* The units of s do not exceed the processes that come for them. *)
Enough(s) ==
  semUsed[s] /\ semQ[s] # << >> => value[s] <= Cardinality(Takers(s))

WakeupInv == SemInv /\ (~misled => \A s \in Sem : Enough(s))

LEMMA TakersFinite ==
  ASSUME NEW s
  PROVE  /\ Takers(s) \subseteq Pid /\ IsFiniteSet(Takers(s))
         /\ Cardinality(Takers(s)) \in Nat
<1>1. Takers(s) \subseteq Pid
  BY DEF Takers
<1>2. IsFiniteSet(Pid)
  BY MaxProcAssumption, FS_Interval DEF Pid
<1> QED BY <1>1, <1>2, FS_Subset, FS_CardinalityType

LEMMA TakersFinitePrime ==
  ASSUME NEW s
  PROVE  /\ Takers(s)' \subseteq Pid /\ IsFiniteSet(Takers(s)')
         /\ Cardinality(Takers(s)') \in Nat
<1>1. Takers(s)' \subseteq Pid
  BY DEF Takers
<1>2. IsFiniteSet(Pid)
  BY MaxProcAssumption, FS_Interval DEF Pid
<1> QED BY <1>1, <1>2, FS_Subset, FS_CardinalityType

(* What the cases below need of the types *)
LEMMA WakeupTypes ==
  ASSUME WakeupInv
  PROVE  /\ KInv /\ TypeInv /\ Inv
         /\ value \in [Sem -> 0 .. MaxValue] /\ MaxValue \in Nat
         /\ semQ \in [Sem -> Seq(Pid)] /\ semUsed \in [Sem -> BOOLEAN]
         /\ pc \in [Pid -> [at : Points, arg : Sem \cup Tag]]
         /\ state \in [Pid -> States]
         /\ On => CID \in Pid /\ ~misled /\ \A s \in Sem : Enough(s)
BY SemTypes, OwnTypes, PlaceTypes, SemSets DEF WakeupInv, SemInv, KInv, TypeInv

-----------------------------------------------------------------------------
(* Whoever is runnable stays so, unless its own code takes it off the      *)
(* queue.                                                                  *)
LEMMA OthersRun ==
  ASSUME KInv, KNext, ~misled', NEW p \in Pid \ {CID}, state[p] \in Runs
  PROVE  state'[p] \in Runs
<1>1. /\ Inv /\ Inv' /\ state \in [Pid -> States] /\ state' \in [Pid -> States]
      /\ TableStep
  <2>1. TableStep
    BY KernelTableStep DEF KInv, TypeInv
  <2>2. Inv'
    BY <2>1, TableStepInv DEF KInv, TypeInv
  <2> QED BY <2>1, <2>2 DEF KInv, TypeInv, Inv, TypeOK
<1>2. ASSUME NEW st, Settles(st), st[p] \in Runs
      PROVE  state'[p] \in Runs
  BY <1>1, <1>2 DEF Settles, States, Runs
<1>3. CASE \E pr \in Prio, tg \in Tag : Fork(pr, tg)
  BY <1>1, <1>2, <1>3, ForkInv DEF Runs
<1>4. CASE \E tg \in Tag : Reap(tg)
  BY <1>1, <1>4, ReapInv DEF Runs
<1>5. CASE ByItself /\ QuitOther
  <2>1. p # GetPid
    BY <1>5 DEF ByItself
  <2> QED BY <1>1, <1>5, <2>1, QuitOtherInv DEF States, Runs
<1>6. CASE ByItself /\ QuitFirst
  <2>1. p # 0 /\ Settles([state EXCEPT ![0] = "Quit"])
    BY <1>1, <1>6, QuitFirstInv DEF ByItself, QuitFirst
  <2> QED BY <1>1, <1>2, <2>1
<1>7. CASE ByItself /\ ((\E now \in BOOLEAN : Block(now)) \/ JoinWait)
  <2>1. p # GetPid
    BY <1>7 DEF ByItself
  <2> QED BY <1>1, <1>2, <1>7, <2>1, BlockEffect, JoinWaitEffect
<1>8. CASE \E q \in Pid : Wake(q)
  BY <1>1, <1>2, <1>8, WakeEffect DEF Runs
<1>9. CASE \E rotate \in BOOLEAN : Dispatch(rotate)
  BY <1>1, <1>2, <1>9, DispatchEffect
<1>10. CASE UNCHANGED vars
  BY <1>10 DEF vars
<1> QED BY <1>1, <1>3, <1>4, <1>5, <1>6, <1>7, <1>8, <1>9, <1>10
        DEF TableStep, OtherStep

(* Only P1_Fork touches the code of a process that does not run: that of   *)
(* the child.                                                              *)
LEMMA OthersStand ==
  ASSUME KInv, KNext, On, NEW p \in Pid \ {CID}, state[p] # "Free"
  PROVE  pc'[p] = pc[p]
<1>1. /\ pc \in [Pid -> [at : Points, arg : Sem \cup Tag]] /\ CID \in Pid
      /\ ~first /\ Inv
  BY PlaceTypes, OwnTypes DEF KInv, TypeInv
<1>2. ASSUME NEW a, NEW x, Goto(a, x)
      PROVE  pc'[p] = pc[p]
  BY <1>1, <1>2 DEF Goto, At
<1>3. ASSUME NEW pr \in Prio, NEW tg \in Tag, NEW then, ForkCall(pr, tg, then)
      PROVE  pc'[p] = pc[p]
  <2>1. p # FreeContext
    BY <1>1, <1>3, ForkInv DEF ForkCall, Used
  <2> QED BY <1>1, <1>3, <2>1 DEF ForkCall
<1>4. CASE (\E pr \in ForkPrios, tg \in Tags : UserFork(pr, tg)) \/ SentinelFork
  BY <1>3, <1>4, ForkPriosAssumption, TagsAssumption
     DEF UserFork, SentinelFork, Prio, Tag
<1>5. CASE \/ KBoot \/ EvalTarget \/ ContextSwitch \/ Launch \/ Stopped
           \/ (\E s \in DevSems : DeviceInterrupt(s)) \/ QuantumInterrupt
  BY <1>1, <1>2, <1>5
     DEF KBoot, Boot, EvalTarget, ContextSwitch, Launch, Stopped, kvars,
         DeviceInterrupt, QuantumInterrupt, Interrupt
<1>6. CASE \/ \E s \in DevSems : WaitDevice(s)
           \/ \E s \in Sem \ DevSems : PCheck(s) \/ VCheck(s) \/ SemFree(s)
           \/ PLoop \/ PDispatch \/ VDo
           \/ \E v \in 0 .. 1 : SemCreate(v)
  BY <1>2, <1>6 DEF WaitDevice, TakeOrBlock, PCheck, VCheck, SemFree, PLoop,
                    PDispatch, VDo, SemCreate
<1>7. CASE \/ QuitCall \/ (\E tg \in Tags : JoinFirst(tg)) \/ JoinAgain
           \/ SentinelStep \/ SentinelQuit
  BY <1>2, <1>7 DEF QuitCall, JoinFirst, JoinAgain, SentinelStep, SentinelQuit
<1> QED BY <1>4, <1>5, <1>6, <1>7 DEF KNext

(* A process that comes for a unit keeps coming, unless its own code gets  *)
(* there.                                                                  *)
LEMMA TakersStay ==
  ASSUME KInv, KNext, On, ~misled', NEW p \in Pid, Comes(p),
         p = CID => ~PLoop
  PROVE  Comes(p)' /\ pc'[p].arg = pc[p].arg
<1>1. /\ pc \in [Pid -> [at : Points, arg : Sem \cup Tag]] /\ CID \in Pid
      /\ ~first /\ Inv /\ state \in [Pid -> States] /\ ~misled
  BY PlaceTypes, OwnTypes DEF KInv, TypeInv
<1>2. CASE p # CID
  BY <1>2, OthersRun, OthersStand DEF Comes, Runs
<1>3. CASE p = CID
  <2>1. ~Here("new") /\ ~Here("user") /\ ~Here("V") /\ ~Here("J")
        /\ ~Here("sFork") /\ ~Here("sCheck") /\ ~Here("sReap") /\ ~Here("sQuit")
    BY <1>3 DEF Comes, Here
  <2>2. \/ EvalTarget \/ ContextSwitch \/ PDispatch \/ Stopped
        \/ (\E s \in DevSems : DeviceInterrupt(s)) \/ QuantumInterrupt
    BY <1>1, <1>3, <2>1
       DEF KNext, KBoot, Boot, Launch, WaitDevice, PCheck, VCheck, SemFree, VDo,
           SemCreate, UserFork, QuitCall, JoinFirst, JoinAgain, SentinelFork,
           SentinelStep, SentinelQuit
  <2>3. CASE EvalTarget \/ ContextSwitch \/ Stopped
    BY <2>3 DEF EvalTarget, ContextSwitch, Stopped, kvars, vars, Comes
  <2>4. ASSUME NEW st, Settles(st), st[p] \in Runs, Inv'
        PROVE  state'[p] \in Runs
    BY <2>4 DEF Settles, States, Runs, Inv, TypeOK
  <2>5. Inv'
    BY KernelTableStep, TableStepInv DEF KInv, TypeInv
  <2>6. CASE PDispatch
    <3>1. state'[p] \in Runs
      BY <1>1, <2>4, <2>5, <2>6, DispatchEffect DEF PDispatch, Comes
    <3>2. pc'[p] = [at |-> "P", arg |-> pc[p].arg]
      BY <1>1, <1>3, <2>6 DEF PDispatch, Goto, At, Arg
    <3> QED BY <3>1, <3>2 DEF Comes
  <2>7. CASE (\E s \in DevSems : DeviceInterrupt(s)) \/ QuantumInterrupt
    <3>1. pc' = pc
      BY <1>3, <2>7 DEF DeviceInterrupt, QuantumInterrupt, Interrupt, Comes
    <3>2. \/ \E q \in Pid : Wake(q)
          \/ \E rotate \in BOOLEAN : Dispatch(rotate)
          \/ UNCHANGED vars
      BY <2>7, SemSets, SemVTable DEF DeviceInterrupt, QuantumInterrupt, KInv, TypeInv
    <3>3. state'[p] \in Runs
      <4>1. CASE \E q \in Pid : Wake(q)
        BY <1>1, <2>4, <2>5, <4>1, WakeEffect DEF Comes, Runs
      <4>2. CASE \E rotate \in BOOLEAN : Dispatch(rotate)
        BY <1>1, <2>4, <2>5, <4>2, DispatchEffect DEF Comes
      <4>3. CASE UNCHANGED vars
        BY <4>3 DEF vars, Comes
      <4> QED BY <3>2, <4>1, <4>2, <4>3
    <3> QED BY <3>1, <3>3 DEF Comes
  <2> QED BY <2>2, <2>3, <2>6, <2>7
<1> QED BY <1>2, <1>3

LEMMA TakersComes ==
  ASSUME NEW s
  PROVE  /\ Takers(s) = {p \in Pid : Comes(p) /\ pc[p].arg = s}
         /\ Takers(s)' = {p \in Pid : Comes(p)' /\ pc'[p].arg = s}
BY DEF Takers, Comes, Runs

-----------------------------------------------------------------------------
(* Nobody who comes for s is lost, and s gets no unit. *)
LEMMA EnoughSame ==
  ASSUME NEW s \in Sem, Enough(s), value[s] \in Nat, value'[s] \in Nat,
         value'[s] <= value[s],
         semUsed'[s] /\ semQ'[s] # << >> => semUsed[s] /\ semQ[s] # << >>,
         \A p \in Pid : Comes(p) /\ pc[p].arg = s => Comes(p)' /\ pc'[p].arg = s
  PROVE  Enough(s)'
<1>1. Takers(s) \subseteq Takers(s)'
  BY TakersComes
<1>2. /\ Cardinality(Takers(s)) <= Cardinality(Takers(s)')
      /\ Cardinality(Takers(s)) \in Nat /\ Cardinality(Takers(s)') \in Nat
  BY <1>1, TakersFinite, TakersFinitePrime, FS_Subset
<1> QED BY <1>2 DEF Enough

(* P1_V: the unit it adds is for the waiter that it wakes.                 *)
LEMMA SemVEnough ==
  ASSUME WakeupInv, KNext, On, ~misled', NEW s \in Sem, SemV(s), ~PLoop,
         \A p \in Pid : state[p] = "Blocked" => pc'[p] = pc[p]
  PROVE  \A t \in Sem : Enough(t)'
<1> SUFFICES ASSUME NEW t \in Sem PROVE Enough(t)'
  OBVIOUS
<1>1. /\ KInv /\ Inv /\ value \in [Sem -> 0 .. MaxValue] /\ MaxValue \in Nat
      /\ semQ \in [Sem -> Seq(Pid)] /\ state \in [Pid -> States]
      /\ Enough(t) /\ ~misled
  BY WakeupTypes
<1>2. /\ value' = [value EXCEPT ![s] = @ + 1] /\ semUsed' = semUsed
      /\ semQ[s] = << >> => semQ' = semQ
  BY DEF SemV, MustWake
<1>3. \A p \in Pid : Comes(p) => Comes(p)' /\ pc'[p].arg = pc[p].arg
  BY <1>1, TakersStay
<1>4. value[t] \in Nat /\ value'[t] = IF t = s THEN value[t] + 1 ELSE value[t]
  BY <1>1, <1>2
<1>5. ASSUME t # s, semQ'[t] = semQ[t]
      PROVE  Enough(t)'
  <2>1. value'[t] = value[t] /\ value[t] \in Nat
    BY <1>4, <1>5
  <2>2. \A p \in Pid : Comes(p) /\ pc[p].arg = t => Comes(p)' /\ pc'[p].arg = t
    BY <1>3
  <2>3. semUsed'[t] /\ semQ'[t] # << >> => semUsed[t] /\ semQ[t] # << >>
    BY <1>2, <1>5
  <2>4. value'[t] \in Nat /\ value'[t] <= value[t]
    BY <2>1
  <2> QED BY <1>1, <2>1, <2>2, <2>3, <2>4, EnoughSame
<1>6. CASE semQ[s] = << >>
  <2>1. semQ' = semQ
    BY <1>2, <1>6
  <2>2. CASE t = s
    BY <1>6, <2>1, <2>2 DEF Enough
  <2>3. CASE t # s
    BY <1>5, <2>1, <2>3
  <2> QED BY <2>2, <2>3
<1>7. CASE semQ[s] # << >>
  <2> DEFINE h == Head(semQ[s])
  <2>1. semQ' = [semQ EXCEPT ![s] = Tail(@)] /\ Wake(h) /\ h \in Pid
    BY <1>1, <1>7 DEF SemV, MustWake, RemoveWaiter
  <2>2. CASE t # s
    <3>1. semQ'[t] = semQ[t]
      BY <1>1, <2>1, <2>2
    <3> QED BY <1>5, <2>2, <3>1
  <2>3. CASE t = s
    <3>1. h \in Range(semQ[s])
      BY <1>1, <1>7, HeadTailSet DEF WakeupInv, SemInv, WaitersExact
    <3>2. state[h] = "Blocked" /\ pc[h].arg = s
      BY <1>1, <3>1 DEF WakeupInv, SemInv, WaitersExact
    <3>3. pc[h].at \in {"P", "Pdisp"}
      BY <1>1, <2>1, <3>2, PlaceTypes DEF Fits
    <3>4. state'[h] \in Runs
      <4>1. Settles([state EXCEPT ![h] = "Ready"])
        BY <1>1, <2>1, WakeEffect
      <4>2. state' \in [Pid -> States]
        BY <1>1, KernelTableStep, TableStepInv DEF KInv, TypeInv, Inv, TypeOK
      <4> QED BY <1>1, <2>1, <4>1, <4>2 DEF Settles, States, Runs
    <3> HIDE DEF h
    <3>5. h \notin Takers(s) /\ Takers(s) \cup {h} \subseteq Takers(s)'
      BY <1>3, <2>1, <3>2, <3>3, <3>4, TakersComes DEF Comes, Runs
    <3>6. /\ Cardinality(Takers(s) \cup {h}) = Cardinality(Takers(s)) + 1
          /\ IsFiniteSet(Takers(s) \cup {h})
      BY <3>5, TakersFinite, FS_AddElement
    <3>7. /\ Cardinality(Takers(s)) + 1 <= Cardinality(Takers(s)')
          /\ Cardinality(Takers(s)) \in Nat /\ Cardinality(Takers(s)') \in Nat
      BY <3>5, <3>6, TakersFinite, TakersFinitePrime, FS_Subset
    <3>8. semUsed[s] /\ value[s] <= Cardinality(Takers(s))
      BY <1>1, <1>7, <2>3 DEF WakeupInv, SemInv, UsedOK, Enough
    <3> QED BY <1>4, <2>3, <3>7, <3>8 DEF Enough
  <2> QED BY <2>2, <2>3
<1> QED BY <1>6, <1>7

(* P1_P: who takes a unit is one less that comes for one; who blocks finds *)
(* no unit.                                                                *)
LEMMA TakeOrBlockEnough ==
  ASSUME WakeupInv, KNext, ~misled', NEW s \in Sem, NEW now \in BOOLEAN,
         TakeOrBlock(s, now),
         \/ Here("user") /\ ~PLoop
         \/ Here("P") /\ Arg = s
  PROVE  \A t \in Sem : Enough(t)'
<1> SUFFICES ASSUME NEW t \in Sem PROVE Enough(t)'
  OBVIOUS
<1>0. On
  BY DEF Here
<1>1. /\ KInv /\ Inv /\ value \in [Sem -> 0 .. MaxValue] /\ MaxValue \in Nat
      /\ semQ \in [Sem -> Seq(Pid)] /\ CID \in Pid /\ Enough(t)
      /\ value[s] \in Nat /\ value[t] \in Nat
  BY <1>0, WakeupTypes
<1>2. ASSUME NEW p \in Pid, Comes(p), p # CID \/ ~PLoop
      PROVE  Comes(p)' /\ pc'[p].arg = pc[p].arg
  BY <1>0, <1>1, <1>2, TakersStay
<1>3. ASSUME t # s \/ ~Here("P"), NEW p \in Pid, Comes(p), pc[p].arg = t
      PROVE  Comes(p)' /\ pc'[p].arg = t
  <2>1. p # CID \/ ~PLoop
    BY <1>3 DEF Arg, PLoop
  <2> QED BY <1>2, <1>3, <2>1
<1>4. CASE value[s] > 0 /\ value' = [value EXCEPT ![s] = @ - 1]
           /\ UNCHANGED << semUsed, semQ >>
  <2>1. value'[t] = (IF t = s THEN value[t] - 1 ELSE value[t]) /\ value'[t] \in Nat
    BY <1>1, <1>4
  <2>2. CASE t # s \/ ~Here("P")
    BY <1>1, <1>3, <1>4, <2>1, <2>2, EnoughSame
  <2>3. CASE t = s /\ Here("P")
    <3>1. CID \in Takers(s)
      <4>1. state[CID] = "Running" /\ pc[CID].at = "P"
        BY <1>1, <2>3, RunsHere DEF Points
      <4>2. pc[CID].arg = s
        BY <2>3 DEF Arg, Here
      <4> QED BY <1>1, <4>1, <4>2 DEF Takers
    <3>2. Takers(s) \ {CID} \subseteq Takers(s)'
      BY <1>2, TakersComes
    <3>3. /\ Cardinality(Takers(s) \ {CID}) = Cardinality(Takers(s)) - 1
          /\ IsFiniteSet(Takers(s) \ {CID})
      BY <3>1, TakersFinite, FS_RemoveElement
    <3>4. /\ Cardinality(Takers(s)) - 1 <= Cardinality(Takers(s)')
          /\ Cardinality(Takers(s)) \in Nat /\ Cardinality(Takers(s)') \in Nat
      BY <3>2, <3>3, TakersFinite, TakersFinitePrime, FS_Subset
    <3> QED BY <1>1, <1>4, <2>1, <2>3, <3>4 DEF Enough
  <2> QED BY <2>2, <2>3
<1>5. CASE value[s] = 0 /\ value' = value /\ semUsed' = semUsed
           /\ semQ' = [semQ EXCEPT ![s] = Append(@, GetPid)]
  <2>1. CASE t = s
    BY <1>5, <2>1, TakersFinitePrime DEF Enough
  <2>2. CASE t # s
    <3>1. /\ value'[t] = value[t] /\ value'[t] <= value[t]
          /\ semQ'[t] = semQ[t] /\ semUsed'[t] = semUsed[t]
      BY <1>1, <1>5, <2>2
    <3>2. \A p \in Pid : Comes(p) /\ pc[p].arg = t => Comes(p)' /\ pc'[p].arg = t
      BY <1>3, <2>2
    <3> QED BY <1>1, <3>1, <3>2, EnoughSame
  <2> QED BY <2>1, <2>2
<1> QED BY <1>4, <1>5 DEF TakeOrBlock

LEMMA NotPLoop ==
  ASSUME KInv, On, pc' = pc
  PROVE  ~PLoop
<1> SUFFICES ASSUME PLoop PROVE FALSE
  OBVIOUS
<1>1. /\ CID \in Pid /\ pc \in [Pid -> [at : Points, arg : Sem \cup Tag]]
      /\ pc[CID].at = "P"
  BY PlaceTypes DEF PLoop, Here
<1>2. Goto("user", 0) \/ Goto("Pdisp", Arg)
  BY DEF PLoop, TakeOrBlock
<1> QED BY <1>1, <1>2 DEF Goto, At

(* The steps that leave values and lists alone *)
LEMMA QuietEnough ==
  ASSUME WakeupInv, KNext, On, ~misled', ~PLoop, UNCHANGED semVars
  PROVE  \A t \in Sem : Enough(t)'
<1> SUFFICES ASSUME NEW t \in Sem PROVE Enough(t)'
  OBVIOUS
<1>1. KInv /\ Enough(t) /\ value[t] \in Nat
  BY WakeupTypes
<1>2. \A p \in Pid : Comes(p) /\ pc[p].arg = t => Comes(p)' /\ pc'[p].arg = t
  BY <1>1, TakersStay
<1> QED BY <1>1, <1>2, EnoughSame DEF semVars

(* Every step leaves enough processes to take the units.                   *)
LEMMA WakeupStep ==
  ASSUME "semfree" \notin Calls, WakeupInv, [KNext]_kvars
  PROVE  WakeupInv'
<1>1. SemInv'
  BY SemInvStep DEF WakeupInv
<1>2. CASE UNCHANGED kvars \/ Stopped
  <2>1. UNCHANGED << state, pc, semUsed, semQ, value, misled >>
    BY <1>2 DEF Stopped, kvars, vars, semVars
  <2>2. \A s \in Sem : Enough(s)' <=> Enough(s)
    BY <2>1 DEF Enough, Takers
  <2> QED BY <1>1, <2>1, <2>2 DEF WakeupInv
<1>3. CASE KBoot
  <2>1. UNCHANGED << semUsed, semQ, value, misled >>
    BY <1>3 DEF KBoot, semVars
  <2>2. \A p \in Pid : ~Comes(p)
    BY <1>3, BootEffect, WakeupTypes DEF Comes, Runs
  <2>3. ASSUME ~misled, NEW s \in Sem PROVE Enough(s)'
    BY <2>1, <2>2, <2>3, EnoughSame, WakeupTypes DEF WakeupInv
  <2> QED BY <1>1, <2>1, <2>3 DEF WakeupInv
<1>4. CASE KNext /\ On
  <2> SUFFICES ASSUME ~misled' PROVE \A s \in Sem : Enough(s)'
    BY <1>1 DEF WakeupInv
  <2>1. KInv /\ CID \in Pid
    BY <1>4, WakeupTypes
  <2>2. ASSUME NEW a \in Points \ {"P"}, Here(a)
        PROVE  ~PLoop
    BY <2>2 DEF Here, PLoop
  <2>3. CASE \/ (\E s \in DevSems : DeviceInterrupt(s)) \/ QuantumInterrupt
    <3>1. /\ pc[CID].at = "sWait" => Goto("sCheck", 0)
          /\ pc[CID].at # "sWait" => pc' = pc
      BY <2>3 DEF DeviceInterrupt, QuantumInterrupt, Interrupt
    <3>2. ~PLoop
      BY <1>4, <2>1, <3>1, NotPLoop DEF PLoop, Here
    <3>3. \A p \in Pid : state[p] = "Blocked" => pc'[p] = pc[p]
      BY <1>4, <2>1, <3>1, PlaceTypes DEF Fits, Goto
    <3>4. CASE QuantumInterrupt
      BY <1>4, <3>2, <3>4, QuietEnough DEF QuantumInterrupt
    <3>5. CASE \E s \in DevSems : DeviceInterrupt(s)
      BY <1>4, <3>2, <3>3, <3>5, SemVEnough, SemSets DEF DeviceInterrupt
    <3> QED BY <2>3, <3>4, <3>5
  <2>4. CASE VDo
    <3>1. Here("V") /\ Arg \in Sem /\ state[CID] = "Running" /\ SemV(Arg)
      BY <2>1, <2>4, HereOwn, RunsHere DEF VDo, Points, KInv
    <3>2. \A p \in Pid : state[p] = "Blocked" => pc'[p] = pc[p]
      BY <2>1, <2>4, <3>1, PlaceTypes DEF VDo, Goto
    <3> QED BY <1>4, <2>2, <3>1, <3>2, SemVEnough DEF Points
  <2>5. CASE \E s \in DevSems : WaitDevice(s)
    BY <1>4, <2>2, <2>5, SemSets, TakeOrBlockEnough DEF WaitDevice, Points
  <2>6. CASE PLoop
    <3>1. Here("P") /\ Arg \in Sem /\ TakeOrBlock(Arg, FALSE)
      BY <2>1, <2>6, HereOwn DEF PLoop, Points, KInv
    <3> QED BY <1>4, <3>1, TakeOrBlockEnough
  <2>7. CASE \E v \in 0 .. 1 : SemCreate(v)
    <3> DEFINE free == {s \in Sem : ~semUsed[s]}
               j == Min(free)
    <3>1. PICK v \in 0 .. 1 : SemCreate(v)
      BY <2>7
    <3>2. /\ semUsed' = [semUsed EXCEPT ![j] = TRUE]
          /\ value' = [value EXCEPT ![j] = v]
          /\ semQ' = [semQ EXCEPT ![j] = << >>]
          /\ Here("user")
      BY <3>1 DEF SemCreate
    <3> HIDE DEF j
    <3>3. ASSUME NEW t \in Sem PROVE Enough(t)'
      <4>1. CASE t = j
        <5>1. semQ'[t] = << >>
          BY <3>2, <4>1, WakeupTypes
        <5> QED BY <5>1 DEF Enough
      <4>2. CASE t # j
        <5>1. /\ semUsed'[t] = semUsed[t] /\ value'[t] = value[t] /\ semQ'[t] = semQ[t]
              /\ value[t] \in Nat /\ Enough(t)
          BY <1>4, <3>2, <4>2, WakeupTypes
        <5>2. \A p \in Pid : Comes(p) /\ pc[p].arg = t => Comes(p)' /\ pc'[p].arg = t
          BY <1>4, <2>1, <2>2, <3>2, TakersStay DEF Points
        <5>3. value'[t] \in Nat /\ value'[t] <= value[t]
          BY <5>1
        <5> QED BY <5>1, <5>2, <5>3, EnoughSame
      <4> QED BY <4>1, <4>2
    <3> QED BY <3>3
  <2>8. CASE \/ EvalTarget \/ ContextSwitch \/ Launch \/ KBoot
             \/ \E s \in Sem \ DevSems : PCheck(s) \/ VCheck(s)
             \/ PDispatch
    <3>1. UNCHANGED semVars
      BY <2>8 DEF EvalTarget, ContextSwitch, Launch, KBoot, PCheck, VCheck, PDispatch
    <3>2. pc' = pc \/ Here("new") \/ Here("user") \/ Here("Pdisp") \/ KBoot
      BY <2>8 DEF EvalTarget, ContextSwitch, Launch, PCheck, VCheck, PDispatch
    <3>3. ~KBoot
      BY <1>4, WakeupTypes, OwnTypes DEF KBoot, Boot
    <3>4. ~PLoop
      BY <1>4, <2>1, <2>2, <3>2, <3>3, NotPLoop DEF Points
    <3> QED BY <1>4, <3>1, <3>4, QuietEnough
  <2>9. CASE \/ (\E pr \in ForkPrios, tg \in Tags : UserFork(pr, tg))
             \/ QuitCall \/ (\E tg \in Tags : JoinFirst(tg)) \/ JoinAgain
             \/ SentinelFork \/ SentinelStep \/ SentinelQuit
    <3>1. UNCHANGED semVars
      BY <2>9 DEF UserFork, ForkCall, QuitCall, JoinFirst, JoinAgain,
                  SentinelFork, SentinelStep, SentinelQuit
    <3>2. \/ Here("user") \/ Here("J") \/ Here("sFork") \/ Here("sCheck")
          \/ Here("sReap") \/ Here("sQuit")
      BY <2>9 DEF UserFork, QuitCall, JoinFirst, JoinAgain, SentinelFork,
                  SentinelStep, SentinelQuit
    <3> QED BY <1>4, <2>2, <3>1, <3>2, QuietEnough DEF Points
  <2>10. ~Stopped \/ UNCHANGED kvars
    BY DEF Stopped
  <2>11. CASE UNCHANGED kvars
    BY <1>2, <2>11 DEF WakeupInv, kvars
  <2> QED BY <1>4, <2>3, <2>4, <2>5, <2>6, <2>7, <2>8, <2>9, <2>10, <2>11
          DEF KNext, SemFree
<1> QED BY <1>2, <1>3, <1>4, OnOrNot

(* No wakeup is lost, for every number of processes, semaphores, devices   *)
(* and nested interrupts, as long as no process calls P1_SemFree: while    *)
(* somebody waits in P1_P, every unit of the semaphore has a runnable      *)
(* process that will come to take it (P1_V, P1_WakeupDevice).              *)
THEOREM NoWakeupIsLost ==
  ASSUME "semfree" \notin Calls
  PROVE  KSpec => []NoLostWakeup
<1>1. KInit => WakeupInv
  <2> SUFFICES ASSUME KInit PROVE WakeupInv
    OBVIOUS
  <2>1. SemInv
    BY SemInvInit
  <2>2. \A s \in Sem : Enough(s)
    BY DEF KInit, Enough
  <2> QED BY <2>1, <2>2 DEF WakeupInv
<1>2. WakeupInv /\ [KNext]_kvars => WakeupInv'
  BY WakeupStep
<1>3. WakeupInv => NoLostWakeup
  BY DEF WakeupInv, NoLostWakeup, Enough
<1> QED BY <1>1, <1>2, <1>3, PTL DEF KSpec
=============================================================================
