------------------------------- MODULE Kernel -------------------------------
(***************************************************************************)
(* The running kernel of phase 1: contexts and the switch between them     *)
(* (phase1a.c), the process table (phase1b.c, module ProcTable),           *)
(* semaphores (phase1c.c), device interrupts, the sentinel and P1_Join     *)
(* (phase1d.c), executed by one CPU that an interrupt may take away at     *)
(* every point where interrupts are enabled.                               *)
(*                                                                         *)
(* A step is a region of code with interrupts disabled, or the read of a   *)
(* shared variable outside such a region; an interrupt may come between    *)
(* any two steps.  pc[c] is where the code of context c goes on, and sw[c] *)
(* holds the calls of P1Dispatch on its stack that have chosen a process   *)
(* and not yet switched (phase1b.c:423-424): NoPid before the argument of  *)
(* P1ContextSwitch is read, then that argument.  There is one such call    *)
(* for the process itself and one for each interrupt handler nested on it. *)
(*                                                                         *)
(* misled becomes TRUE when the code takes one process for another: when   *)
(* P1_GetPid does not give the caller's pid, or P1ContextSwitch is given a *)
(* cid that is no longer that of dispatchQueue[0].  The model stops there. *)
(***************************************************************************)
EXTENDS ProcTable

CONSTANTS MaxSem,       \* P1_MAXSEM
          NumDev,       \* semaphores 0 .. NumDev-1 are devSems
          Calls,        \* kernel calls that the processes make
          MaxValue,     \* bound on a semaphore's value
          MaxNest       \* bound on Len(sw[c]): interrupts nest below it

ASSUME KernelAssumption ==
  /\ MaxSem \in Nat /\ NumDev \in 0 .. MaxSem
  /\ MaxValue \in Nat \ {0} /\ MaxNest \in Nat \ {0}
  /\ Calls \subseteq {"fork", "join", "quit", "dev", "sem", "semfree"}

Sem == 0 .. MaxSem - 1
DevSems == 0 .. NumDev - 1

VARIABLES
  CID,          \* the context that runs, -1 before the first switch
  pc,           \* pc[c].at: where context c goes on; pc[c].arg: a tag or sid
  sw,           \* sw[c]: pending calls of P1ContextSwitch on c's stack
  semUsed,      \* sems[s].isBeingUsed
  value,        \* sems[s].value
  semQ,         \* the list at sems[s].head
  misled

semVars == << semUsed, value, semQ >>
kvars == << vars, semVars, CID, pc, sw, misled >>

At(a, x) == [at |-> a, arg |-> x]

Points == {"none", "new", "user", "quit", "P", "Pdisp", "V", "J",
           "sFork", "sCheck", "sReap", "sWait", "sQuit"}

KTypeOK ==
  /\ TypeOK
  /\ CID \in Pid \cup {NoPid}
  /\ pc \in [Pid -> [at : Points, arg : Sem \cup Tag]]
  /\ sw \in [Pid -> Seq(Pid \cup {NoPid})]
  /\ semUsed \in [Sem -> BOOLEAN]
  /\ value \in [Sem -> 0 .. MaxValue]
  /\ semQ \in [Sem -> Seq(Pid)]
  /\ misled \in BOOLEAN

(* startup up to P1_Fork: P1SemInit, and a semaphore for every device *)
KInit ==
  /\ Init
  /\ CID = NoPid
  /\ pc = [c \in Pid |-> At("none", 0)]
  /\ sw = [c \in Pid |-> << >>]
  /\ semUsed = [s \in Sem |-> s \in DevSems]
  /\ value = [s \in Sem |-> 0]
  /\ semQ = [s \in Sem |-> << >>]
  /\ misled = FALSE

-----------------------------------------------------------------------------
On == halted = "no" /\ ~misled /\ CID # NoPid

(* The running context executes its own code, at point a. *)
Here(a) == On /\ sw[CID] = << >> /\ pc[CID].at = a
Arg == pc[CID].arg

Goto(a, x) == pc' = [pc EXCEPT ![CID] = At(a, x)]

(* The running context is left inside P1Dispatch, at its enable(1). *)
StaysHere == UNCHANGED sw                                           \* mutant

InDispatch == sw' = [sw EXCEPT ![CID] = Append(@, NoPid)]

(* P1_GetPid is used for the running process. *)
UsesGetPid == misled' = (GetPid # CID)

-----------------------------------------------------------------------------
(* startup's P1_Fork of the sentinel, up to launch *)
KBoot ==
  /\ Boot
  /\ CID' = cid'[queue'[1]]
  /\ pc' = [pc EXCEPT ![CID'] = At("new", 0)]
  /\ UNCHANGED << semVars, sw, misled >>

(* P1Dispatch reads processTable[dispatchQueue[0].pid].cid ...             *)
EvalTarget ==
  /\ On /\ sw[CID] # << >> /\ Last(sw[CID]) = NoPid
  /\ sw' = [sw EXCEPT ![CID] = Append(Front(@), cid[Current])]
  /\ UNCHANGED << vars, semVars, CID, pc, misled >>

(* ... and calls P1ContextSwitch with it. *)
ContextSwitch ==
  LET target == Last(sw[CID])
  IN  /\ On /\ sw[CID] # << >> /\ target # NoPid
      /\ sw' = [sw EXCEPT ![CID] = Front(@)]
      /\ CID' = IF target \in contexts THEN target ELSE CID
      /\ misled' = (target # cid[Current])
      /\ UNCHANGED << vars, semVars, pc >>

(* launch, wrapper: with interrupts enabled again, the function of the     *)
(* process at the head of the queue is called.                             *)
Launch ==
  /\ Here("new")
  /\ IF Current = 0 THEN Goto("sFork", 0) ELSE Goto("user", 0)
  /\ UNCHANGED << vars, semVars, CID, sw, misled >>

-----------------------------------------------------------------------------
(* P1_V: there is a process to wake.  The mutant looks at the value as     *)
(* well and wakes only when that was 0.                                    *)
MustWakeAtZero(s) == semQ[s] # << >> /\ value[s] = 0

MustWake(s) == semQ[s] # << >>

(* remove: the list of a semaphore is a queue.  The mutant takes the       *)
(* waiter that came last off the list.                                     *)
RemoveNewest(s) == semQ' = [semQ EXCEPT ![s] = Front(@)]

RemoveWaiter(s) == semQ' = [semQ EXCEPT ![s] = Tail(@)]

(* P1_V past its check, by a process or by P1_WakeupDevice.  The mutant    *)
(* makes the waiter READY and does not call P1Dispatch.                    *)
SemVNoDispatch(s) ==
  /\ value[s] < MaxValue
  /\ value' = [value EXCEPT ![s] = @ + 1]
  /\ IF ~MustWake(s) THEN UNCHANGED << vars, semQ, sw >>
     ELSE /\ RemoveWaiter(s)
          /\ state' = [state EXCEPT ![Head(semQ[s])] = "Ready"]
          /\ queue' = Insert(queue, Head(semQ[s]))
          /\ UNCHANGED << prio, tag, parent, children, quitChildren, cid, first,
                          contexts, pending, halted, sw >>
  /\ UNCHANGED semUsed

SemV(s) ==
  /\ value[s] < MaxValue
  /\ value' = [value EXCEPT ![s] = @ + 1]
  /\ IF ~MustWake(s) THEN UNCHANGED << vars, semQ, sw >>
     ELSE RemoveWaiter(s) /\ Wake(Head(semQ[s])) /\ InDispatch
  /\ UNCHANGED semUsed

(* Interrupts.  USLOSS_WaitInt of the sentinel returns after one. *)
Interrupt ==
  /\ On /\ Len(sw[CID]) < MaxNest
  /\ IF pc[CID].at = "sWait" THEN Goto("sCheck", 0) ELSE UNCHANGED pc
  /\ UNCHANGED << CID, misled >>

DeviceInterrupt(s) == Interrupt /\ SemV(s)

QuantumInterrupt ==
  Interrupt /\ Dispatch(TRUE) /\ InDispatch /\ UNCHANGED semVars

-----------------------------------------------------------------------------
(* P1_P past its check: take a unit or block.  With ~now interrupts are    *)
(* enabled again (phase1c.c:158) before P1Dispatch is called.              *)
TakeOrBlock(s, now) ==
  \/ /\ value[s] > 0
     /\ value' = [value EXCEPT ![s] = @ - 1]
     /\ Goto("user", 0)
     /\ UNCHANGED << vars, semUsed, semQ, CID, sw, misled >>
  \/ /\ value[s] = 0
     /\ UsesGetPid
     /\ Block(now)
     /\ semQ' = [semQ EXCEPT ![s] = Append(@, GetPid)]
     /\ IF now THEN Goto("P", s) /\ InDispatch
        ELSE Goto("Pdisp", s) /\ UNCHANGED sw
     /\ UNCHANGED << semUsed, value, CID >>

(* P1_WaitDevice calls P1_P with interrupts disabled. *)
WaitDevice(s) == Here("user") /\ "dev" \in Calls /\ TakeOrBlock(s, TRUE)

PCheck(s) ==
  /\ Here("user") /\ "sem" \in Calls /\ semUsed[s]
  /\ Goto("P", s)
  /\ UNCHANGED << vars, semVars, CID, sw, misled >>

PLoop == Here("P") /\ TakeOrBlock(Arg, FALSE)

PDispatch ==
  /\ Here("Pdisp")
  /\ Dispatch(FALSE)
  /\ Goto("P", Arg) /\ InDispatch
  /\ UNCHANGED << semVars, CID, misled >>

VCheck(s) ==
  /\ Here("user") /\ "sem" \in Calls /\ semUsed[s] /\ value[s] < MaxValue
  /\ Goto("V", s)
  /\ UNCHANGED << vars, semVars, CID, sw, misled >>

VDo == Here("V") /\ SemV(Arg) /\ Goto("user", 0) /\ UNCHANGED << CID, misled >>

(* P1_SemCreate: the first unused slot *)
SemCreate(v) ==
  LET free == {s \in Sem : ~semUsed[s]}
      j == Min(free)
  IN  /\ Here("user") /\ "sem" \in Calls /\ free # {}
      /\ semUsed' = [semUsed EXCEPT ![j] = TRUE]
      /\ value' = [value EXCEPT ![j] = v]
      /\ semQ' = [semQ EXCEPT ![j] = << >>]
      /\ UNCHANGED << vars, CID, pc, sw, misled >>

(* P1_SemFree: refused while processes wait *)
SemFree(s) ==
  /\ Here("user") /\ "semfree" \in Calls /\ semUsed[s] /\ semQ[s] = << >>
  /\ semUsed' = [semUsed EXCEPT ![s] = FALSE]
  /\ UNCHANGED << vars, value, semQ, CID, pc, sw, misled >>

-----------------------------------------------------------------------------
(* P1_Fork by the running process, which then goes on at point then *)
ForkCall(pr, tg, then) ==
  LET c == FreeContext
  IN  /\ Fork(pr, tg)
      /\ pc' = [pc EXCEPT ![c] = At("new", 0), ![CID] = At(then, 0)]
      /\ sw' = [sw EXCEPT ![c] = << >>,
                          ![CID] = IF pr < prio[Current] THEN Append(@, NoPid) ELSE @]
      /\ UNCHANGED << semVars, CID, misled >>

UserFork(pr, tg) ==
  Here("user") /\ "fork" \in Calls /\ ForkCall(pr, tg, "user")

(* P1_Quit, called or by returning; P1Dispatch must not come back from it. *)
(* (The sentinel is the process of slot 0, hence QuitOther here.)          *)
QuitCall ==
  /\ Here("user") /\ "quit" \in Calls
  /\ UsesGetPid
  /\ QuitOther
  /\ Goto("quit", 0) /\ InDispatch
  /\ UNCHANGED << semVars, CID >>

(* P1_Join.  Its first iteration runs with interrupts disabled; the next   *)
(* one after P1Dispatch came back, with interrupts enabled, and never gets *)
(* P1_NO_QUIT again (JoinFindsChild), so there is no third.                *)
JoinFirst(tg) ==
  /\ Here("user") /\ "join" \in Calls
  /\ \/ Reap(tg) /\ UNCHANGED << pc, sw, misled >>
     \/ /\ UsesGetPid
        /\ JoinWait
        /\ Goto("J", tg) /\ InDispatch
  /\ UNCHANGED << semVars, CID >>

JoinAgain ==
  /\ Here("J")
  /\ \/ Reap(Arg)
     \/ ChildStatus(Arg) = "NO_CHILDREN" /\ UNCHANGED vars
  /\ Goto("user", 0)
  /\ UNCHANGED << semVars, CID, sw, misled >>

-----------------------------------------------------------------------------
(* The sentinel: it forks P2_Startup and reaps its children, of tag 0 and  *)
(* of tag 1, until there are none.                                         *)
LastTagPlusOne == 2                                                 \* mutant

LastTag == 1

SentinelDoneEarly == quitChildren[CID] = << >>                      \* mutant

SentinelDone == NumChildren(CID) = 0

SentinelFork == Here("sFork") /\ ForkCall(2, 0, "sCheck")

SentinelStep ==
  /\ \/ /\ Here("sCheck")
        /\ IF SentinelDone THEN Goto("sQuit", 0) ELSE Goto("sReap", 0)
        /\ UNCHANGED vars
     \/ /\ Here("sReap")
        /\ IF Arg < LastTag THEN Goto("sReap", Arg + 1) ELSE Goto("sWait", 0)
        /\ \/ Reap(Arg)
           \/ ChildStatus(Arg) # "SUCCESS" /\ UNCHANGED vars
  /\ UNCHANGED << semVars, CID, sw, misled >>

SentinelQuit ==
  /\ Here("sQuit")
  /\ UsesGetPid
  /\ QuitFirst
  /\ Goto("quit", 0) /\ InDispatch
  /\ UNCHANGED << semVars, CID >>

Stopped == (halted # "no" \/ misled) /\ UNCHANGED kvars

KNext ==
  \/ KBoot \/ EvalTarget \/ ContextSwitch \/ Launch
  \/ \E s \in DevSems : DeviceInterrupt(s) \/ WaitDevice(s)
  \/ QuantumInterrupt
  \/ \E s \in Sem \ DevSems : PCheck(s) \/ VCheck(s) \/ SemFree(s)
  \/ PLoop \/ PDispatch \/ VDo
  \/ \E v \in 0 .. 1 : SemCreate(v)
  \/ \E pr \in ForkPrios, tg \in Tags : UserFork(pr, tg)
  \/ QuitCall
  \/ \E tg \in Tags : JoinFirst(tg)
  \/ JoinAgain
  \/ SentinelFork \/ SentinelStep \/ SentinelQuit
  \/ Stopped

KSpec == KInit /\ [][KNext]_kvars
-----------------------------------------------------------------------------
(* Where the code of a process is and what the process table says of it    *)
(* agree, whatever interrupts came in between: the process whose own code  *)
(* runs is the head of the dispatch queue (it can be off the queue only    *)
(* between P1SetState and P1Dispatch), a BLOCKED process is in P1_P, a     *)
(* JOINING one in P1_Join, and one that has quit never runs its own code   *)
(* again (the assertion at the end of P1_Quit).                            *)
RunsItself ==
  On => /\ sw[CID] = << >> /\ ~pending => CID = cid[Current]
        /\ pending => pc[CID].at = "Pdisp"
        /\ ~(sw[CID] = << >> /\ pc[CID].at = "quit")
        /\ \A p \in Pid :
             /\ state[p] = "Blocked" => pc[p].at \in {"P", "Pdisp"}
             /\ state[p] = "Joining" => pc[p].at = "J"
             /\ state[p] = "Quit" => pc[p].at = "quit"

(* A process that P1_Join made wait comes back to find a quit child: the   *)
(* second call of P1GetChildStatus never says P1_NO_QUIT.  (The loop of    *)
(* P1_Join runs its later iterations with interrupts enabled between the   *)
(* question and P1SetState, where a child could quit unnoticed.)           *)
JoinFindsChild == Here("J") => quitChildren[CID] # << >>

(* The list of a semaphore holds exactly the processes that are BLOCKED in *)
(* P1_P on it, each once: P1_V never wakes a process that waits for        *)
(* something else, and nobody waits off every list.                        *)
WaitersExact ==
  ~misled => \A s \in Sem :
    /\ IsInjective(semQ[s])
    /\ Range(semQ[s]) =
         {p \in Pid : state[p] = "Blocked" /\ pc[p].arg = s}

(* No lost wakeup.  A woken process takes its unit only when it runs       *)
(* again, and another may take it first; but as long as somebody waits,    *)
(* every unit of the semaphore has a process inside P1_P, runnable, that   *)
(* will come to take it.                                                   *)
Takers(s) == {p \in Pid : /\ state[p] \in {"Ready", "Running"}
                          /\ pc[p].at \in {"P", "Pdisp"} /\ pc[p].arg = s}

NoLostWakeup ==
  ~misled => \A s \in Sem :
    semUsed[s] /\ semQ[s] # << >> => value[s] <= Cardinality(Takers(s))

(* The machine halts only when the sentinel ran out of children: never     *)
(* "First process quitting with children", although the sentinel counts    *)
(* its children and quits in different regions, and "No runnable           *)
(* processes" leaves nobody blocked or joining.                            *)
HaltsClean ==
  /\ halted # "orphans"
  /\ halted = "empty" /\ ~misled => Live = {}

(* P1_GetPid is "the PID of the current running process"                   *)
(* (phase1b/tests/test_get_pid.c:7).  This does not hold: a child is       *)
(* RUNNING from its creation, and may have got a lower slot.               *)
GetPidIsCurrent ==
  On /\ sw[CID] = << >> /\ ~pending /\ CID = cid[Current] => GetPid = CID

(* P1Dispatch is to "select the highest-priority runnable process" and     *)
(* "call P1ContextSwitch to switch to that process" (phase1b.c:364-365).   *)
SwitchesToHead == [][CID' # CID => CID' = cid'[queue'[1]]]_kvars

(* P1_SemFree refuses a semaphore with blocked processes                   *)
(* (phase1c/tests/test_free_with_blocked.c:19): nobody waits on a freed    *)
(* one.  With "semfree" among the calls this does not hold: P1_P checks    *)
(* the semaphore before it disables interrupts (phase1c.c:138).            *)
WaitsOnUsed == \A s \in Sem : semQ[s] # << >> => semUsed[s]

(* P1_Join waits "until either a child quit or there are no more children" *)
(* (phase1d.c:241).  This does not hold: P1GetChildStatus says P1_NO_QUIT  *)
(* to a process that has no children at all.                               *)
JoiningHasChild ==
  On => \A p \in Pid : state[p] = "Joining" => children[p] # {}
=============================================================================
