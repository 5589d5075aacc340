------------------------------ MODULE ProcTable ------------------------------
(***************************************************************************)
(* The process table of phase1/phase1b/phase1b.c together with the table   *)
(* of contexts of phase1/phase1a/phase1a.c: every change that the kernel   *)
(* makes to them inside one region with interrupts disabled is one action. *)
(* Which process executes which instruction, the switch between contexts,  *)
(* interrupts and the semaphores are the business of module Kernel, whose  *)
(* steps are steps of this module or leave its variables unchanged.        *)
(*                                                                         *)
(* A PCB is in use (isBeingUsed) exactly when its state is not "Free".     *)
(* Names, stacks, cpuTime, exit codes and sid are left out: no decision of *)
(* the kernel reads them, apart from argument checks that change nothing.  *)
(***************************************************************************)
EXTENDS ReadyQueue

CONSTANTS ForkPrios,    \* the priorities that processes fork with
          Tags          \* the tags that processes fork and join with

ASSUME ForkPriosAssumption == ForkPrios \subseteq 1 .. 5
ASSUME TagsAssumption == Tags \subseteq {0, 1}

NoPid == -1
SentinelPrio == 6
Prio == 1 .. 6
Tag == {0, 1}

VARIABLES
  state,        \* processTable[p].state
  prio,         \* processTable[p].priority
  tag,          \* processTable[p].tag
  parent,       \* processTable[p].parent
  children,     \* the first numChildren entries of processTable[p].children
  quitChildren, \* the first numQuitChildren entries of quitChildren
  cid,          \* processTable[p].cid
  queue,        \* dispatchQueue, its queueSize entries
  first,        \* isTheFirstProcess
  contexts,     \* the cids whose context isBeingUsed
  pending,      \* the running process left the queue, P1Dispatch not yet run
  halted        \* "no", or why USLOSS_Halt was called

vars == << state, prio, tag, parent, children, quitChildren, cid, queue, first,
           contexts, pending, halted >>

States == {"Free", "Running", "Ready", "Joining", "Blocked", "Quit"}

TypeOK ==
  /\ state \in [Pid -> States]
  /\ prio \in [Pid -> Prio]
  /\ tag \in [Pid -> Tag]
  /\ parent \in [Pid -> Pid \cup {NoPid}]
  /\ children \in [Pid -> SUBSET Pid]
  /\ quitChildren \in [Pid -> Seq(Pid)]
  /\ cid \in [Pid -> Pid]
  /\ queue \in Seq(Pid)
  /\ first \in BOOLEAN
  /\ contexts \in SUBSET Pid
  /\ pending \in BOOLEAN
  /\ halted \in {"no", "orphans", "empty"}

(* P1ProcInit; the fields of an unused PCB are never read. *)
Init ==
  /\ state = [p \in Pid |-> "Free"]
  /\ prio = [p \in Pid |-> SentinelPrio]
  /\ tag = [p \in Pid |-> 0]
  /\ parent = [p \in Pid |-> NoPid]
  /\ children = [p \in Pid |-> {}]
  /\ quitChildren = [p \in Pid |-> << >>]
  /\ cid = [p \in Pid |-> 0]
  /\ queue = << >>
  /\ first = TRUE
  /\ contexts = {}
  /\ pending = FALSE
  /\ halted = "no"

-----------------------------------------------------------------------------
Used == {p \in Pid : state[p] # "Free"}
Live == {p \in Pid : state[p] \notin {"Free", "Quit"}}
Current == Head(queue)                          \* dispatchQueue[0].pid

(* P1_GetPid: the running process of the lowest slot. *)
GetPid == LET running == {p \in Pid : state[p] = "Running"}
          IN  IF running = {} THEN NoPid ELSE Min(running)

(* numChildren as P1_GetProcInfo reports it *)
NumChildren(p) == Cardinality(children[p]) + Len(quitChildren[p])

(* P1Dispatch(rotate) up to the point where it enables interrupts, on the  *)
(* queue q, states st and priorities pr that its caller has built.         *)
DispatchOn(q, st, pr, rotate) ==
  LET new == Pick(q, pr, rotate)
      st1 == IF new = q THEN st ELSE [st EXCEPT ![q[1]] = "Ready"]
  IN  IF q = << >>
      THEN /\ halted' = "empty"
           /\ UNCHANGED pending
           /\ queue' = q
           /\ state' = st
      ELSE /\ queue' = new
           /\ state' = [st1 EXCEPT ![new[1]] = "Running"]
           /\ pending' = FALSE
           /\ UNCHANGED halted

(* A process executes, outside the window of "pending". *)
Executing == halted = "no" /\ ~first /\ ~pending

-----------------------------------------------------------------------------
(* P1ContextCreate takes the first free context, P1ContextFree gives one   *)
(* back.  The mutant forgets to.                                           *)
FreeContext == Min(Pid \ contexts)

ContextCreate(c) == contexts # Pid /\ contexts' = contexts \cup {c}

ContextKept(c) == UNCHANGED contexts

ContextFree(c) == contexts' = contexts \ {c}

(* The fields of the child's PCB, and its entry in the parent's children.  *)
(* The mutant mixes up two arguments of P1_Fork.                           *)
FillPCBMixed(j, c, pr, tg) ==
  /\ cid' = [cid EXCEPT ![j] = c]
  /\ prio' = [prio EXCEPT ![j] = pr]
  /\ tag' = [tag EXCEPT ![j] = pr]
  /\ quitChildren' = [quitChildren EXCEPT ![j] = << >>]
  /\ parent' = [parent EXCEPT ![j] = IF first THEN NoPid ELSE Current]
  /\ children' = IF first THEN [children EXCEPT ![j] = {}]
                 ELSE [children EXCEPT ![j] = {}, ![Current] = @ \cup {j}]

FillPCB(j, c, pr, tg) ==
  /\ cid' = [cid EXCEPT ![j] = c]
  /\ prio' = [prio EXCEPT ![j] = pr]
  /\ tag' = [tag EXCEPT ![j] = tg]
  /\ quitChildren' = [quitChildren EXCEPT ![j] = << >>]
  /\ parent' = [parent EXCEPT ![j] = IF first THEN NoPid ELSE Current]
  /\ children' = IF first THEN [children EXCEPT ![j] = {}]
                 ELSE [children EXCEPT ![j] = {}, ![Current] = @ \cup {j}]

(* P1_Fork by startup (the sentinel, the first process) or by the process  *)
(* at the head of the queue.  The child is RUNNING from its creation.      *)
Fork(pr, tg) ==
  LET j == Min(Pid \ Used)
      c == FreeContext
      st == [state EXCEPT ![j] = "Running"]
      q == Insert(queue, j)
  IN  /\ halted = "no" /\ ~pending
      /\ Used # Pid
      /\ ContextCreate(c)
      /\ FillPCB(j, c, pr, tg)
      /\ first' = FALSE
      /\ IF first \/ pr < prio[Current]
         THEN DispatchOn(q, st, [prio EXCEPT ![j] = pr], FALSE)
         ELSE queue' = q /\ state' = st /\ UNCHANGED << pending, halted >>

(* P1_Quit by process 0: with children, quit or not, the machine halts. *)
QuitFirst ==
  LET st == [state EXCEPT ![0] = "Quit"]
      q == RemoveByPID(queue, 0)
  IN  /\ Executing /\ GetPid = 0
      /\ IF NumChildren(0) > 0
         THEN /\ halted' = "orphans"
              /\ state' = st /\ queue' = q
              /\ UNCHANGED pending
         ELSE DispatchOn(q, st, prio, FALSE)
      /\ UNCHANGED << prio, tag, parent, children, quitChildren, cid, first,
                      contexts >>

(* What P1_Quit does to the family: process 0 becomes the parent of the    *)
(* living children of p ...                                                *)
AdoptedParentUnset(p) == parent                                     \* mutant

AdoptedParent(p) ==
  [c \in Pid |-> IF c \in children[p] THEN 0 ELSE parent[c]]

(* ... which move to its list, and p leaves the list of its parent.        *)
AdoptedListsKept(p) == [children EXCEPT ![0] = @ \cup children[p]]  \* mutant

AdoptedLists(p) ==
  [[children EXCEPT ![0] = @ \cup children[p]] EXCEPT ![parent[p]] = @ \ {p}]

(* The process that finds p among its quit children.  The mutant lists it  *)
(* with process 0.                                                         *)
ListedAtFirst(p) == 0

ListedAt(p) == parent[p]

(* The parent waits in P1_Join. *)
WakesNoParent(st, par) == FALSE                                     \* mutant

WakesParent(st, par) == st[par] = "Joining"

(* P1_Quit by a process other than process 0 *)
QuitOther ==
  LET p == GetPid
      par == parent[p]
      st == [state EXCEPT ![p] = "Quit"]
      q == RemoveByPID(queue, p)
      wakes == WakesParent(st, par)
  IN  /\ Executing /\ p \notin {0, NoPid}
      /\ parent' = AdoptedParent(p)
      /\ children' = AdoptedLists(p)
      /\ quitChildren' = [quitChildren EXCEPT ![ListedAt(p)] = Append(@, p)]
      /\ DispatchOn(IF wakes THEN Insert(q, par) ELSE q,
                    IF wakes THEN [st EXCEPT ![par] = "Ready"] ELSE st,
                    prio, FALSE)
      /\ UNCHANGED << prio, tag, cid, first, contexts >>

(* P1GetChildStatus: what it returns, and its change of state.  The second *)
(* P1ContextFree finds the context free and returns P1_INVALID_CID.        *)
QuitWithTag(tg) ==
  {i \in DOMAIN quitChildren[Current] : tag[quitChildren[Current][i]] = tg}

ChildStatus(tg) ==
  CASE quitChildren[Current] = << >> -> "NO_QUIT"
    [] quitChildren[Current] # << >> /\ QuitWithTag(tg) = {} -> "NO_CHILDREN"
    [] OTHER -> "SUCCESS"

Reap(tg) ==
  LET i == Min(QuitWithTag(tg))
      target == quitChildren[Current][i]
  IN  /\ Executing /\ ChildStatus(tg) = "SUCCESS"
      /\ state' = [state EXCEPT ![target] = "Free"]
      /\ ContextFree(cid[target])
      /\ quitChildren' = [quitChildren EXCEPT ![Current] = RemoveAt(@, i)]
      /\ UNCHANGED << prio, tag, parent, children, cid, queue, first, pending,
                      halted >>

-----------------------------------------------------------------------------
(* P1SetState(GetPid(), st, _) that takes the process off the queue,       *)
(* followed by P1Dispatch(FALSE) in the same region (now) or left to a     *)
(* later one (~now).                                                       *)
Leave(p, st, now) ==
  LET q == RemoveByPID(queue, p)
      next == [state EXCEPT ![p] = st]
  IN  /\ IF now THEN DispatchOn(q, next, prio, FALSE)
         ELSE /\ queue' = q /\ state' = next /\ pending' = TRUE
              /\ UNCHANGED halted
      /\ UNCHANGED << prio, tag, parent, children, quitChildren, cid, first,
                      contexts >>

(* P1_P on a semaphore whose value is 0 *)
Block(now) ==
  /\ Executing /\ GetPid # NoPid
  /\ Leave(GetPid, "Blocked", now)

(* The first iteration of P1_Join, with no quit child: P1GetChildStatus     *)
(* looks at the head of the queue, P1SetState (which would refuse with     *)
(* P1_CHILD_QUIT) at the pid that P1_GetPid gives.                         *)
JoinWait ==
  /\ Executing /\ GetPid # NoPid
  /\ quitChildren[Current] = << >> /\ quitChildren[GetPid] = << >>
  /\ Leave(GetPid, "Joining", TRUE)

(* P1_V that finds a waiting process: P1SetState(p, READY, _), P1Dispatch. *)
(* The mutant does not look at the state of p.                             *)
WakeAnybody(p) ==
  /\ halted = "no" /\ state[p] # "Free"
  /\ DispatchOn(Insert(queue, p), [state EXCEPT ![p] = "Ready"], prio, FALSE)
  /\ UNCHANGED << prio, tag, parent, children, quitChildren, cid, first,
                  contexts >>

Wake(p) ==
  /\ halted = "no" /\ state[p] = "Blocked"
  /\ DispatchOn(Insert(queue, p), [state EXCEPT ![p] = "Ready"], prio, FALSE)
  /\ UNCHANGED << prio, tag, parent, children, quitChildren, cid, first,
                  contexts >>

(* P1Dispatch called on its own: the clock handler (rotate), or the call   *)
(* that follows Block(FALSE).                                              *)
Dispatch(rotate) ==
  /\ halted = "no" /\ ~first
  /\ DispatchOn(queue, state, prio, rotate)
  /\ UNCHANGED << prio, tag, parent, children, quitChildren, cid, first,
                  contexts >>

Boot == first /\ Fork(SentinelPrio, 0)

Next ==
  \/ Boot
  \/ \E pr \in ForkPrios, tg \in Tags : ~first /\ Fork(pr, tg)
  \/ QuitFirst
  \/ QuitOther
  \/ \E tg \in Tags : Reap(tg)
  \/ \E now \in BOOLEAN : Block(now)
  \/ JoinWait
  \/ \E p \in Pid : Wake(p)
  \/ \E rotate \in BOOLEAN : Dispatch(rotate)
  \/ halted # "no" /\ UNCHANGED vars            \* the machine is off

Spec == Init /\ [][Next]_vars

(* The clock device interrupts forever, and every fourth tick calls        *)
(* P1Dispatch(TRUE) (DeviceHandler in phase1/phase1d/phase1d.c).           *)
FairSpec == Spec /\ WF_vars(Dispatch(TRUE))
-----------------------------------------------------------------------------
(* The dispatch queue holds every process that is READY or RUNNING, once,  *)
(* and no other: no runnable process is ever lost by the scheduler, and no *)
(* blocked, joining or quit process is ever dispatched (P1SetState,        *)
(* P1_Fork, P1_Quit and P1Dispatch keep state and dispatchQueue together). *)
QueueExact ==
  /\ IsInjective(queue)
  /\ Range(queue) = {p \in Pid : state[p] \in {"Ready", "Running"}}

(* The assertion of P1_Fork that P1ContextCreate succeeds: contexts and    *)
(* PCBs are taken and given back together, and always with the same index, *)
(* which is what lets phase 3 use a cid as a pid (P3_AllocatePageTable).   *)
CidIsPid ==
  /\ contexts = Used
  /\ \A p \in Used : cid[p] = p

(* Once P1Dispatch has run, the process at the head of the queue is        *)
(* RUNNING and nobody in the queue has a better priority.                  *)
HeadBest ==
  Executing => /\ queue # << >>
               /\ state[Current] = "Running"
               /\ \A p \in Range(queue) : prio[Current] <= prio[p]

(* The family tree: a living process other than the sentinel is a child of *)
(* its parent, and the parent is alive: P1_Quit hands living children to   *)
(* process 0, which outlives them all.                                     *)
FamilyTree ==
  halted = "no" =>
    \A p \in Live \ {0} : parent[p] \in Live /\ p \in children[parent[p]]

(* The lists of a living process are exact: its children are alive and     *)
(* have it as their parent, its quitChildren have quit, have it as their   *)
(* parent and are listed once (so no child is in two lists, and            *)
(* P1GetChildStatus never frees the PCB of a process that still runs).     *)
ListsExact ==
  \A p \in Live :
    /\ \A c \in children[p] : c \in Live \ {0} /\ parent[c] = p
    /\ IsInjective(quitChildren[p])
    /\ \A z \in Range(quitChildren[p]) : state[z] = "Quit" /\ parent[z] = p

(* A process that waits in P1_Join has no quit child it was not told of:   *)
(* P1SetState refuses JOINING and P1_Quit wakes a JOINING parent.          *)
JoinNotMissed == \A p \in Pid : state[p] = "Joining" => quitChildren[p] = << >>

(* A PCB is recycled only from QUIT, by the process it was a child of, and *)
(* a process that has quit never runs again (P1GetChildStatus, P1_Fork).   *)
QuitIsFinal ==
  [][\A p \in Pid :
       /\ state[p] = "Quit" => state'[p] \in {"Quit", "Free"}
       /\ state'[p] = "Free" => \/ state[p] = "Free"
                                \/ state[p] = "Quit" /\ parent[p] = Current]_vars

(* Preemption and the end of a quantum put the current process at the end  *)
(* of the queue (the comment at phase1b.c:397), although the code of the   *)
(* preemption swaps it with the new one wherever that stands: who becomes  *)
(* ready goes to the end of the queue and is dispatched at once.           *)
PreemptedGoesLast ==
  [][\A p \in Pid :
       /\ Executing /\ p = Current
       /\ p \in Range(queue') /\ queue'[1] # p
       => Last(queue') = p]_vars

(* Round robin: while a process stays in the queue and nobody there has a  *)
(* better priority, the clock gets it to the head again and again (the     *)
(* rotation in the last branch of P1Dispatch, phase1b.c:411-421).          *)
AtHead(p) == queue # << >> /\ Current = p

Entitled(p) ==
  /\ state[p] \in {"Ready", "Running"}
  /\ \A q \in Range(queue) : prio[p] <= prio[q]

RoundRobin ==
  \A p \in Pid : <>[](halted = "no" /\ Entitled(p)) => []<>AtHead(p)

(* A quit process is on the list of a living parent, so that P1_Join or    *)
(* the sentinel can reap it (phase1b.c:243: P1_Quit is to "give children   *)
(* to first process").  This does not hold: only living children are       *)
(* handed on, the list of quit children stays with the one that quits.     *)
ZombiesReapable ==
  \A z \in Pid : state[z] = "Quit" /\ halted = "no" =>
     \E p \in Live : z \in Range(quitChildren[p])
=============================================================================
