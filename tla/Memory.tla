-------------------------------- MODULE Memory --------------------------------
(***************************************************************************)
(* What virtual memory promises to user processes (phase3/phase3.h): each  *)
(* has pages of its own, which are zero at first and change only when it   *)
(* writes to them, until it ends or virtual memory is shut down.  That the *)
(* pages are moved about meanwhile is not to be seen.                      *)
(***************************************************************************)
CONSTANTS Users, Pages, Values, Zero

VARIABLES
  mem,       \* mem[p][g]: what p finds in its page g
  running    \* who is neither stopped by a page fault nor at its end

Blank == [g \in Pages |-> Zero]

MemInit == mem = [p \in Users |-> Blank] /\ running = {}

Write(p, g, v) ==
  /\ p \in running
  /\ mem' = [mem EXCEPT ![p][g] = v]
  /\ UNCHANGED running

(* p starts, or goes on; stops at a page fault, or to end; and has ended. *)
Run(p) == running' = running \cup {p} /\ UNCHANGED mem
Stop(p) == running' = running \ {p} /\ UNCHANGED mem

End(p) ==
  /\ p \notin running
  /\ mem' = [mem EXCEPT ![p] = Blank]
  /\ UNCHANGED running

Shutdown == mem' = [p \in Users |-> Blank] /\ UNCHANGED running

MemNext ==
  \/ \E p \in Users, g \in Pages, v \in Values : Write(p, g, v)
  \/ \E p \in Users : Run(p) \/ Stop(p) \/ End(p)
  \/ Shutdown

MemSpec == MemInit /\ [][MemNext]_<< mem, running >>
=============================================================================
