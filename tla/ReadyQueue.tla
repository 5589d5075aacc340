----------------------------- MODULE ReadyQueue -----------------------------
(***************************************************************************)
(* The dispatch queue of phase1/phase1b/phase1b.c as operators on          *)
(* sequences of process IDs.  Index 1 here is dispatchQueue[0], the slot   *)
(* of the process that runs.  A node's priority is the priority of its     *)
(* process (it is copied from the PCB at every insertion and a PCB's       *)
(* priority is written only while the PCB is unused), so the operators     *)
(* take the priorities as a function pr on process IDs.  A smaller number  *)
(* is a better priority.                                                   *)
(***************************************************************************)
EXTENDS Integers, Sequences, SequencesExt

CONSTANT MaxProc        \* P1_MAXPROC

ASSUME MaxProcAssumption == MaxProc \in Nat \ {0}

Pid == 0 .. MaxProc - 1

-----------------------------------------------------------------------------
(* dispatchQueueInsert: at the end, unless the queue is full or already    *)
(* holds the process.                                                      *)
Insert(q, p) == IF Len(q) = MaxProc \/ Contains(q, p) THEN q ELSE Append(q, p)

(* dispatchQueueSwap *)
Swap(q, i, j) == [q EXCEPT ![i] = q[j], ![j] = q[i]]

(* dispatchQueueShift: element i goes to the end. *)
Shift(q, i) == Append(RemoveAt(q, i), q[i])

(* dispatchQueueRemoveByPID; the mutant searches from the second entry on. *)
RemoveBehindHead(q, p) ==
  IF q # << >> /\ Contains(Tail(q), p)
  THEN RemoveAt(q, CHOOSE i \in DOMAIN q : q[i] = p)
  ELSE q

RemoveByPID(q, p) == IF Contains(q, p)
                     THEN RemoveAt(q, CHOOSE i \in DOMAIN q : q[i] = p)
                     ELSE q

(* The loop of P1Dispatch that computes highestIndex: among the entries    *)
(* behind the head, the first one of the best priority.  The mutant stops  *)
(* one entry too early.                                                    *)
HighestButLast(q, pr) ==
  LET candidates == 2 .. IF Len(q) = 2 THEN 2 ELSE Len(q) - 1
  IN  Min({i \in candidates : \A j \in candidates : pr[q[i]] <= pr[q[j]]})

HighestIndex(q, pr) ==
  Min({i \in 2 .. Len(q) : \A j \in 2 .. Len(q) : pr[q[i]] <= pr[q[j]]})

(* The queue that P1Dispatch(rotate) leaves; its head is the process that  *)
(* is to run.  The mutant exchanges the two processes at the end of a      *)
(* quantum too, and does not move the old one to the end.                  *)
PickSwaps(q, pr, rotate) ==
  IF Len(q) <= 1 THEN q
  ELSE LET h == HighestIndex(q, pr)
       IN  IF pr[q[h]] < pr[q[1]] \/ (pr[q[h]] = pr[q[1]] /\ rotate)
           THEN Swap(q, 1, h) ELSE q

Pick(q, pr, rotate) ==
  IF Len(q) <= 1 THEN q
  ELSE LET h == HighestIndex(q, pr)
       IN  IF pr[q[h]] < pr[q[1]] THEN Swap(q, 1, h)
           ELSE IF pr[q[h]] = pr[q[1]] /\ rotate THEN Shift(Swap(q, 1, h), h)
           ELSE q
=============================================================================
