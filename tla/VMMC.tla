--------------------------------- MODULE VMMC ---------------------------------
EXTENDS VM

CONSTANTS u1, u2, q1, q2

(* Three pages for two frames and two blocks: the third fault is fatal. *)
Scarce == [frames |-> 2, blocks |-> 2, pagers |-> {q1}, held |-> FALSE, own |-> TRUE,
           late |-> FALSE, quits |-> {},
           uses |-> {<< u1, 0 >>, << u1, 1 >>, << u2, 0 >>}]

(* Two processes that come and go, and one frame *)
Passing == [Scarce EXCEPT !.frames = 1, !.quits = {u1, u2},
                          !.uses = {<< u1, 0 >>, << u2, 0 >>}]

(* Two pagers, and a frame and a block for every page *)
Ample == [Scarce EXCEPT !.frames = 3, !.blocks = 3, !.pagers = {q1, q2}, !.held = TRUE]

(* Virtual memory is shut down under the feet of the processes. *)
Late == [Passing EXCEPT !.blocks = 1, !.late = TRUE]

Several == {Scarce, Passing, Ample, Late}

(* The Pager of phase3c.c when it has to replace a page *)
Held == {[Passing EXCEPT !.held = TRUE, !.quits = {}]}

(* Processes that end *)
Ending == {Passing}

(* A fault that is fatal, of a process that does not end otherwise *)
Fatal == {Scarce}

(* A shutdown while processes fault *)
Underfoot == {Late}

(* All pagers and all processes for one frame, with the Pager of phase3c.c *)
Busy == {[Passing EXCEPT !.pagers = Pagers, !.held = TRUE, !.quits = {},
                         !.uses = Users \X {0}]}

(* Two pagers that have to replace pages *)
Crowded == {[Scarce EXCEPT !.pagers = {q1, q2}, !.held = TRUE]}

(* A shutdown by a process that has adopted the pagers *)
Adopted == {[Passing EXCEPT !.own = FALSE]}
=============================================================================
