------------------------------- MODULE ClockMC -------------------------------
(* Instances of Clock for TLC *)
EXTENDS Clock
=============================================================================
