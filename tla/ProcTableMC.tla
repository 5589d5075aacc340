---------------------------- MODULE ProcTableMC ----------------------------
(* Instances of ProcTable for TLC. *)
EXTENDS ProcTable
=============================================================================
