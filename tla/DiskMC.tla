------------------------------- MODULE DiskMC -------------------------------
(* Instances of Disk for TLC. *)
EXTENDS Disk
=============================================================================
