------------------------------ MODULE KernelMC ------------------------------
(* Instances of Kernel for TLC. *)
EXTENDS Kernel
=============================================================================
