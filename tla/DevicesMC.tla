----------------------------- MODULE DevicesMC -----------------------------
(* Instances of Devices for TLC. *)
EXTENDS Devices
=============================================================================
