---------------------------- MODULE MCTargetSwitch ----------------------------
(* TargetSwitch for TLC: the constants come from the .cfg files. *)
EXTENDS TargetSwitch
=============================================================================
