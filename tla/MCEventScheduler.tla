-------------------------- MODULE MCEventScheduler --------------------------
(* EventScheduler for TLC: three modes, one of them with a fraction. *)
EXTENDS EventScheduler

AllModes == {[kind |-> "immediate", num |-> 1, den |-> 1],
             [kind |-> "whole", num |-> 1, den |-> 1],
             [kind |-> "smoothed", num |-> 1, den |-> 3]}

BothWays == {-2, 3}
=============================================================================
