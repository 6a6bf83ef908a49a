------------------------------- MODULE Playout -------------------------------
(***************************************************************************)
(* What the event scheduler of the Mac promises: motion that was submitted *)
(* is played out in steps that never overshoot, or it is dropped.          *)
(***************************************************************************)
EXTENDS Integers

CONSTANT Deltas  \* the motions that may be submitted

VARIABLES
  owed,   \* motion submitted and not played out
  moved   \* motion played out

Init == owed = 0 /\ moved = 0

Submit == \E d \in Deltas : owed' = owed + d /\ UNCHANGED moved

(* Immediate mode: the submitter plays it out itself.                      *)
Pass == \E d \in Deltas : moved' = moved + d /\ UNCHANGED owed

(* The steps that may be made towards v, one count at least.               *)
Towards(v) == IF v > 0 THEN 1..v ELSE v..-1

Play == \E s \in Towards(owed) : moved' = moved + s /\ owed' = owed - s

Drop == owed' = 0 /\ UNCHANGED moved

Next == Submit \/ Pass \/ Play \/ Drop

Spec == Init /\ [][Next]_<<owed, moved>>
=============================================================================
