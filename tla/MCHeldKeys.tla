----------------------------- MODULE MCHeldKeys -----------------------------
(* HeldKeys for TLC: a hotkey and settings. *)
EXTENDS HeldKeys, TLC

ToMac == "t" :> "Mac"

Swallowing == [suppress |-> TRUE, hooked |-> TRUE, lag |-> 1]
Unhooked   == [suppress |-> TRUE, hooked |-> FALSE, lag |-> 4]
Visible    == [suppress |-> FALSE, hooked |-> TRUE, lag |-> 1]

InStep      == {[Swallowing EXCEPT !.lag = 0]}
AllSettings == {Swallowing, Unhooked, Visible}
=============================================================================
