--------------------------- MODULE MCRealtimeChannel ---------------------------
(* RealtimeChannel for TLC: the constants come from the .cfg files. *)
EXTENDS RealtimeChannel

(* States that differ in who owned the input at each count have the same   *)
(* future, but for NoReplay: the runs that do not check it merge them.     *)
OwnersAside == <<senderVars, netq, tcp, net, boundVars, receiverVars, moved, base, Len(owner)>>
=============================================================================
