----------------------------- MODULE MCSession ------------------------------
(* Session on two PCs, which it treats alike.                              *)
EXTENDS Session, TLC

(* What the Mac knew of a closed connection is never read again.           *)
OpenPeers ==
  <<pcVars, phase, session, devices, macDisk, code, heard,
    committed, late \cap (KeysOf(devices) \cup KeysOf(macDisk)), silent, wires, opened,
    codes, forgets, faults,
    [c \in Conn |-> IF phase[c] = "closed" THEN <<>> ELSE <<peerID[c], peerKey[c], pending[c]>>]>>

Alike == Permutations(Clients)
=============================================================================
