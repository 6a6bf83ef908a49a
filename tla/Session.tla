------------------------------ MODULE Session ------------------------------
(***************************************************************************)
(* How a Windows PC and the Mac come to share a device key and a session:  *)
(* control.rs against ControlServer.swift, with the key stores of both.    *)
(*                                                                         *)
(* The PC runs one handshake at a time, on its network thread; the Mac     *)
(* handles the frames of all connections on one queue.  A connection the   *)
(* PC gave up may still deliver what was sent on it.  A key is known by    *)
(* the connection on which it was made, and proofs by the key or the code  *)
(* that made them.                                                         *)
(***************************************************************************)
EXTENDS Naturals, Sequences

CONSTANTS
  Clients,     \* the PCs
  Garbled,     \* a keys.json whose writing was interrupted
  MaxConns,    \* bound: connections
  MaxCodes,    \* bound: pairing codes shown
  MaxForgets,  \* bound: times the user makes the Mac forget all devices
  MaxFaults    \* bound: restarts and failed writes

ASSUME SessionAssumption ==
  MaxConns \in Nat /\ MaxCodes \in Nat /\ MaxForgets \in Nat /\ MaxFaults \in Nat

VARIABLES
  \* the PCs
  snd,        \* the handshake each is in, or its session
  store,      \* AppState.keys
  disk,       \* its keys.json
  \* the Mac
  phase, peerID, peerKey, pending,  \* Peer: clientID, deviceKey, pendingDeviceKey # nil
  session,    \* the connection of the live session, or 0
  devices,    \* keyStore
  macDisk,    \* keys.json
  code,       \* the pairing code shown, or 0
  heard,      \* the session the delegate was last told of, or 0 when it was told of the end
  \* the network
  toMac, toWin,
  alive,      \* connections neither side has closed
  opened, codes, forgets, faults,  \* bounds
  \* history
  committed,  \* keys that were once in the Mac's store
  late,       \* of these, those whose sender had given up the connection
  silent      \* stopLocked ended the last session

pcVars   == <<snd, store, disk>>
peerVars == <<phase, peerID, peerKey, pending>>
macVars  == <<peerVars, session, devices, macDisk, code, heard, committed, late, silent>>
wires    == <<toMac, toWin, alive>>
vars     == <<pcVars, macVars, wires, opened, codes, forgets, faults>>

Conn  == 1..MaxConns
Key   == 0..MaxConns      \* 0: no key
Code  == 0..MaxCodes      \* 0: no code
Index == 0..MaxForgets + 1  \* where keys are filed; 0: under the address of the Mac
ID    == Clients \X (0..MaxFaults)  \* a PC draws a new id when it cannot read its keys

NoID         == <<>>
NoKeys       == [i \in Index |-> 0]
NoDevices(s) == [server |-> s, keys |-> [i \in ID |-> 0]]
Idle         == [pc |-> "idle", conn |-> 0, typed |-> 0, server |-> 0, key |-> 0]

(* Frames.                                                                 *)
HELLO(id)            == [t |-> "HELLO", id |-> id]
PAIR_REQUEST(c)      == [t |-> "PAIR_REQUEST", code |-> c]
AUTH(k)              == [t |-> "AUTH", key |-> k]
HELLO_ACK(s, kn, pm) == [t |-> "HELLO_ACK", server |-> s, known |-> kn, pairing |-> pm]
PAIR_RESPONSE(k)     == [t |-> "PAIR_RESPONSE", key |-> k]
AUTH_OK(k)           == [t |-> "AUTH_OK", key |-> k]
ERROR(e)             == [t |-> "ERROR", code |-> e]
END                  == [t |-> "END"]  \* BYE, or the end of the stream

-----------------------------------------------------------------------------
Init ==
  /\ snd = [w \in Clients |-> Idle]
  /\ store = [w \in Clients |-> [id |-> <<w, 0>>, keys |-> NoKeys]] /\ disk = store
  /\ phase = [c \in Conn |-> "none"] /\ peerID = [c \in Conn |-> NoID]
  /\ peerKey = [c \in Conn |-> 0] /\ pending = [c \in Conn |-> FALSE]
  /\ session = 0 /\ devices = NoDevices(1) /\ macDisk = devices /\ code = 0 /\ heard = 0
  /\ toMac = [c \in Conn |-> <<>>] /\ toWin = [c \in Conn |-> <<>>] /\ alive = {}
  /\ opened = 0 /\ codes = 0 /\ forgets = 0 /\ faults = 0
  /\ committed = {} /\ late = {} /\ silent = FALSE

-----------------------------------------------------------------------------
(* The PC: control::connect, and what its network thread does with it.     *)

Consume(q, c)  == [q EXCEPT ![c] = Tail(@)]
Push(q, c, m)  == IF c \in alive THEN [q EXCEPT ![c] = Append(@, m)] ELSE q
Reads(w, kind) == LET c == snd[w].conn IN c # 0 /\ toWin[c] # <<>> /\ Head(toWin[c]).t = kind

(* A failed save is only logged.                                           *)
SaveKeys(w) ==
  \/ disk' = [disk EXCEPT ![w] = store'[w]] /\ UNCHANGED faults
  \/ faults < MaxFaults /\ faults' = faults + 1 /\ UNCHANGED disk

(* KeyStore::load.                                                         *)
Loaded_garbled(w, file) == file \* mutant
Loaded(w, file) ==
  IF file = Garbled THEN [id |-> <<w, store[w].id[2] + 1>>, keys |-> NoKeys] ELSE file

(* The connection is dropped: what was sent on it may still arrive.        *)
HangUp(w) ==
  LET c == snd[w].conn IN
    /\ snd' = [snd EXCEPT ![w] = Idle]
    /\ toMac' = Push(toMac, c, END) /\ toWin' = [toWin EXCEPT ![c] = <<>>]
    /\ alive' = alive \ {c}

(* With the code the user typed, the last one shown to them, or 0.  It may *)
(* be another one by the time the Mac compares it.                         *)
connect(w, typed) ==
  /\ snd[w].pc = "idle"
  /\ opened < MaxConns /\ opened' = opened + 1
  /\ snd' = [snd EXCEPT ![w] = [Idle EXCEPT !.pc = "hello", !.conn = opened', !.typed = typed]]
  /\ toMac' = [toMac EXCEPT ![opened'] = <<HELLO(store[w].id)>>]
  /\ alive' = alive \cup {opened'} /\ phase' = [phase EXCEPT ![opened'] = "hello"]
  /\ UNCHANGED <<store, disk, peerID, peerKey, pending, session, devices, macDisk, code, heard,
                 committed, late, silent, toWin, codes, forgets, faults>>

(* Keys of before the Mac had an identity are filed under its address.     *)
Lookup_address(w, s) == store[w].keys[0] \* mutant: the identity is not asked for
Lookup(w, s) == IF store[w].keys[s] # 0 THEN store[w].keys[s] ELSE store[w].keys[0]

hello_ack(w) ==
  /\ snd[w].pc = "hello" /\ Reads(w, "HELLO_ACK")
  /\ LET c == snd[w].conn
         m == Head(toWin[c])
         k == Lookup(w, m.server)
     IN  /\ toWin' = Consume(toWin, c)
         /\ \/ /\ snd[w].typed = 0 /\ m.known /\ k # 0
               /\ snd' = [snd EXCEPT ![w].pc = "auth", ![w].key = k, ![w].server = m.server]
               /\ toMac' = Push(toMac, c, AUTH(k))
            \/ /\ snd[w].typed # 0 /\ m.pairing
               /\ snd' = [snd EXCEPT ![w].pc = "pair", ![w].server = m.server]
               /\ toMac' = Push(toMac, c, PAIR_REQUEST(snd[w].typed))
  /\ UNCHANGED <<store, disk, macVars, alive, opened, codes, forgets, faults>>

(* mutant: the key is kept at once                                         *)
pair_response_stored(w) ==
  /\ snd[w].pc = "pair" /\ Reads(w, "PAIR_RESPONSE")
  /\ LET c == snd[w].conn
         k == Head(toWin[c]).key
     IN  /\ toWin' = Consume(toWin, c)
         /\ snd' = [snd EXCEPT ![w].pc = "auth", ![w].key = k]
         /\ store' = [store EXCEPT ![w].keys[snd[w].server] = k]
         /\ toMac' = Push(toMac, c, AUTH(k))
  /\ UNCHANGED <<disk, macVars, alive, opened, codes, forgets, faults>>

pair_response(w) ==
  /\ snd[w].pc = "pair" /\ Reads(w, "PAIR_RESPONSE")
  /\ LET c == snd[w].conn
         k == Head(toWin[c]).key
     IN  /\ toWin' = Consume(toWin, c)
         /\ snd' = [snd EXCEPT ![w].pc = "auth", ![w].key = k]
         /\ toMac' = Push(toMac, c, AUTH(k))
  /\ UNCHANGED <<store, disk, macVars, alive, opened, codes, forgets, faults>>

NeedsFiling(w) == snd[w].typed # 0 \/ store[w].keys[snd[w].server] = 0

auth_ok(w) ==
  /\ snd[w].pc = "auth" /\ Reads(w, "AUTH_OK") /\ Head(toWin[snd[w].conn]).key = snd[w].key
  /\ toWin' = Consume(toWin, snd[w].conn)
  /\ snd' = [snd EXCEPT ![w].pc = "up", ![w].typed = 0, ![w].key = 0]
  /\ IF NeedsFiling(w)
     THEN store' = [store EXCEPT ![w].keys[snd[w].server] = snd[w].key] /\ SaveKeys(w)
     ELSE UNCHANGED <<store, disk, faults>>
  /\ UNCHANGED <<macVars, toMac, alive, opened, codes, forgets>>

(* A key the Mac refuses is dropped from under the Mac's address.          *)
auth_rejected(w) ==
  /\ snd[w].pc = "auth" /\ Reads(w, "ERROR") /\ Head(toWin[snd[w].conn]).code = "BAD_PROOF"
  /\ HangUp(w)
  /\ store' = [store EXCEPT ![w].keys[0] = 0] /\ SaveKeys(w)
  /\ UNCHANGED <<macVars, opened, codes, forgets>>

(* Refused, the link lost, a timeout, or the user disconnects.             *)
close(w) ==
  /\ snd[w].conn # 0
  /\ ~(snd[w].pc = "auth" /\ Reads(w, "ERROR"))
  /\ HangUp(w)
  /\ UNCHANGED <<store, disk, macVars, opened, codes, forgets, faults>>

Saving(w) ==
  snd[w].pc = "auth" /\ ((Reads(w, "AUTH_OK") /\ NeedsFiling(w)) \/ Reads(w, "ERROR"))

(* The program ends and starts again, perhaps while it writes keys.json.   *)
restart(w) ==
  /\ faults < MaxFaults /\ faults' = faults + 1
  /\ IF snd[w].conn = 0 THEN UNCHANGED <<snd, wires>> ELSE HangUp(w)
  /\ \/ UNCHANGED disk
     \/ Saving(w) /\ disk' = [disk EXCEPT ![w] = Garbled]
  /\ store' = [store EXCEPT ![w] = Loaded(w, disk'[w])]
  /\ UNCHANGED <<macVars, opened, codes, forgets>>

-----------------------------------------------------------------------------
(* The Mac: ControlServer, on its queue.                                   *)

Frame(c, kind)  == toMac[c] # <<>> /\ Head(toMac[c]).t = kind
On(f, cs, v)    == [c \in Conn |-> IF c \in cs THEN v ELSE f[c]]

(* close, of every connection in cs.                                       *)
Close(cs) ==
  /\ phase' = On(phase, cs, "closed") /\ toMac' = On(toMac, cs, <<>>)
  /\ alive' = alive \ cs /\ session' = IF session \in cs THEN 0 ELSE session

Told_never(cs) == UNCHANGED heard \* mutant
Told(cs)       == heard' = IF session \in cs THEN 0 ELSE heard

handleHello(c) ==
  /\ phase[c] = "hello" /\ Frame(c, "HELLO")
  /\ LET id == Head(toMac[c]).id IN
       /\ peerID' = [peerID EXCEPT ![c] = id]
       /\ peerKey' = [peerKey EXCEPT ![c] = devices.keys[id]]
       /\ toWin' = Push(toWin, c, HELLO_ACK(devices.server, peerKey'[c] # 0, code # 0))
  /\ phase' = [phase EXCEPT ![c] = "pairOrAuth"] /\ toMac' = Consume(toMac, c)
  /\ UNCHANGED <<pcVars, pending, session, devices, macDisk, code, heard, committed, late, silent,
                 alive, opened, codes, forgets, faults>>

(* sendError, and the close a moment later.  The PC sends nothing between. *)
Refuse(c, e) ==
  /\ Close({c}) /\ toWin' = Push(toWin, c, ERROR(e))
  /\ UNCHANGED <<pcVars, peerID, peerKey, pending, devices, macDisk, code, heard, committed, late,
                 silent, opened, codes, forgets, faults>>

pair_request(c) ==
  /\ phase[c] = "pairOrAuth" /\ Frame(c, "PAIR_REQUEST")
  /\ \/ code = 0 /\ Refuse(c, "PAIRING_DISABLED")
     \/ code # 0 /\ Head(toMac[c]).code # code /\ Refuse(c, "BAD_PROOF")
     \/ /\ code # 0 /\ Head(toMac[c]).code = code
        /\ peerKey' = [peerKey EXCEPT ![c] = c] /\ pending' = [pending EXCEPT ![c] = TRUE]
        /\ toMac' = Consume(toMac, c) /\ toWin' = Push(toWin, c, PAIR_RESPONSE(c))
        /\ UNCHANGED <<pcVars, phase, peerID, session, devices, macDisk, code, heard, committed,
                       late, silent, alive, opened, codes, forgets, faults>>

(* KeyStore.save replaces the file as a whole, or fails, which is logged.  *)
SaveDevices ==
  \/ macDisk' = devices' /\ UNCHANGED faults
  \/ faults < MaxFaults /\ faults' = faults + 1 /\ UNCHANGED macDisk

(* The new key is filed, and the code is used up.                          *)
Commit(c) ==
  IF pending[c]
  THEN /\ devices' = [devices EXCEPT !.keys[peerID[c]] = peerKey[c]] /\ SaveDevices
       /\ committed' = committed \cup {peerKey[c]}
       /\ late' = IF \A w \in Clients : snd[w].conn # c THEN late \cup {peerKey[c]} ELSE late
       /\ code' = 0 /\ pending' = [pending EXCEPT ![c] = FALSE]
  ELSE UNCHANGED <<devices, macDisk, committed, late, code, pending, faults>>

Replaced_kept(c) == {} \* mutant
Replaced(c)      == {session} \ {0, c}

auth(c) ==
  /\ phase[c] = "pairOrAuth" /\ Frame(c, "AUTH")
  /\ \/ Head(toMac[c]).key # peerKey[c] /\ Refuse(c, "BAD_PROOF")
     \/ /\ Head(toMac[c]).key = peerKey[c]
        /\ Commit(c)
        /\ phase' = On([phase EXCEPT ![c] = "authenticated"], Replaced(c), "closed")
        /\ toMac' = On(Consume(toMac, c), Replaced(c), <<>>) /\ alive' = alive \ Replaced(c)
        /\ toWin' = Push(toWin, c, AUTH_OK(peerKey[c]))
        /\ session' = c /\ heard' = c /\ silent' = FALSE
        /\ UNCHANGED <<pcVars, peerID, peerKey, opened, codes, forgets>>

UnchangedByClose == <<pcVars, peerID, peerKey, pending, code, committed, late, toWin, opened>>

(* BYE, or the end of the stream.                                          *)
end(c) ==
  /\ Frame(c, "END")
  /\ Close({c}) /\ Told({c})
  /\ UNCHANGED <<UnchangedByClose, devices, macDisk, silent, codes, forgets, faults>>

(* The watchdog after too long a silence, or disconnectClient.             *)
watchdog ==
  /\ session # 0
  /\ Close({session}) /\ Told({session})
  /\ UNCHANGED <<UnchangedByClose, devices, macDisk, silent, codes, forgets, faults>>

(* The receiver is disabled, or its port changes: no peer is told of, and  *)
(* session is nil when stopLocked asks whether to tell of it.              *)
stopLocked ==
  /\ \E c \in Conn : phase[c] \notin {"none", "closed"}
  /\ Close({c \in Conn : phase[c] \notin {"none", "closed"}})
  /\ silent' = (silent \/ session # 0)
  /\ UNCHANGED <<UnchangedByClose, heard, devices, macDisk, codes, forgets, faults>>

beginPairing ==
  /\ codes < MaxCodes /\ codes' = codes + 1 /\ code' = codes'
  /\ UNCHANGED <<pcVars, peerVars, session, devices, macDisk, heard, committed, late, silent, wires,
                 opened, forgets, faults>>

(* cancelPairing, or the code expires.                                     *)
cancelPairing ==
  /\ code # 0 /\ code' = 0
  /\ UNCHANGED <<pcVars, peerVars, session, devices, macDisk, heard, committed, late, silent, wires,
                 opened, codes, forgets, faults>>

(* Only the session is closed: a handshake goes on with the key it has.    *)
forgetAllDevices ==
  /\ forgets < MaxForgets /\ forgets' = forgets + 1
  /\ devices' = NoDevices(0) /\ SaveDevices
  /\ Close({session} \ {0}) /\ Told({session} \ {0})
  /\ UNCHANGED <<UnchangedByClose, silent, codes>>

(* loadWithIdentity gives the Mac an identity if its file holds none.      *)
macRestart ==
  /\ faults < MaxFaults
  /\ devices' = IF macDisk.server = 0 THEN [macDisk EXCEPT !.server = forgets + 1] ELSE macDisk
  /\ macDisk' = devices' /\ faults' = faults + 1
  /\ Close({c \in Conn : phase[c] # "none"}) /\ heard' = 0 /\ silent' = FALSE /\ code' = 0
  /\ UNCHANGED <<pcVars, peerID, peerKey, pending, committed, late, toWin, opened, codes, forgets>>

-----------------------------------------------------------------------------
Next ==
  \/ \E w \in Clients :
       \/ \E typed \in {0, codes} : connect(w, typed)
       \/ hello_ack(w) \/ pair_response(w) \/ auth_ok(w) \/ auth_rejected(w)
       \/ close(w) \/ restart(w)
  \/ \E c \in Conn : handleHello(c) \/ pair_request(c) \/ auth(c) \/ end(c)
  \/ watchdog \/ stopLocked \/ beginPairing \/ cancelPairing \/ forgetAllDevices \/ macRestart

Spec == Init /\ [][Next]_vars

-----------------------------------------------------------------------------
KeyFile  == [id : ID, keys : [Index -> Key]]
Devices  == [server : Index, keys : [ID -> Key]]
Handshake == [pc : {"idle", "hello", "pair", "auth", "up"}, conn : 0..MaxConns, typed : Code,
              server : Index, key : Key]
MacFrame == {HELLO(id) : id \in ID} \cup {PAIR_REQUEST(c) : c \in Code}
            \cup {AUTH(k) : k \in Key} \cup {END}
WinFrame == {HELLO_ACK(s, kn, pm) : s \in Index, kn \in BOOLEAN, pm \in BOOLEAN}
            \cup {PAIR_RESPONSE(k) : k \in Key} \cup {AUTH_OK(k) : k \in Key}
            \cup {ERROR(e) : e \in {"PAIRING_DISABLED", "BAD_PROOF"}}

(* Every variable has its type; above all, a PC has an id of its own to    *)
(* introduce itself with, whatever became of its keys.json.                *)
TypeOK ==
  /\ snd \in [Clients -> Handshake]
  /\ store \in [Clients -> KeyFile] /\ disk \in [Clients -> KeyFile \cup {Garbled}]
  /\ phase \in [Conn -> {"none", "hello", "pairOrAuth", "authenticated", "closed"}]
  /\ peerID \in [Conn -> ID \cup {NoID}] /\ peerKey \in [Conn -> Key]
  /\ pending \in [Conn -> BOOLEAN]
  /\ session \in 0..MaxConns /\ heard \in 0..MaxConns /\ code \in Code
  /\ devices \in Devices /\ macDisk \in Devices
  /\ toMac \in [Conn -> Seq(MacFrame)] /\ toWin \in [Conn -> Seq(WinFrame)]
  /\ alive \subseteq Conn /\ committed \subseteq Key /\ late \subseteq Key /\ silent \in BOOLEAN
  /\ opened \in 0..MaxConns /\ codes \in Code /\ forgets \in 0..MaxForgets
  /\ faults \in 0..MaxFaults

(* The Mac obeys one PC at a time: the authenticated connections are the   *)
(* session alone, whatever connections end, replace it or are refused.     *)
OneSession == {c \in Conn : phase[c] = "authenticated"} = {session} \ {0}

(* The delegate, which releases what is held when a session ends, was told *)
(* of the session that is live, and of the end of every other but by       *)
(* stopLocked.                                                             *)
DelegateKnows == heard = session \/ (silent /\ session = 0)

KeysOf(f) == {f.keys[i] : i \in DOMAIN f.keys} \ {0}

(* docs/PROTOCOL.md:161: no key is stored by either side, in memory or on  *)
(* disk, that an AUTH was not accepted for.                                *)
NothingFiledUnproven ==
  /\ \A w \in Clients : /\ KeysOf(store[w]) \subseteq committed
                        /\ disk[w] # Garbled => KeysOf(disk[w]) \subseteq committed
  /\ KeysOf(devices) \subseteq committed /\ KeysOf(macDisk) \subseteq committed

(* A PC in the session would be let in again without a code: the key it    *)
(* would use is the one the Mac has for it, unless the Mac was made to     *)
(* forget, or accepted an AUTH this PC had given up.                       *)
AgreeInSession ==
  \A w \in Clients :
    LET c == snd[w].conn IN
      snd[w].pc = "up" /\ c = session =>
        /\ Lookup(w, snd[w].server) = peerKey[c]
        /\ devices.keys[store[w].id] \in {peerKey[c]} \cup late \cup {0 : f \in 1..forgets}

(* docs/PROTOCOL.md:188: "The sender discards its stored key in that case, *)
(* so the next attempt asks for a pairing code".                           *)
RejectedKeyGoes ==
  [][\A w \in Clients, i \in Index :
       auth_rejected(w) /\ i = snd[w].server => Lookup(w, i)' # snd[w].key]_vars
=============================================================================
