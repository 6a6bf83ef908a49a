---------------------------- MODULE SessionProofs ----------------------------
(***************************************************************************)
(* For any number of PCs, connections, codes and faults: there is one      *)
(* session at a time, the delegate knows which, and no side files a key    *)
(* that has not been proven.                                               *)
(***************************************************************************)
EXTENDS Session, TLAPS

(* The id of a PC is its own, and a new one costs a fault.                 *)
IdsKnown ==
  \A w \in Clients : /\ store[w].id \in {w} \X (0..faults)
                     /\ disk[w] # Garbled => disk[w].id \in {w} \X (0..faults)

(* A connection is not accepted before it is opened.                       *)
Unopened == \A c \in Conn : c > opened => phase[c] \in {"none", "closed"}

SessionInv == OneSession /\ DelegateKnows /\ Unopened

(* Proven keys, or none: those in the files, those the Mac would accept    *)
(* but for one still pending, and those the PC hears accepted.             *)
Proven          == committed \cup {0}
KeysIn(f, P)    == \A i \in DOMAIN f.keys : f.keys[i] \in P
AcksIn(q, P)    == \A c \in Conn : \A i \in 1..Len(q[c]) : q[c][i].t = "AUTH_OK" => q[c][i].key \in P
PCsProven       == \A w \in Clients : /\ KeysIn(store[w], Proven)
                                      /\ disk[w] # Garbled => KeysIn(disk[w], Proven)
DevicesProven   == KeysIn(devices, Proven) /\ KeysIn(macDisk, Proven)
PeersProven     == \A c \in Conn : ~pending[c] => peerKey[c] \in Proven
ProofInv        == PCsProven /\ DevicesProven /\ PeersProven /\ AcksIn(toWin, Proven)

-----------------------------------------------------------------------------
(* The constants, the frames and the queues.                               *)

LEMMA Sets ==
  /\ Conn \subseteq Key /\ 0 \in Key /\ 0 \notin Conn /\ 0 \in Index /\ 1 \in Index /\ 0 \in Code
  /\ Key = 0..MaxConns
  BY SessionAssumption DEF Conn, Key, Index, Code

LEMMA Frames ==
  /\ \A m \in MacFrame : /\ m.t = "HELLO" => m.id \in ID
                         /\ m.t = "PAIR_REQUEST" => m.code \in Code
                         /\ m.t = "AUTH" => m.key \in Key
  /\ \A m \in WinFrame : /\ m.t = "HELLO_ACK" => m.server \in Index
                         /\ m.t \in {"PAIR_RESPONSE", "AUTH_OK"} => m.key \in Key
<1>1. \A m \in MacFrame : /\ m.t = "HELLO" => m.id \in ID
                          /\ m.t = "PAIR_REQUEST" => m.code \in Code
                          /\ m.t = "AUTH" => m.key \in Key
  BY DEF MacFrame, HELLO, PAIR_REQUEST, AUTH, END
<1>2. \A m \in WinFrame : /\ m.t = "HELLO_ACK" => m.server \in Index
                          /\ m.t \in {"PAIR_RESPONSE", "AUTH_OK"} => m.key \in Key
  BY DEF WinFrame, HELLO_ACK, PAIR_RESPONSE, AUTH_OK, ERROR
<1>3. QED
  BY <1>1, <1>2

LEMMA MadeFrames ==
  /\ \A id \in ID : HELLO(id) \in MacFrame
  /\ \A c \in Code : PAIR_REQUEST(c) \in MacFrame
  /\ \A k \in Key : AUTH(k) \in MacFrame
  /\ END \in MacFrame
  /\ \A s \in Index, kn \in BOOLEAN, pm \in BOOLEAN : HELLO_ACK(s, kn, pm) \in WinFrame
  /\ \A k \in Key : PAIR_RESPONSE(k) \in WinFrame /\ AUTH_OK(k) \in WinFrame
  /\ ERROR("PAIRING_DISABLED") \in WinFrame /\ ERROR("BAD_PROOF") \in WinFrame
  BY DEF MacFrame, WinFrame

LEMMA Queues ==
  ASSUME NEW S, NEW q \in [Conn -> Seq(S)], NEW c \in Conn
  PROVE  /\ q[c] # <<>> => Head(q[c]) \in S /\ Consume(q, c) \in [Conn -> Seq(S)]
         /\ \A m \in S : Push(q, c, m) \in [Conn -> Seq(S)]
         /\ [q EXCEPT ![c] = <<>>] \in [Conn -> Seq(S)]
         /\ \A m \in S : [q EXCEPT ![c] = <<m>>] \in [Conn -> Seq(S)]
         /\ \A cs : On(q, cs, <<>>) \in [Conn -> Seq(S)]
<1>1. \A s \in Seq(S) : s # <<>> => Head(s) \in S /\ Tail(s) \in Seq(S)
  OBVIOUS
<1>2. \A s \in Seq(S), m \in S : Append(s, m) \in Seq(S) /\ <<m>> \in Seq(S) /\ <<>> \in Seq(S)
  OBVIOUS
<1>3. <<>> \in Seq(S)
  OBVIOUS
<1>4. q[c] \in Seq(S)
  OBVIOUS
<1>5. q[c] # <<>> => Head(q[c]) \in S /\ Consume(q, c) \in [Conn -> Seq(S)]
  BY <1>1, <1>4 DEF Consume
<1>6. \A m \in S : Push(q, c, m) \in [Conn -> Seq(S)]
  BY <1>2, <1>4 DEF Push
<1>7. \A cs : On(q, cs, <<>>) \in [Conn -> Seq(S)]
  BY <1>3 DEF On
<1>8. QED
  BY <1>2, <1>3, <1>4, <1>5, <1>6, <1>7

-----------------------------------------------------------------------------
(* Types.                                                                  *)

PCsTyped ==
  /\ snd \in [Clients -> Handshake]
  /\ store \in [Clients -> KeyFile] /\ disk \in [Clients -> KeyFile \cup {Garbled}]

PeersTyped ==
  /\ phase \in [Conn -> {"none", "hello", "pairOrAuth", "authenticated", "closed"}]
  /\ peerID \in [Conn -> ID \cup {NoID}] /\ peerKey \in [Conn -> Key]
  /\ pending \in [Conn -> BOOLEAN]

MacTyped ==
  /\ session \in 0..MaxConns /\ heard \in 0..MaxConns /\ code \in Code
  /\ devices \in Devices /\ macDisk \in Devices
  /\ committed \subseteq Key /\ late \subseteq Key /\ silent \in BOOLEAN

WiresTyped ==
  /\ toMac \in [Conn -> Seq(MacFrame)] /\ toWin \in [Conn -> Seq(WinFrame)] /\ alive \subseteq Conn

Bounded ==
  /\ opened \in 0..MaxConns /\ codes \in Code /\ forgets \in 0..MaxForgets
  /\ faults \in 0..MaxFaults

TypeInv == TypeOK /\ IdsKnown

LEMMA TypeParts == TypeOK <=> PCsTyped /\ PeersTyped /\ MacTyped /\ WiresTyped /\ Bounded
  BY DEF TypeOK, PCsTyped, PeersTyped, MacTyped, WiresTyped, Bounded

LEMMA TypeInit == Init => TypeInv
<1> SUFFICES ASSUME Init PROVE TypeInv
  OBVIOUS
<1>1. NoKeys \in [Index -> Key] /\ \A s \in Index : NoDevices(s) \in Devices
  BY Sets DEF NoKeys, NoDevices, Devices
<1>2. \A w \in Clients : <<w, 0>> \in ID /\ <<w, 0>> \in {w} \X (0..0)
  BY SessionAssumption DEF ID
<1>3. Idle \in Handshake
  BY Sets, SessionAssumption DEF Idle, Handshake
<1>4. PCsTyped
  BY <1>1, <1>2, <1>3 DEF Init, PCsTyped, KeyFile
<1>5. PeersTyped
  BY Sets DEF Init, PeersTyped
<1>6. MacTyped
  BY <1>1, Sets, SessionAssumption DEF Init, MacTyped
<1>7. WiresTyped
  <2>1. <<>> \in Seq(MacFrame) /\ <<>> \in Seq(WinFrame)
    OBVIOUS
  <2>2. QED
    BY <2>1 DEF Init, WiresTyped
<1>8. Bounded
  BY Sets, SessionAssumption DEF Init, Bounded
<1>9. IdsKnown
  BY <1>2 DEF Init, IdsKnown
<1>10. QED
  BY <1>4, <1>5, <1>6, <1>7, <1>8, <1>9, TypeParts DEF TypeInv

(* Priming TypeParts, for the steps.                                       *)
LEMMA TypePartsNext ==
  ASSUME PCsTyped', PeersTyped', MacTyped', WiresTyped', Bounded'
  PROVE  TypeOK'
  BY DEF TypeOK, PCsTyped, PeersTyped, MacTyped, WiresTyped, Bounded

LEMMA Unmoved ==
  /\ PCsTyped /\ UNCHANGED pcVars => PCsTyped'
  /\ PeersTyped /\ UNCHANGED peerVars => PeersTyped'
  /\ PeersTyped /\ MacTyped /\ UNCHANGED macVars => PeersTyped' /\ MacTyped'
  /\ IdsKnown /\ UNCHANGED <<store, disk, faults>> => IdsKnown'
  BY DEF PCsTyped, PeersTyped, MacTyped, IdsKnown, pcVars, peerVars, macVars

(* A PC that is not idle has a connection, or reads nothing.               *)
LEMMA ReadsFrame ==
  ASSUME TypeOK, NEW w \in Clients, NEW kind, Reads(w, kind)
  PROVE  /\ snd[w].conn \in Conn /\ toWin[snd[w].conn] # <<>>
         /\ Head(toWin[snd[w].conn]) \in WinFrame /\ Head(toWin[snd[w].conn]).t = kind
<1>1. snd[w].conn \in Conn /\ toWin[snd[w].conn] # <<>>
  BY SessionAssumption DEF TypeOK, Reads, Handshake, Conn
<1>2. Head(toWin[snd[w].conn]) \in WinFrame
  BY <1>1, Queues DEF TypeOK
<1>3. QED
  BY <1>1, <1>2 DEF Reads

LEMMA SavingKeys ==
  ASSUME TypeInv, NEW w \in Clients, SaveKeys(w), store' \in [Clients -> KeyFile],
         \A v \in Clients : store'[v].id = store[v].id
  PROVE  /\ disk' \in [Clients -> KeyFile \cup {Garbled}]
         /\ IdsKnown' /\ faults' \in 0..MaxFaults
<1>1. faults' \in 0..MaxFaults /\ faults \in 0..MaxFaults /\ 0..faults \subseteq 0..faults'
  BY SessionAssumption DEF TypeInv, TypeOK, SaveKeys
<1>2. \A v \in Clients : disk'[v] = disk[v] \/ disk'[v] = store'[v]
  BY DEF TypeInv, TypeOK, SaveKeys
<1>3. disk' \in [Clients -> KeyFile \cup {Garbled}]
  BY <1>2 DEF TypeInv, TypeOK, SaveKeys
<1>4. IdsKnown'
  <2>1. \A v \in Clients : {v} \X (0..faults) \subseteq {v} \X (0..faults')
    BY <1>1
  <2>2. ASSUME NEW v \in Clients PROVE store'[v].id \in {v} \X (0..faults')
    BY <2>1 DEF TypeInv, IdsKnown
  <2>3. ASSUME NEW v \in Clients, disk'[v] # Garbled PROVE disk'[v].id \in {v} \X (0..faults')
    <3>1. CASE disk'[v] = store'[v]
      BY <3>1, <2>2
    <3>2. CASE disk'[v] = disk[v]
      BY <3>2, <2>1, <2>3 DEF TypeInv, IdsKnown
    <3>3. QED
      BY <3>1, <3>2, <1>2
  <2>4. QED
    BY <2>2, <2>3 DEF IdsKnown
<1>5. QED
  BY <1>1, <1>3, <1>4

LEMMA HangUpTyped ==
  ASSUME TypeOK, NEW w \in Clients, snd[w].conn \in Conn, HangUp(w)
  PROVE  snd' \in [Clients -> Handshake] /\ WiresTyped'
<1>1. snd' \in [Clients -> Handshake]
  BY Sets, SessionAssumption DEF HangUp, TypeOK, Handshake, Idle
<1>2. toMac' \in [Conn -> Seq(MacFrame)]
  BY Queues, MadeFrames DEF HangUp, TypeOK
<1>3. toWin' \in [Conn -> Seq(WinFrame)]
  BY Queues DEF HangUp, TypeOK
<1>4. QED
  BY <1>1, <1>2, <1>3 DEF HangUp, WiresTyped, TypeOK

LEMMA ConnectTyped ==
  ASSUME TypeInv, NEW w \in Clients, NEW typed \in {0, codes}, connect(w, typed)
  PROVE  TypeInv'
<1> USE DEF connect, TypeInv
<1>1. opened' \in Conn /\ Bounded' /\ typed \in Code
  BY Sets, SessionAssumption DEF TypeOK, Bounded, Conn
<1>2. snd' \in [Clients -> Handshake]
  BY <1>1, Sets, SessionAssumption DEF TypeOK, Handshake, Idle, Conn
<1>3. PCsTyped' /\ IdsKnown'
  BY <1>2 DEF TypeOK, PCsTyped, IdsKnown
<1>4. PeersTyped' /\ MacTyped'
  BY DEF TypeOK, PeersTyped, MacTyped
<1>5. HELLO(store[w].id) \in MacFrame
  BY MadeFrames DEF TypeOK, KeyFile
<1>6. WiresTyped'
  BY <1>1, <1>5, Queues DEF TypeOK, WiresTyped
<1>7. QED
  BY <1>1, <1>3, <1>4, <1>6, TypePartsNext

LEMMA HelloAckTyped ==
  ASSUME TypeInv, NEW w \in Clients, hello_ack(w)
  PROVE  TypeInv'
<1> DEFINE c == snd[w].conn
           m == Head(toWin[c])
           k == Lookup(w, m.server)
<1>1. c \in Conn /\ toWin[c] # <<>> /\ m.server \in Index
  BY ReadsFrame, Frames DEF TypeInv, hello_ack
<1>2. k \in Key /\ snd[w].typed \in Code
  <2>1. store[w] \in KeyFile /\ snd[w] \in Handshake
    BY DEF TypeInv, TypeOK
  <2>2. store[w].keys \in [Index -> Key]
    BY <2>1 DEF KeyFile
  <2>3. QED
    BY <1>1, <2>1, <2>2, Sets DEF Lookup, Handshake
<1>3. \/ snd' = [snd EXCEPT ![w].pc = "auth", ![w].key = k, ![w].server = m.server]
      \/ snd' = [snd EXCEPT ![w].pc = "pair", ![w].server = m.server]
  BY DEF hello_ack
<1>4. snd' \in [Clients -> Handshake]
  <2> HIDE DEF m, k
  <2>1. snd \in [Clients -> Handshake]
    BY DEF TypeInv, TypeOK
  <2>2. QED
    BY <2>1, <1>1, <1>2, <1>3 DEF Handshake
<1>5. PCsTyped' /\ IdsKnown' /\ Bounded'
  BY <1>4 DEF hello_ack, TypeInv, TypeOK, PCsTyped, IdsKnown, Bounded
<1>6. PeersTyped' /\ MacTyped'
  BY Unmoved, TypeParts DEF hello_ack, TypeInv
<1>7. AUTH(k) \in MacFrame /\ PAIR_REQUEST(snd[w].typed) \in MacFrame
  BY <1>2, MadeFrames
<1>8. toMac' = Push(toMac, c, AUTH(k)) \/ toMac' = Push(toMac, c, PAIR_REQUEST(snd[w].typed))
  BY DEF hello_ack
<1>9. toMac' \in [Conn -> Seq(MacFrame)]
  <2> HIDE DEF k
  <2>1. toMac \in [Conn -> Seq(MacFrame)]
    BY DEF TypeInv, TypeOK
  <2>2. QED
    BY <2>1, <1>1, <1>7, <1>8, Queues
<1>10. WiresTyped'
  BY <1>1, <1>9, Queues DEF hello_ack, TypeInv, TypeOK, WiresTyped
<1>11. QED
  BY <1>5, <1>6, <1>10, TypePartsNext DEF TypeInv

LEMMA PairResponseTyped ==
  ASSUME TypeInv, NEW w \in Clients, pair_response(w)
  PROVE  TypeInv'
<1> DEFINE c == snd[w].conn
           k == Head(toWin[c]).key
<1>1. c \in Conn /\ toWin[c] # <<>> /\ k \in Key
  BY ReadsFrame, Frames DEF pair_response, TypeInv
<1>2. snd' = [snd EXCEPT ![w].pc = "auth", ![w].key = k]
  BY DEF pair_response
<1>3. snd' \in [Clients -> Handshake]
  <2> HIDE DEF k
  <2>1. snd \in [Clients -> Handshake]
    BY DEF TypeInv, TypeOK
  <2>2. QED
    BY <2>1, <1>1, <1>2 DEF Handshake
<1>4. PCsTyped' /\ IdsKnown' /\ Bounded'
  BY <1>3 DEF pair_response, TypeInv, TypeOK, PCsTyped, IdsKnown, Bounded
<1>5. PeersTyped' /\ MacTyped'
  BY Unmoved, TypeParts DEF pair_response, TypeInv
<1>6. AUTH(k) \in MacFrame
  BY <1>1, MadeFrames
<1>7. WiresTyped'
  BY <1>1, <1>6, Queues DEF pair_response, TypeInv, TypeOK, WiresTyped
<1>8. QED
  BY <1>4, <1>5, <1>7, TypePartsNext DEF TypeInv

LEMMA AuthOkTyped ==
  ASSUME TypeInv, NEW w \in Clients, auth_ok(w)
  PROVE  TypeInv'
<1> USE DEF auth_ok, TypeInv
<1>1. snd[w].conn \in Conn /\ toWin[snd[w].conn] # <<>>
  BY ReadsFrame
<1>2. snd' \in [Clients -> Handshake]
  <2>1. snd \in [Clients -> Handshake]
    BY DEF TypeOK
  <2>2. snd' = [snd EXCEPT ![w].pc = "up", ![w].typed = 0, ![w].key = 0]
    OBVIOUS
  <2> HIDE DEF auth_ok, TypeInv
  <2>3. ASSUME NEW h \in Handshake PROVE [h EXCEPT !.pc = "up", !.typed = 0, !.key = 0] \in Handshake
    BY Sets DEF Handshake
  <2>4. snd' = [snd EXCEPT ![w] = [snd[w] EXCEPT !.pc = "up", !.typed = 0, !.key = 0]]
    BY <2>1, <2>2
  <2>5. QED
    BY <2>1, <2>3, <2>4
<1>3. store' \in [Clients -> KeyFile] /\ \A v \in Clients : store'[v].id = store[v].id
  <2>1. store \in [Clients -> KeyFile] /\ snd[w].server \in Index /\ snd[w].key \in Key
    BY DEF TypeOK, Handshake
  <2>2. store' = [store EXCEPT ![w].keys[snd[w].server] = snd[w].key] \/ store' = store
    OBVIOUS
  <2> HIDE DEF auth_ok, TypeInv
  <2>3. QED
    BY <2>1, <2>2 DEF KeyFile
<1>4. disk' \in [Clients -> KeyFile \cup {Garbled}] /\ IdsKnown' /\ faults' \in 0..MaxFaults
  <2>1. CASE NeedsFiling(w)
    BY <2>1, <1>3, SavingKeys
  <2>2. CASE ~NeedsFiling(w)
    BY <2>2 DEF TypeOK, IdsKnown
  <2>3. QED
    BY <2>1, <2>2
<1>5. PCsTyped' /\ Bounded'
  BY <1>2, <1>3, <1>4 DEF TypeOK, PCsTyped, Bounded
<1>6. PeersTyped' /\ MacTyped'
  BY Unmoved, TypeParts
<1>7. WiresTyped'
  BY <1>1, Queues DEF TypeOK, WiresTyped
<1>8. QED
  BY <1>4, <1>5, <1>6, <1>7, TypePartsNext

LEMMA AuthRejectedTyped ==
  ASSUME TypeInv, NEW w \in Clients, auth_rejected(w)
  PROVE  TypeInv'
<1> USE DEF auth_rejected, TypeInv
<1>1. snd' \in [Clients -> Handshake] /\ WiresTyped'
  BY ReadsFrame, HangUpTyped
<1>2. store' \in [Clients -> KeyFile] /\ \A v \in Clients : store'[v].id = store[v].id
  <2>1. store \in [Clients -> KeyFile] /\ 0 \in Index /\ 0 \in Key
    BY Sets DEF TypeOK
  <2>2. ASSUME NEW f \in KeyFile
        PROVE  [f EXCEPT !.keys[0] = 0] \in KeyFile /\ [f EXCEPT !.keys[0] = 0].id = f.id
    BY <2>1 DEF KeyFile
  <2>3. store' = [store EXCEPT ![w] = [store[w] EXCEPT !.keys[0] = 0]]
    OBVIOUS
  <2> QED
    BY <2>1, <2>2, <2>3
<1>3. disk' \in [Clients -> KeyFile \cup {Garbled}] /\ IdsKnown' /\ faults' \in 0..MaxFaults
  BY <1>2, SavingKeys
<1>4. PCsTyped' /\ Bounded'
  BY <1>1, <1>2, <1>3 DEF TypeOK, PCsTyped, Bounded
<1>5. PeersTyped' /\ MacTyped'
  BY Unmoved, TypeParts
<1>6. QED
  BY <1>1, <1>3, <1>4, <1>5, TypePartsNext

LEMMA RestartTyped ==
  ASSUME TypeInv, NEW w \in Clients, restart(w)
  PROVE  TypeInv'
<1> USE DEF restart, TypeInv
<1>1. snd' \in [Clients -> Handshake] /\ WiresTyped'
  <2>1. CASE snd[w].conn = 0
    BY <2>1 DEF TypeOK, WiresTyped, wires
  <2>2. CASE snd[w].conn # 0
    <3>1. snd[w].conn \in Conn
      BY <2>2, SessionAssumption DEF TypeOK, Handshake, Conn
    <3>2. QED
      BY <2>2, <3>1, HangUpTyped
  <2>3. QED
    BY <2>1, <2>2
<1>2. faults \in Nat /\ faults' = faults + 1 /\ faults' \in 0..MaxFaults
  BY SessionAssumption DEF TypeOK
<1>3. disk' \in [Clients -> KeyFile \cup {Garbled}]
  BY DEF TypeOK
<1>4. \A v \in Clients : {v} \X (0..faults) \subseteq {v} \X (0..faults') /\ {v} \X (0..faults') \subseteq ID
  <2>1. 0..faults \subseteq 0..faults' /\ 0..faults' \subseteq 0..MaxFaults
    BY <1>2, SessionAssumption
  <2>2. QED
    BY <2>1 DEF ID
<1>5. \A v \in Clients : disk'[v] # Garbled => disk'[v].id \in {v} \X (0..faults')
  <2>1. \A v \in Clients : disk'[v] = Garbled \/ disk'[v] = disk[v]
    BY DEF TypeOK
  <2>2. QED
    BY <2>1, <1>4 DEF IdsKnown
<1>6. Loaded(w, disk'[w]) \in KeyFile /\ Loaded(w, disk'[w]).id \in {w} \X (0..faults')
  <2>1. CASE disk'[w] = Garbled
    <3>1. store[w].id[2] + 1 \in 0..faults'
      BY <1>2 DEF IdsKnown
    <3>2. <<w, store[w].id[2] + 1>> \in {w} \X (0..faults')
      BY <3>1
    <3>3. NoKeys \in [Index -> Key]
      BY Sets DEF NoKeys
    <3>4. QED
      BY <2>1, <3>2, <3>3, <1>4 DEF Loaded, KeyFile
  <2>2. CASE disk'[w] # Garbled
    BY <2>2, <1>3, <1>5 DEF Loaded
  <2>3. QED
    BY <2>1, <2>2
<1>7. PCsTyped'
  BY <1>1, <1>3, <1>6 DEF TypeOK, PCsTyped
<1>8. IdsKnown'
  <2>1. \A v \in Clients : store'[v].id \in {v} \X (0..faults')
    BY <1>4, <1>6 DEF TypeOK, IdsKnown
  <2>2. QED
    BY <2>1, <1>5 DEF IdsKnown
<1>9. PeersTyped' /\ MacTyped' /\ Bounded'
  BY <1>2, Unmoved, TypeParts DEF Bounded
<1>10. QED
  BY <1>1, <1>7, <1>8, <1>9, TypePartsNext

LEMMA CloseTyped ==
  ASSUME TypeInv, NEW w \in Clients, close(w)
  PROVE  TypeInv'
<1> USE DEF close, TypeInv
<1>1. snd' \in [Clients -> Handshake] /\ WiresTyped'
  <2>1. snd[w].conn \in Conn
    BY SessionAssumption DEF TypeOK, Handshake, Conn
  <2>2. QED
    BY <2>1, HangUpTyped
<1>2. PCsTyped' /\ Bounded' /\ IdsKnown'
  BY <1>1 DEF TypeOK, PCsTyped, Bounded, IdsKnown
<1>3. PeersTyped' /\ MacTyped'
  BY Unmoved, TypeParts
<1>4. QED
  BY <1>1, <1>2, <1>3, TypePartsNext

LEMMA FrameTyped ==
  ASSUME TypeOK, NEW c \in Conn, NEW kind, Frame(c, kind)
  PROVE  toMac[c] # <<>> /\ Head(toMac[c]) \in MacFrame /\ Head(toMac[c]).t = kind
  BY Queues DEF TypeOK, Frame

LEMMA ClosingTyped ==
  ASSUME TypeOK, NEW cs, Close(cs)
  PROVE  /\ phase' \in [Conn -> {"none", "hello", "pairOrAuth", "authenticated", "closed"}]
         /\ toMac' \in [Conn -> Seq(MacFrame)] /\ alive' \subseteq Conn /\ session' \in 0..MaxConns
<1>1. phase' \in [Conn -> {"none", "hello", "pairOrAuth", "authenticated", "closed"}]
  BY DEF Close, TypeOK, On
<1>2. toMac' \in [Conn -> Seq(MacFrame)]
  <2>1. <<>> \in Seq(MacFrame)
    OBVIOUS
  <2>2. QED
    BY <2>1 DEF Close, TypeOK, On
<1>3. QED
  BY <1>1, <1>2, SessionAssumption DEF Close, TypeOK

LEMMA HandleHelloTyped ==
  ASSUME TypeInv, NEW c \in Conn, handleHello(c)
  PROVE  TypeInv'
<1> DEFINE id == Head(toMac[c]).id
           ack == HELLO_ACK(devices.server, peerKey'[c] # 0, code # 0)
<1>1. id \in ID /\ toMac[c] # <<>>
  BY FrameTyped, Frames DEF handleHello, TypeInv
<1>2. devices.keys[id] \in Key /\ devices.server \in Index
  BY <1>1 DEF TypeInv, TypeOK, Devices
<1>3. peerID' = [peerID EXCEPT ![c] = id] /\ peerKey' = [peerKey EXCEPT ![c] = devices.keys[id]]
  BY DEF handleHello
<1>4. PeersTyped'
  <2> HIDE DEF id
  <2>1. peerID' \in [Conn -> ID \cup {NoID}] /\ peerKey' \in [Conn -> Key]
    BY <1>1, <1>2, <1>3 DEF TypeInv, TypeOK
  <2>2. QED
    BY <2>1 DEF handleHello, TypeInv, TypeOK, PeersTyped
<1>5. ack \in WinFrame
  BY <1>2, MadeFrames
<1>6. WiresTyped'
  <2>1. toWin' = Push(toWin, c, ack) /\ toMac' = Consume(toMac, c) /\ alive' = alive
    BY DEF handleHello
  <2> HIDE DEF ack
  <2>2. QED
    BY <1>1, <1>5, <2>1, Queues DEF TypeInv, TypeOK, WiresTyped
<1>7. PCsTyped' /\ IdsKnown'
  BY Unmoved, TypeParts DEF handleHello, TypeInv, pcVars
<1>8. MacTyped' /\ Bounded'
  BY DEF handleHello, TypeInv, TypeOK, MacTyped, Bounded
<1>9. QED
  BY <1>4, <1>6, <1>7, <1>8, TypePartsNext DEF TypeInv

LEMMA RefuseTyped ==
  ASSUME TypeInv, NEW c \in Conn, NEW e \in {"PAIRING_DISABLED", "BAD_PROOF"}, Refuse(c, e)
  PROVE  TypeInv'
<1> USE DEF Refuse, TypeInv
<1>1. WiresTyped'
  <2>1. ERROR(e) \in WinFrame
    BY MadeFrames
  <2>2. toWin' \in [Conn -> Seq(WinFrame)]
    BY <2>1, Queues DEF TypeOK
  <2>3. QED
    BY <2>2, ClosingTyped DEF WiresTyped
<1>2. PeersTyped' /\ MacTyped'
  BY ClosingTyped DEF TypeOK, PeersTyped, MacTyped
<1>3. PCsTyped' /\ IdsKnown' /\ Bounded'
  BY Unmoved DEF TypeOK, PCsTyped, pcVars, Bounded
<1>4. QED
  BY <1>1, <1>2, <1>3, TypePartsNext

LEMMA PairRequestTyped ==
  ASSUME TypeInv, NEW c \in Conn, pair_request(c)
  PROVE  TypeInv'
<1>1. CASE Refuse(c, "PAIRING_DISABLED") \/ Refuse(c, "BAD_PROOF")
  BY <1>1, RefuseTyped
<1>2. CASE /\ peerKey' = [peerKey EXCEPT ![c] = c] /\ pending' = [pending EXCEPT ![c] = TRUE]
           /\ toMac' = Consume(toMac, c) /\ toWin' = Push(toWin, c, PAIR_RESPONSE(c))
           /\ UNCHANGED <<pcVars, phase, peerID, session, devices, macDisk, code, heard, committed,
                          late, silent, alive, opened, codes, forgets, faults>>
  <2> USE <1>2 DEF TypeInv
  <2>1. c \in Key
    BY Sets
  <2>2. PeersTyped' /\ MacTyped' /\ Bounded'
    BY <2>1 DEF TypeOK, PeersTyped, MacTyped, Bounded
  <2>3. toMac[c] # <<>>
    BY DEF pair_request, Frame
  <2>4. PAIR_RESPONSE(c) \in WinFrame
    BY <2>1, MadeFrames
  <2>5. WiresTyped'
    BY <2>3, <2>4, Queues DEF TypeOK, WiresTyped
  <2>6. PCsTyped' /\ IdsKnown'
    BY Unmoved, TypeParts DEF pcVars
  <2>7. QED
    BY <2>2, <2>5, <2>6, TypePartsNext
<1>3. QED
  BY <1>1, <1>2 DEF pair_request

LEMMA SavingDevices ==
  ASSUME TypeOK, SaveDevices, devices' \in Devices
  PROVE  macDisk' \in Devices /\ faults' \in 0..MaxFaults /\ 0..faults \subseteq 0..faults'
<1>1. faults' \in 0..MaxFaults /\ 0..faults \subseteq 0..faults'
  BY SessionAssumption DEF SaveDevices, TypeOK
<1>2. macDisk' \in Devices
  BY DEF SaveDevices, TypeOK
<1>3. QED
  BY <1>1, <1>2

LEMMA IdsStayKnown ==
  ASSUME IdsKnown, UNCHANGED <<store, disk>>, 0..faults \subseteq 0..faults'
  PROVE  IdsKnown'
<1>1. \A w \in Clients : {w} \X (0..faults) \subseteq {w} \X (0..faults')
  OBVIOUS
<1>2. QED
  BY <1>1 DEF IdsKnown

LEMMA AcceptTyped ==
  ASSUME TypeInv, NEW c \in Conn, auth(c), ~Refuse(c, "BAD_PROOF")
  PROVE  TypeInv'
<1>1. /\ toMac[c] # <<>> /\ Commit(c)
      /\ phase' = On([phase EXCEPT ![c] = "authenticated"], Replaced(c), "closed")
      /\ toMac' = On(Consume(toMac, c), Replaced(c), <<>>) /\ alive' = alive \ Replaced(c)
      /\ toWin' = Push(toWin, c, AUTH_OK(peerKey[c]))
      /\ session' = c /\ heard' = c /\ silent' = FALSE
      /\ UNCHANGED <<pcVars, peerID, peerKey, opened, codes, forgets>>
  BY DEF auth, Frame
<1>2. c \in Key /\ c \in 0..MaxConns /\ peerKey[c] \in Key
  BY Sets DEF TypeInv, TypeOK
<1>3. /\ devices' \in Devices /\ macDisk' \in Devices /\ committed' \subseteq Key /\ late' \subseteq Key
      /\ code' \in Code /\ pending' \in [Conn -> BOOLEAN]
      /\ faults' \in 0..MaxFaults /\ 0..faults \subseteq 0..faults'
  <2>1. CASE pending[c]
    <3>1. devices' \in Devices
      <4>1. devices \in Devices /\ devices' = [devices EXCEPT !.keys[peerID[c]] = peerKey[c]]
        BY <1>1, <2>1 DEF Commit, TypeInv, TypeOK
      <4>2. QED
        BY <4>1, <1>2 DEF Devices
    <3>2. macDisk' \in Devices /\ faults' \in 0..MaxFaults /\ 0..faults \subseteq 0..faults'
      BY <1>1, <2>1, <3>1, SavingDevices DEF Commit, TypeInv
    <3>3. committed' = committed \cup {peerKey[c]} /\ late' \in {late, late \cup {peerKey[c]}}
      BY <1>1, <2>1 DEF Commit
    <3>4. committed' \subseteq Key /\ late' \subseteq Key
      BY <1>2, <3>3 DEF TypeInv, TypeOK
    <3>5. code' \in Code /\ pending' \in [Conn -> BOOLEAN]
      BY <1>1, <2>1, Sets DEF Commit, TypeInv, TypeOK
    <3>6. QED
      BY <3>1, <3>2, <3>4, <3>5
  <2>2. CASE ~pending[c]
    BY <1>1, <2>2 DEF Commit, TypeInv, TypeOK
  <2>3. QED
    BY <2>1, <2>2
<1>4. PeersTyped' /\ MacTyped' /\ Bounded'
  <2>1. phase' \in [Conn -> {"none", "hello", "pairOrAuth", "authenticated", "closed"}]
    BY <1>1 DEF On, TypeInv, TypeOK
  <2>2. QED
    BY <1>1, <1>2, <1>3, <2>1 DEF TypeInv, TypeOK, PeersTyped, MacTyped, Bounded
<1>5. WiresTyped'
  <2>1. Consume(toMac, c) \in [Conn -> Seq(MacFrame)]
    BY <1>1, Queues DEF TypeInv, TypeOK
  <2>2. toMac' \in [Conn -> Seq(MacFrame)]
    BY <1>1, <2>1, Queues
  <2>3. AUTH_OK(peerKey[c]) \in WinFrame
    BY <1>2, MadeFrames
  <2>4. toWin' \in [Conn -> Seq(WinFrame)]
    BY <1>1, <2>3, Queues DEF TypeInv, TypeOK
  <2>5. QED
    BY <1>1, <2>2, <2>4 DEF TypeInv, TypeOK, WiresTyped
<1>6. PCsTyped' /\ IdsKnown'
  <2>1. PCsTyped'
    BY <1>1, Unmoved, TypeParts DEF TypeInv
  <2>2. UNCHANGED <<store, disk>>
    BY <1>1 DEF pcVars
  <2>3. QED
    BY <1>3, <2>1, <2>2, IdsStayKnown DEF TypeInv
<1>7. QED
  BY <1>4, <1>5, <1>6, TypePartsNext DEF TypeInv

LEMMA ClosesTyped ==
  ASSUME TypeInv, (\E c \in Conn : end(c)) \/ watchdog \/ stopLocked
  PROVE  TypeInv'
<1>1. /\ \E cs : Close(cs)
      /\ heard' \in {0, heard} /\ silent' \in BOOLEAN
      /\ UNCHANGED <<UnchangedByClose, devices, macDisk, codes, forgets, faults>>
  <2>1. CASE \E c \in Conn : end(c)
    BY <2>1 DEF end, Told, TypeInv, TypeOK
  <2>2. CASE watchdog
    BY <2>2 DEF watchdog, Told, TypeInv, TypeOK
  <2>3. CASE stopLocked
    BY <2>3 DEF stopLocked
  <2>4. QED
    BY <2>1, <2>2, <2>3
<1> PICK cs : Close(cs)
  BY <1>1
<1>2. WiresTyped' /\ PeersTyped' /\ MacTyped' /\ Bounded'
  BY <1>1, ClosingTyped, SessionAssumption
  DEF UnchangedByClose, TypeInv, TypeOK, WiresTyped, PeersTyped, MacTyped, Bounded
<1>3. PCsTyped' /\ IdsKnown'
  BY <1>1, Unmoved, TypeParts DEF UnchangedByClose, TypeInv, pcVars
<1>4. QED
  BY <1>2, <1>3, TypePartsNext DEF TypeInv

LEMMA PairingTyped ==
  ASSUME TypeInv, beginPairing \/ cancelPairing
  PROVE  TypeInv'
<1>1. code' \in Code /\ codes' \in Code
  BY Sets, SessionAssumption DEF beginPairing, cancelPairing, TypeInv, TypeOK, Code
<1>2. UNCHANGED <<pcVars, peerVars, session, devices, macDisk, heard, committed, late, silent,
                  wires, opened, forgets, faults>>
  BY DEF beginPairing, cancelPairing
<1>3. PCsTyped' /\ IdsKnown' /\ PeersTyped'
  BY <1>2, Unmoved, TypeParts DEF TypeInv, pcVars
<1>4. MacTyped' /\ WiresTyped' /\ Bounded'
  BY <1>1, <1>2 DEF TypeInv, TypeOK, MacTyped, WiresTyped, Bounded, wires
<1>5. QED
  BY <1>3, <1>4, TypePartsNext DEF TypeInv

LEMMA ForgetTyped ==
  ASSUME TypeInv, forgetAllDevices
  PROVE  TypeInv'
<1>1. devices' \in Devices
  BY Sets DEF forgetAllDevices, NoDevices, Devices
<1>2. macDisk' \in Devices /\ faults' \in 0..MaxFaults /\ 0..faults \subseteq 0..faults'
  BY <1>1, SavingDevices DEF forgetAllDevices, TypeInv
<1>3. Close({session} \ {0}) /\ heard' \in {0, heard} /\ UNCHANGED <<UnchangedByClose, silent, codes>>
  BY DEF forgetAllDevices, Told
<1>4. forgets' \in 0..MaxForgets
  BY SessionAssumption DEF forgetAllDevices, TypeInv, TypeOK
<1>5. WiresTyped' /\ PeersTyped' /\ MacTyped' /\ Bounded'
  BY <1>1, <1>2, <1>3, <1>4, ClosingTyped, SessionAssumption
  DEF UnchangedByClose, TypeInv, TypeOK, WiresTyped, PeersTyped, MacTyped, Bounded
<1>6. PCsTyped' /\ IdsKnown'
  BY <1>2, <1>3, Unmoved, IdsStayKnown, TypeParts DEF UnchangedByClose, TypeInv, pcVars
<1>7. QED
  BY <1>5, <1>6, TypePartsNext DEF TypeInv

LEMMA MacRestartTyped ==
  ASSUME TypeInv, macRestart
  PROVE  TypeInv'
<1>1. devices' \in Devices /\ macDisk' = devices'
  <2>1. forgets + 1 \in Index
    BY SessionAssumption DEF TypeInv, TypeOK, Index
  <2>2. macDisk \in Devices
    BY DEF TypeInv, TypeOK
  <2>3. QED
    BY <2>1, <2>2 DEF macRestart, Devices
<1>2. faults' \in 0..MaxFaults /\ 0..faults \subseteq 0..faults'
  BY SessionAssumption DEF macRestart, TypeInv, TypeOK
<1>3. /\ Close({c \in Conn : phase[c] # "none"}) /\ heard' = 0 /\ silent' = FALSE /\ code' = 0
      /\ UNCHANGED <<pcVars, peerID, peerKey, pending, committed, late, toWin, opened, codes, forgets>>
  BY DEF macRestart
<1>4. WiresTyped' /\ PeersTyped' /\ MacTyped' /\ Bounded'
  BY <1>1, <1>2, <1>3, ClosingTyped, Sets, SessionAssumption
  DEF TypeInv, TypeOK, WiresTyped, PeersTyped, MacTyped, Bounded
<1>5. PCsTyped' /\ IdsKnown'
  BY <1>2, <1>3, Unmoved, IdsStayKnown, TypeParts DEF TypeInv, pcVars
<1>6. QED
  BY <1>1, <1>4, <1>5, TypePartsNext DEF TypeInv

LEMMA TypeStep == TypeInv /\ [Next]_vars => TypeInv'
<1> SUFFICES ASSUME TypeInv, [Next]_vars PROVE TypeInv'
  OBVIOUS
<1>1. CASE \E w \in Clients : \E typed \in {0, codes} : connect(w, typed)
  BY <1>1, ConnectTyped
<1>2. CASE \E w \in Clients : hello_ack(w) \/ pair_response(w)
  BY <1>2, HelloAckTyped, PairResponseTyped
<1>3. CASE \E w \in Clients : auth_ok(w) \/ auth_rejected(w)
  BY <1>3, AuthOkTyped, AuthRejectedTyped
<1>4. CASE \E w \in Clients : close(w) \/ restart(w)
  BY <1>4, CloseTyped, RestartTyped
<1>5. CASE \E c \in Conn : handleHello(c) \/ pair_request(c)
  BY <1>5, HandleHelloTyped, PairRequestTyped
<1>6. CASE \E c \in Conn : auth(c)
  BY <1>6, AcceptTyped, RefuseTyped
<1>7. CASE (\E c \in Conn : end(c)) \/ watchdog \/ stopLocked
  BY <1>7, ClosesTyped
<1>8. CASE beginPairing \/ cancelPairing \/ forgetAllDevices \/ macRestart
  BY <1>8, PairingTyped, ForgetTyped, MacRestartTyped
<1>9. CASE UNCHANGED vars
  BY <1>9 DEF vars, pcVars, macVars, peerVars, wires, TypeInv, TypeOK, IdsKnown
<1>10. QED
  BY <1>1, <1>2, <1>3, <1>4, <1>5, <1>6, <1>7, <1>8, <1>9 DEF Next

(* Every variable keeps its type, and every PC its own id.                 *)
THEOREM TypeCorrect == Spec => []TypeOK
<1>1. Spec => []TypeInv
  BY TypeInit, TypeStep, PTL DEF Spec
<1>2. TypeInv => TypeOK
  BY DEF TypeInv
<1>3. QED
  BY <1>1, <1>2, PTL

-----------------------------------------------------------------------------
(* One session, and the delegate knows which.                              *)

LEMMA SessionInit == Init => SessionInv
  BY Sets DEF Init, SessionInv, OneSession, DelegateKnows, Unopened

(* Closing connections, and telling of the session if it is one of them.   *)
LEMMA ClosingSession ==
  ASSUME TypeOK, SessionInv, NEW cs, cs \subseteq Conn, Close(cs), UNCHANGED opened
  PROVE  /\ OneSession' /\ Unopened'
         /\ Told(cs) /\ UNCHANGED silent => DelegateKnows'
         /\ session \notin cs /\ UNCHANGED <<heard, silent>> => DelegateKnows'
<1>1. /\ phase' = [c \in Conn |-> IF c \in cs THEN "closed" ELSE phase[c]]
      /\ session' = IF session \in cs THEN 0 ELSE session
  BY DEF Close, On
<1>2. OneSession'
  BY <1>1, Sets DEF SessionInv, OneSession
<1>3. Unopened'
  BY <1>1 DEF SessionInv, Unopened
<1>4. Told(cs) /\ UNCHANGED silent => DelegateKnows'
  BY <1>1, Sets DEF SessionInv, DelegateKnows, Told
<1>5. session \notin cs /\ UNCHANGED <<heard, silent>> => DelegateKnows'
  BY <1>1 DEF SessionInv, DelegateKnows
<1>6. QED
  BY <1>2, <1>3, <1>4, <1>5

LEMMA Unconcerned ==
  ASSUME SessionInv, UNCHANGED <<phase, session, heard, silent, opened>>
  PROVE  SessionInv'
  BY DEF SessionInv, OneSession, DelegateKnows, Unopened

LEMMA ConnectSession ==
  ASSUME TypeOK, SessionInv, NEW w \in Clients, NEW typed, connect(w, typed)
  PROVE  SessionInv'
<1>1. /\ opened \in Nat /\ opened' = opened + 1 /\ opened' \in Conn
      /\ phase' = [phase EXCEPT ![opened'] = "hello"] /\ UNCHANGED <<session, heard, silent>>
  BY SessionAssumption DEF connect, TypeOK, Conn
<1>2. phase[opened'] # "authenticated"
  BY <1>1 DEF SessionInv, Unopened
<1>3. OneSession'
  BY <1>1, <1>2 DEF SessionInv, OneSession, TypeOK
<1>4. Unopened'
  BY <1>1 DEF SessionInv, Unopened, TypeOK, Conn
<1>5. QED
  BY <1>1, <1>3, <1>4 DEF SessionInv, DelegateKnows

LEMMA RefuseSession ==
  ASSUME TypeOK, SessionInv, NEW c \in Conn, NEW e, phase[c] = "pairOrAuth", Refuse(c, e)
  PROVE  SessionInv'
<1>1. session # c
  BY Sets DEF SessionInv, OneSession
<1>2. QED
  BY <1>1, ClosingSession DEF Refuse, SessionInv

LEMMA HelloSession ==
  ASSUME TypeOK, SessionInv, NEW c \in Conn, handleHello(c)
  PROVE  SessionInv'
<1>1. /\ phase[c] = "hello" /\ phase' = [phase EXCEPT ![c] = "pairOrAuth"]
      /\ UNCHANGED <<session, heard, silent, opened>>
  BY DEF handleHello
<1>2. OneSession'
  BY <1>1 DEF SessionInv, OneSession, TypeOK
<1>3. Unopened'
  BY <1>1 DEF SessionInv, Unopened, TypeOK
<1>4. QED
  BY <1>1, <1>2, <1>3 DEF SessionInv, DelegateKnows

LEMMA AcceptSession ==
  ASSUME TypeOK, SessionInv, NEW c \in Conn, auth(c), ~Refuse(c, "BAD_PROOF")
  PROVE  SessionInv'
<1>1. /\ phase[c] = "pairOrAuth"
      /\ phase' = On([phase EXCEPT ![c] = "authenticated"], Replaced(c), "closed")
      /\ session' = c /\ heard' = c /\ opened' = opened
  BY DEF auth
<1>2. \A d \in Conn : phase'[d] = IF d = c THEN "authenticated"
                                  ELSE IF d = session THEN "closed" ELSE phase[d]
  BY <1>1, Sets DEF On, Replaced, TypeOK
<1>3. OneSession'
  BY <1>1, <1>2, Sets DEF SessionInv, OneSession
<1>4. Unopened'
  BY <1>1, <1>2 DEF SessionInv, Unopened
<1>5. QED
  BY <1>1, <1>3, <1>4 DEF SessionInv, DelegateKnows

LEMMA SessionStep == TypeOK /\ SessionInv /\ [Next]_vars => SessionInv'
<1> SUFFICES ASSUME TypeOK, SessionInv, [Next]_vars PROVE SessionInv'
  OBVIOUS
<1>1. CASE \E w \in Clients : \E typed \in {0, codes} : connect(w, typed)
  BY <1>1, ConnectSession
<1>2. CASE \E w \in Clients : \/ hello_ack(w) \/ pair_response(w) \/ auth_ok(w)
                              \/ auth_rejected(w) \/ close(w) \/ restart(w)
  <2>1. UNCHANGED <<macVars, opened>>
    BY <1>2 DEF hello_ack, pair_response, auth_ok, auth_rejected, close, restart
  <2>2. QED
    BY <2>1, Unconcerned DEF macVars, peerVars
<1>3. CASE \E c \in Conn : handleHello(c)
  BY <1>3, HelloSession
<1>4. CASE \E c \in Conn : pair_request(c)
  <2> PICK c \in Conn : pair_request(c)
    BY <1>4
  <2>1. CASE Refuse(c, "PAIRING_DISABLED") \/ Refuse(c, "BAD_PROOF")
    BY <2>1, RefuseSession DEF pair_request
  <2>2. CASE UNCHANGED <<phase, session, heard, silent, opened>>
    BY <2>2, Unconcerned
  <2>3. QED
    BY <2>1, <2>2 DEF pair_request
<1>5. CASE \E c \in Conn : auth(c)
  <2> PICK c \in Conn : auth(c)
    BY <1>5
  <2>1. CASE Refuse(c, "BAD_PROOF")
    BY <2>1, RefuseSession DEF auth
  <2>2. QED
    BY <2>1, AcceptSession
<1>6. CASE \E c \in Conn : end(c)
  BY <1>6, ClosingSession DEF end, UnchangedByClose, SessionInv
<1>7. CASE watchdog
  <2>1. {session} \subseteq Conn
    BY <1>7, SessionAssumption DEF watchdog, TypeOK, Conn
  <2>2. QED
    BY <1>7, <2>1, ClosingSession DEF watchdog, UnchangedByClose, SessionInv
<1>8. CASE stopLocked
  <2>1. session # 0 => session \in {c \in Conn : phase[c] \notin {"none", "closed"}}
    BY DEF SessionInv, OneSession
  <2>2. session' = 0
    BY <1>8, <2>1 DEF stopLocked, Close
  <2>3. DelegateKnows'
    BY <1>8, <2>2 DEF stopLocked, SessionInv, DelegateKnows
  <2>4. QED
    BY <1>8, <2>3, ClosingSession DEF stopLocked, UnchangedByClose, SessionInv
<1>9. CASE beginPairing \/ cancelPairing
  BY <1>9, Unconcerned DEF beginPairing, cancelPairing, peerVars
<1>10. CASE forgetAllDevices
  <2>1. {session} \ {0} \subseteq Conn
    BY SessionAssumption DEF TypeOK, Conn
  <2>2. QED
    BY <1>10, <2>1, ClosingSession DEF forgetAllDevices, UnchangedByClose, SessionInv
<1>11. CASE macRestart
  <2>1. session # 0 => session \in {c \in Conn : phase[c] # "none"}
    BY DEF SessionInv, OneSession
  <2>2. session' = 0
    BY <1>11, <2>1 DEF macRestart, Close
  <2>3. DelegateKnows'
    BY <1>11, <2>2 DEF macRestart, DelegateKnows
  <2>4. QED
    BY <1>11, <2>3, ClosingSession DEF macRestart, SessionInv
<1>12. CASE UNCHANGED vars
  BY <1>12, Unconcerned DEF vars, macVars, peerVars
<1>13. QED
  BY <1>1, <1>2, <1>3, <1>4, <1>5, <1>6, <1>7, <1>8, <1>9, <1>10, <1>11, <1>12 DEF Next

(* The Mac obeys one PC at a time, for any number of PCs and connections.  *)
THEOREM OneSessionAtATime == Spec => []OneSession
<1>1. Spec => [](TypeInv /\ SessionInv)
  <2>1. TypeInv => TypeOK
    BY DEF TypeInv
  <2>2. QED
    BY <2>1, TypeInit, TypeStep, SessionInit, SessionStep, PTL DEF Spec
<1>2. SessionInv => OneSession
  BY DEF SessionInv
<1>3. QED
  BY <1>1, <1>2, PTL

(* The delegate knows the live session and, but for stopLocked, the end of *)
(* every other.                                                            *)
THEOREM DelegateAlwaysKnows == Spec => []DelegateKnows
<1>1. Spec => [](TypeInv /\ SessionInv)
  <2>1. TypeInv => TypeOK
    BY DEF TypeInv
  <2>2. QED
    BY <2>1, TypeInit, TypeStep, SessionInit, SessionStep, PTL DEF Spec
<1>2. SessionInv => DelegateKnows
  BY DEF SessionInv
<1>3. QED
  BY <1>1, <1>2, PTL

-----------------------------------------------------------------------------
(* No key is filed unproven.                                               *)

LEMMA ProofInit == Init => ProofInv
<1> SUFFICES ASSUME Init PROVE ProofInv
  OBVIOUS
<1>1. PCsProven
  BY DEF Init, PCsProven, KeysIn, NoKeys, Proven
<1>2. DevicesProven
  BY DEF Init, DevicesProven, KeysIn, NoDevices, Proven
<1>3. PeersProven /\ AcksIn(toWin, Proven)
  BY DEF Init, PeersProven, AcksIn, Proven
<1>4. QED
  BY <1>1, <1>2, <1>3 DEF ProofInv

LEMMA Acks ==
  ASSUME NEW P, NEW q \in [Conn -> Seq(WinFrame)], AcksIn(q, P), NEW c \in Conn
  PROVE  /\ q[c] # <<>> => /\ AcksIn(Consume(q, c), P)
                           /\ Head(q[c]).t = "AUTH_OK" => Head(q[c]).key \in P
         /\ \A m \in WinFrame : (m.t = "AUTH_OK" => m.key \in P) => AcksIn(Push(q, c, m), P)
         /\ AcksIn([q EXCEPT ![c] = <<>>], P)
<1>1. q[c] \in Seq(WinFrame)
  OBVIOUS
<1>2. ASSUME q[c] # <<>>
      PROVE  AcksIn(Consume(q, c), P) /\ (Head(q[c]).t = "AUTH_OK" => Head(q[c]).key \in P)
  <2>1. /\ Len(q[c]) \in Nat \ {0} /\ Head(q[c]) = q[c][1] /\ Len(Tail(q[c])) = Len(q[c]) - 1
        /\ \A i \in 1..Len(Tail(q[c])) : Tail(q[c])[i] = q[c][i + 1] /\ i + 1 \in 1..Len(q[c])
    BY <1>1, <1>2
  <2>2. AcksIn(Consume(q, c), P)
    BY <2>1 DEF AcksIn, Consume
  <2>3. QED
    BY <2>1, <2>2 DEF AcksIn
<1>3. ASSUME NEW m \in WinFrame, m.t = "AUTH_OK" => m.key \in P PROVE AcksIn(Push(q, c, m), P)
  <2>1. \A i \in 1..Len(Append(q[c], m)) :
          \/ i \in 1..Len(q[c]) /\ Append(q[c], m)[i] = q[c][i]
          \/ Append(q[c], m)[i] = m
    BY <1>1
  <2>2. QED
    BY <1>3, <2>1 DEF AcksIn, Push
<1>4. AcksIn([q EXCEPT ![c] = <<>>], P)
  BY DEF AcksIn
<1>5. QED
  BY <1>2, <1>3, <1>4

(* What is proven stays proven.                                            *)
LEMMA ProvenGrows ==
  ASSUME committed \subseteq committed'
  PROVE  /\ Proven \subseteq Proven'
         /\ \A f : KeysIn(f, Proven) => KeysIn(f, Proven')
         /\ \A q : AcksIn(q, Proven) => AcksIn(q, Proven')
  BY DEF Proven, KeysIn, AcksIn

LEMMA PCsUnconcerned ==
  ASSUME ProofInv, UNCHANGED <<store, disk>>, committed \subseteq committed'
  PROVE  PCsProven'
<1>1. \A f : KeysIn(f, Proven) => KeysIn(f, Proven')
  BY ProvenGrows
<1>2. QED
  BY <1>1 DEF ProofInv, PCsProven

LEMMA MacUnconcerned ==
  ASSUME ProofInv, UNCHANGED macVars
  PROVE  DevicesProven' /\ PeersProven' /\ Proven' = Proven
  BY DEF ProofInv, DevicesProven, PeersProven, Proven, macVars, peerVars

(* A PC that saves keys proven leaves only such on its disk.               *)
LEMMA SavingProven ==
  ASSUME TypeOK, ProofInv, NEW w \in Clients, SaveKeys(w), store' \in [Clients -> KeyFile],
         UNCHANGED committed, \A v \in Clients : KeysIn(store'[v], Proven)
  PROVE  PCsProven'
<1>1. \A v \in Clients : disk'[v] = disk[v] \/ disk'[v] = store'[v]
  BY DEF TypeOK, SaveKeys
<1>2. Proven' = Proven
  BY DEF Proven
<1>3. QED
  BY <1>1, <1>2 DEF ProofInv, PCsProven

LEMMA PCProof ==
  ASSUME TypeInv, ProofInv, NEW w \in Clients,
         \/ hello_ack(w) \/ pair_response(w) \/ auth_ok(w) \/ auth_rejected(w) \/ close(w) \/ restart(w)
  PROVE  ProofInv'
<1>1. UNCHANGED macVars
  BY DEF hello_ack, pair_response, auth_ok, auth_rejected, close, restart
<1>2. DevicesProven' /\ PeersProven' /\ Proven' = Proven /\ UNCHANGED committed
  BY <1>1, MacUnconcerned DEF macVars
<1>3. TypeOK /\ TypeOK'
  BY TypeStep DEF TypeInv, Next
<1>4. AcksIn(toWin', Proven)
  <2>1. CASE hello_ack(w) \/ pair_response(w) \/ auth_ok(w)
    <3>1. snd[w].conn \in Conn /\ toWin[snd[w].conn] # <<>>
      BY <1>3, <2>1, ReadsFrame DEF hello_ack, pair_response, auth_ok
    <3>2. toWin' = Consume(toWin, snd[w].conn)
      BY <2>1 DEF hello_ack, pair_response, auth_ok
    <3>3. QED
      BY <1>3, <3>1, <3>2, Acks DEF TypeOK, ProofInv
  <2>2. CASE auth_rejected(w) \/ close(w) \/ restart(w)
    <3>1. CASE snd[w].conn = 0
      BY <2>2, <3>1, <1>3, ReadsFrame, Sets DEF auth_rejected, close, restart, ProofInv, wires
    <3>2. CASE snd[w].conn # 0
      <4>1. snd[w].conn \in Conn
        BY <1>3, <3>2, SessionAssumption DEF TypeOK, Handshake, Conn
      <4>2. HangUp(w)
        BY <2>2, <3>2 DEF auth_rejected, close, restart
      <4>3. QED
        BY <1>3, <4>1, <4>2, Acks DEF HangUp, TypeOK, ProofInv
    <3>3. QED
      BY <3>1, <3>2
  <2>3. QED
    BY <2>1, <2>2
<1>5. PCsProven'
  <2>1. CASE hello_ack(w) \/ pair_response(w) \/ close(w)
    <3>1. UNCHANGED <<store, disk>>
      BY <2>1 DEF hello_ack, pair_response, close
    <3>2. QED
      BY <1>2, <3>1, PCsUnconcerned
  <2>2. CASE auth_ok(w)
    <3>1. snd[w].key \in Proven
      <4>1. /\ Reads(w, "AUTH_OK") /\ Head(toWin[snd[w].conn]).key = snd[w].key
        BY <2>2 DEF auth_ok
      <4>2. /\ snd[w].conn \in Conn /\ toWin[snd[w].conn] # <<>>
            /\ Head(toWin[snd[w].conn]).t = "AUTH_OK"
        BY <1>3, <4>1, ReadsFrame
      <4>3. toWin \in [Conn -> Seq(WinFrame)] /\ AcksIn(toWin, Proven)
        BY <1>3 DEF TypeOK, ProofInv
      <4>4. 1 \in 1..Len(toWin[snd[w].conn]) /\ Head(toWin[snd[w].conn]) = toWin[snd[w].conn][1]
        BY <4>2, <4>3
      <4>5. QED
        BY <4>1, <4>2, <4>3, <4>4 DEF AcksIn
    <3>2. CASE NeedsFiling(w)
      <4>1. store' = [store EXCEPT ![w].keys[snd[w].server] = snd[w].key] /\ SaveKeys(w)
        BY <2>2, <3>2 DEF auth_ok
      <4>2. \A v \in Clients : KeysIn(store'[v], Proven)
        BY <1>3, <3>1, <4>1 DEF TypeOK, KeyFile, KeysIn, ProofInv, PCsProven
      <4>3. QED
        BY <1>2, <1>3, <4>1, <4>2, SavingProven DEF TypeOK
    <3>3. CASE ~NeedsFiling(w)
      BY <1>2, <2>2, <3>3, PCsUnconcerned DEF auth_ok
    <3>4. QED
      BY <3>2, <3>3
  <2>3. CASE auth_rejected(w)
    <3>1. store' = [store EXCEPT ![w].keys[0] = 0] /\ SaveKeys(w)
      BY <2>3 DEF auth_rejected
    <3>2. \A v \in Clients : KeysIn(store'[v], Proven)
      BY <1>3, <3>1 DEF TypeOK, KeyFile, KeysIn, ProofInv, PCsProven, Proven
    <3>3. QED
      BY <1>2, <1>3, <3>1, <3>2, SavingProven DEF TypeOK
  <2>4. CASE restart(w)
    <3>1. \A v \in Clients : disk'[v] = Garbled \/ disk'[v] = disk[v]
      BY <1>3, <2>4 DEF restart, TypeOK
    <3>2. KeysIn(Loaded(w, disk'[w]), Proven)
      BY <3>1 DEF Loaded, KeysIn, NoKeys, Proven, ProofInv, PCsProven
    <3>3. \A v \in Clients : store'[v] = IF v = w THEN Loaded(w, disk'[w]) ELSE store[v]
      BY <1>3, <2>4 DEF restart, TypeOK
    <3>4. QED
      BY <1>2, <3>1, <3>2, <3>3 DEF ProofInv, PCsProven
  <2>5. QED
    BY <2>1, <2>2, <2>3, <2>4
<1>6. AcksIn(toWin, Proven)'
  BY <1>2, <1>4 DEF AcksIn
<1>7. QED
  BY <1>2, <1>5, <1>6 DEF ProofInv

(* A frame for the PC that, if it says a key is accepted, names one proven.*)
LEMMA PushProven ==
  ASSUME TypeOK, ProofInv, NEW c \in Conn, NEW m \in WinFrame, committed \subseteq committed',
         toWin' = Push(toWin, c, m), m.t = "AUTH_OK" => m.key \in Proven'
  PROVE  AcksIn(toWin, Proven)'
<1>1. AcksIn(toWin, Proven')
  BY ProvenGrows DEF ProofInv
<1>2. AcksIn(Push(toWin, c, m), Proven')
  BY <1>1, Acks DEF TypeOK
<1>3. QED
  BY <1>2 DEF AcksIn

(* A step of the Mac that files nothing and only closes or sends.          *)
LEMMA MacKeepsFiles ==
  ASSUME ProofInv, UNCHANGED <<pcVars, devices, macDisk, committed>>
  PROVE  PCsProven' /\ DevicesProven' /\ Proven' = Proven
  BY DEF ProofInv, PCsProven, DevicesProven, Proven, pcVars

LEMMA RefuseProof ==
  ASSUME TypeInv, ProofInv, NEW c \in Conn, NEW e \in {"PAIRING_DISABLED", "BAD_PROOF"}, Refuse(c, e)
  PROVE  ProofInv'
<1>1. UNCHANGED <<pcVars, devices, macDisk, committed, peerKey, pending>>
      /\ toWin' = Push(toWin, c, ERROR(e))
  BY DEF Refuse
<1>2. PCsProven' /\ DevicesProven' /\ Proven' = Proven
  BY <1>1, MacKeepsFiles
<1>3. PeersProven'
  BY <1>1, <1>2 DEF ProofInv, PeersProven
<1>4. ERROR(e) \in WinFrame /\ ERROR(e).t # "AUTH_OK"
  BY MadeFrames DEF ERROR
<1>5. AcksIn(toWin, Proven)'
  BY <1>1, <1>4, PushProven DEF TypeInv
<1>6. QED
  BY <1>2, <1>3, <1>5 DEF ProofInv

LEMMA HelloProof ==
  ASSUME TypeInv, ProofInv, NEW c \in Conn, handleHello(c)
  PROVE  ProofInv'
<1> DEFINE id == Head(toMac[c]).id
           ack == HELLO_ACK(devices.server, peerKey'[c] # 0, code # 0)
<1>1. /\ UNCHANGED <<pcVars, devices, macDisk, committed, pending>>
      /\ peerKey' = [peerKey EXCEPT ![c] = devices.keys[id]] /\ toWin' = Push(toWin, c, ack)
  BY DEF handleHello
<1>2. PCsProven' /\ DevicesProven' /\ Proven' = Proven
  BY <1>1, MacKeepsFiles
<1>3. id \in ID
  BY FrameTyped, Frames DEF handleHello, TypeInv
<1>4. devices.keys[id] \in Proven /\ devices.server \in Index
  BY <1>3 DEF TypeInv, TypeOK, Devices, ProofInv, DevicesProven, KeysIn
<1>5. PeersProven'
  <2> HIDE DEF id
  <2>1. QED
    BY <1>1, <1>2, <1>4 DEF TypeInv, TypeOK, ProofInv, PeersProven
<1>6. ack \in WinFrame /\ ack.t # "AUTH_OK"
  BY <1>4, MadeFrames DEF HELLO_ACK
<1>7. AcksIn(toWin, Proven)'
  <2> HIDE DEF ack
  <2>1. QED
    BY <1>1, <1>6, PushProven DEF TypeInv
<1>8. QED
  BY <1>2, <1>5, <1>7 DEF ProofInv

LEMMA PairRequestProof ==
  ASSUME TypeInv, ProofInv, NEW c \in Conn, pair_request(c)
  PROVE  ProofInv'
<1>1. CASE Refuse(c, "PAIRING_DISABLED") \/ Refuse(c, "BAD_PROOF")
  BY <1>1, RefuseProof
<1>2. CASE /\ peerKey' = [peerKey EXCEPT ![c] = c] /\ pending' = [pending EXCEPT ![c] = TRUE]
           /\ toWin' = Push(toWin, c, PAIR_RESPONSE(c))
           /\ UNCHANGED <<pcVars, devices, macDisk, committed>>
  <2>1. PCsProven' /\ DevicesProven' /\ Proven' = Proven
    BY <1>2, MacKeepsFiles
  <2>2. PeersProven'
    BY <1>2, <2>1 DEF TypeInv, TypeOK, ProofInv, PeersProven
  <2>3. PAIR_RESPONSE(c) \in WinFrame /\ PAIR_RESPONSE(c).t # "AUTH_OK"
    BY Sets, MadeFrames DEF PAIR_RESPONSE
  <2>4. AcksIn(toWin, Proven)'
    BY <1>2, <2>3, PushProven DEF TypeInv
  <2>5. QED
    BY <2>1, <2>2, <2>4 DEF ProofInv
<1>3. QED
  BY <1>1, <1>2 DEF pair_request

LEMMA AcceptProof ==
  ASSUME TypeInv, ProofInv, NEW c \in Conn, auth(c), ~Refuse(c, "BAD_PROOF")
  PROVE  ProofInv'
<1>1. Commit(c) /\ toWin' = Push(toWin, c, AUTH_OK(peerKey[c])) /\ UNCHANGED <<pcVars, peerKey>>
  BY DEF auth
<1>2. committed \subseteq committed' /\ peerKey[c] \in Proven'
  <2>1. CASE pending[c]
    BY <1>1, <2>1 DEF Commit, Proven
  <2>2. CASE ~pending[c]
    BY <1>1, <2>2 DEF Commit, Proven, ProofInv, PeersProven
  <2>3. QED
    BY <2>1, <2>2
<1>3. Proven \subseteq Proven' /\ \A f : KeysIn(f, Proven) => KeysIn(f, Proven')
  BY <1>2, ProvenGrows
<1>4. PCsProven'
  BY <1>1, <1>2, PCsUnconcerned DEF pcVars
<1>5. DevicesProven'
  <2>1. CASE pending[c]
    <3>1. devices' = [devices EXCEPT !.keys[peerID[c]] = peerKey[c]] /\ macDisk' \in {devices', macDisk}
      BY <1>1, <2>1 DEF Commit, SaveDevices
    <3>2. KeysIn(devices', Proven')
      BY <1>2, <1>3, <3>1 DEF TypeInv, TypeOK, Devices, KeysIn, ProofInv, DevicesProven
    <3>3. QED
      BY <1>3, <3>1, <3>2 DEF ProofInv, DevicesProven
  <2>2. CASE ~pending[c]
    BY <1>1, <1>3, <2>2 DEF Commit, ProofInv, DevicesProven
  <2>3. QED
    BY <2>1, <2>2
<1>6. PeersProven'
  <2>1. \A d \in Conn : ~pending'[d] => d = c \/ ~pending[d]
    BY <1>1 DEF Commit, TypeInv, TypeOK
  <2>2. QED
    BY <1>1, <1>2, <1>3, <2>1 DEF ProofInv, PeersProven
<1>7. AUTH_OK(peerKey[c]) \in WinFrame /\ AUTH_OK(peerKey[c]).key = peerKey[c]
  BY MadeFrames DEF TypeInv, TypeOK, AUTH_OK
<1>8. AcksIn(toWin, Proven)'
  BY <1>1, <1>2, <1>7, PushProven DEF TypeInv
<1>9. QED
  BY <1>4, <1>5, <1>6, <1>8 DEF ProofInv

LEMMA ProofStep == TypeInv /\ ProofInv /\ [Next]_vars => ProofInv'
<1> SUFFICES ASSUME TypeInv, ProofInv, [Next]_vars PROVE ProofInv'
  OBVIOUS
<1>1. ASSUME UNCHANGED <<pcVars, peerKey, pending, committed, toWin>>, DevicesProven' PROVE ProofInv'
  BY <1>1 DEF ProofInv, PCsProven, PeersProven, AcksIn, Proven, pcVars
<1>2. UNCHANGED <<devices, macDisk, committed>> => DevicesProven'
  BY DEF ProofInv, DevicesProven, Proven
<1>3. CASE \E w \in Clients : \E typed \in {0, codes} : connect(w, typed)
  <2>1. UNCHANGED <<store, disk, peerKey, pending, committed, toWin, devices, macDisk>>
    BY <1>3 DEF connect
  <2>2. QED
    BY <1>2, <2>1 DEF ProofInv, PCsProven, PeersProven, AcksIn, Proven
<1>4. CASE \E w \in Clients : \/ hello_ack(w) \/ pair_response(w) \/ auth_ok(w)
                              \/ auth_rejected(w) \/ close(w) \/ restart(w)
  BY <1>4, PCProof
<1>5. CASE \E c \in Conn : handleHello(c) \/ pair_request(c)
  BY <1>5, HelloProof, PairRequestProof
<1>6. CASE \E c \in Conn : auth(c)
  BY <1>6, AcceptProof, RefuseProof
<1>7. CASE (\E c \in Conn : end(c)) \/ watchdog \/ stopLocked
  BY <1>1, <1>2, <1>7 DEF end, watchdog, stopLocked, UnchangedByClose
<1>8. CASE beginPairing \/ cancelPairing
  BY <1>1, <1>2, <1>8 DEF beginPairing, cancelPairing, peerVars, wires
<1>9. CASE forgetAllDevices
  <2>1. devices' = NoDevices(0) /\ macDisk' \in {devices', macDisk} /\ UNCHANGED UnchangedByClose
    BY <1>9 DEF forgetAllDevices, SaveDevices
  <2>2. DevicesProven'
    BY <2>1 DEF NoDevices, KeysIn, Proven, ProofInv, DevicesProven, UnchangedByClose
  <2>3. QED
    BY <1>1, <2>1, <2>2 DEF UnchangedByClose
<1>10. CASE macRestart
  <2>1. devices'.keys = macDisk.keys /\ macDisk' = devices' /\ UNCHANGED committed
    BY <1>10 DEF macRestart, TypeInv, TypeOK, Devices
  <2>2. DevicesProven'
    BY <2>1 DEF KeysIn, Proven, ProofInv, DevicesProven
  <2>3. QED
    BY <1>1, <1>10, <2>2 DEF macRestart
<1>11. CASE UNCHANGED vars
  BY <1>1, <1>2, <1>11 DEF vars, macVars, peerVars, wires
<1>12. QED
  BY <1>3, <1>4, <1>5, <1>6, <1>7, <1>8, <1>9, <1>10, <1>11 DEF Next

(* Neither side ever stores a key that no AUTH was accepted for, however   *)
(* pairings are given up, repeated, interrupted by restarts or forgotten.  *)
THEOREM NoKeyFiledUnproven == Spec => []NothingFiledUnproven
<1>1. Spec => [](TypeInv /\ ProofInv)
  BY TypeInit, TypeStep, ProofInit, ProofStep, PTL DEF Spec
<1>2. ProofInv => NothingFiledUnproven
  BY DEF ProofInv, PCsProven, DevicesProven, KeysIn, Proven, NothingFiledUnproven, KeysOf
<1>3. QED
  BY <1>1, <1>2, PTL

-----------------------------------------------------------------------------
(* The PC and the Mac agree.                                               *)

(* The frames of a connection that have not been read. *)
OnWay(q, c) == {q[c][i] : i \in 1..Len(q[c])}

(* A PC has a connection of its own, and one that was not opened is quiet. *)
ConnInv ==
  /\ \A c \in Conn : c > opened => toMac[c] = <<>> /\ toWin[c] = <<>> /\ c \notin alive
  /\ \A w \in Clients : snd[w].conn <= opened /\ (snd[w].conn = 0 <=> snd[w].pc = "idle")
  /\ \A v \in Clients, w \in Clients : snd[v].conn = snd[w].conn /\ snd[w].conn # 0 => v = w

(* The Mac knows the PC on a connection not given up by the id it has now. *)
HelloInv ==
  \A w \in Clients :
    snd[w].conn # 0 =>
      /\ \A m \in OnWay(toMac, snd[w].conn) : m.t = "HELLO" => m.id = store[w].id
      /\ phase[snd[w].conn] \in {"pairOrAuth", "authenticated"} => peerID[snd[w].conn] = store[w].id

LookupIn(keys, s) == IF keys[s] # 0 THEN keys[s] ELSE keys[0]

Accepted(c) == phase[c] \in {"authenticated", "closed"}

(* An AUTH_OK names the key the Mac took the connection with.              *)
AckInv ==
  \A c \in Conn : \A m \in OnWay(toWin, c) :
    /\ m.t = "PAIR_RESPONSE" => m.key # 0
    /\ m.t = "AUTH_OK" => m.key = peerKey[c] /\ Accepted(c)

(* What the PC proves is what it has, or will have, filed.                 *)
KeyInv ==
  \A w \in Clients :
    /\ snd[w].pc = "pair" => snd[w].typed # 0
    /\ snd[w].pc = "auth" => /\ snd[w].key # 0
                             /\ snd[w].typed = 0 => snd[w].key = Lookup(w, snd[w].server)
    /\ snd[w].pc = "up"   => /\ Lookup(w, snd[w].server) = peerKey[snd[w].conn]
                             /\ Accepted(snd[w].conn)

(* The key of a connection is the one in the file from where the Mac took  *)
(* it from there, or put it there, on.                                     *)
Filed(c) == (phase[c] = "pairOrAuth" /\ ~pending[c]) \/ phase[c] = "authenticated"
Excused  == late \cup {0 : f \in 1..forgets}
FileInv  ==
  \A w \in Clients :
    snd[w].conn # 0 /\ Filed(snd[w].conn) =>
      devices.keys[store[w].id] \in {peerKey[snd[w].conn]} \cup Excused

AgreeInv == ConnInv /\ HelloInv /\ AckInv /\ KeyInv /\ FileInv

LEMMA AgreeInit == Init => AgreeInv
<1> SUFFICES ASSUME Init PROVE AgreeInv
  OBVIOUS
<1>1. \A w \in Clients : snd[w].conn = 0 /\ snd[w].pc = "idle"
  BY DEF Init, Idle
<1>2. ConnInv
  BY <1>1 DEF Init, ConnInv
<1>3. HelloInv /\ FileInv /\ KeyInv
  BY <1>1 DEF HelloInv, FileInv, KeyInv
<1>4. AckInv
  BY DEF Init, AckInv, OnWay
<1>5. QED
  BY <1>2, <1>3, <1>4 DEF AgreeInv

(* What sending, reading and closing do to the frames on their way.        *)
LEMMA Passing ==
  ASSUME NEW S, NEW q \in [Conn -> Seq(S)], NEW c \in Conn
  PROVE  /\ \A m \in S, d \in Conn : \A n \in OnWay(Push(q, c, m), d) : n \in OnWay(q, d) \/ n = m
         /\ q[c] # <<>> => /\ Head(q[c]) \in OnWay(q, c)
                           /\ \A d \in Conn : OnWay(Consume(q, c), d) \subseteq OnWay(q, d)
         /\ \A d \in Conn : OnWay([q EXCEPT ![c] = <<>>], d) \subseteq OnWay(q, d)
         /\ \A cs : \A d \in Conn : OnWay(On(q, cs, <<>>), d) \subseteq OnWay(q, d)
<1>1. \A s \in Seq(S), m \in S : \A i \in 1..Len(Append(s, m)) :
        (i \in 1..Len(s) /\ Append(s, m)[i] = s[i]) \/ Append(s, m)[i] = m
  OBVIOUS
<1>2. \A s \in Seq(S) : s # <<>> => /\ 1 \in 1..Len(s) /\ Head(s) = s[1]
                                    /\ \A i \in 1..Len(Tail(s)) : i + 1 \in 1..Len(s) /\ Tail(s)[i] = s[i + 1]
  OBVIOUS
<1>3. q[c] \in Seq(S)
  OBVIOUS
<1>4. ASSUME NEW m \in S, NEW d \in Conn
      PROVE  \A n \in OnWay(Push(q, c, m), d) : n \in OnWay(q, d) \/ n = m
  BY <1>1, <1>3 DEF OnWay, Push
<1>5. ASSUME q[c] # <<>>, NEW d \in Conn
      PROVE  Head(q[c]) \in OnWay(q, c) /\ OnWay(Consume(q, c), d) \subseteq OnWay(q, d)
  <2>1. Head(q[c]) \in OnWay(q, c)
    BY <1>2, <1>3, <1>5 DEF OnWay
  <2>2. CASE d = c
    <3>1. Consume(q, c)[d] = Tail(q[c])
      BY <2>2 DEF Consume
    <3>2. QED
      BY <1>2, <1>3, <1>5, <2>1, <2>2, <3>1 DEF OnWay
  <2>3. CASE d # c
    BY <2>1, <2>3 DEF OnWay, Consume
  <2>4. QED
    BY <2>2, <2>3
<1>6. \A d \in Conn : OnWay([q EXCEPT ![c] = <<>>], d) \subseteq OnWay(q, d)
  BY DEF OnWay
<1>7. \A cs : \A d \in Conn : OnWay(On(q, cs, <<>>), d) \subseteq OnWay(q, d)
  BY DEF OnWay, On
<1>8. QED
  BY <1>4, <1>5, <1>6, <1>7

LEMMA PassingHere ==
  ASSUME TypeOK, NEW c \in Conn
  PROVE  /\ \A m \in MacFrame, d \in Conn : \A n \in OnWay(Push(toMac, c, m), d) : n \in OnWay(toMac, d) \/ n = m
         /\ \A m \in WinFrame, d \in Conn : \A n \in OnWay(Push(toWin, c, m), d) : n \in OnWay(toWin, d) \/ n = m
         /\ toMac[c] # <<>> => /\ Head(toMac[c]) \in OnWay(toMac, c)
                               /\ \A d \in Conn : OnWay(Consume(toMac, c), d) \subseteq OnWay(toMac, d)
         /\ toWin[c] # <<>> => /\ Head(toWin[c]) \in OnWay(toWin, c)
                               /\ \A d \in Conn : OnWay(Consume(toWin, c), d) \subseteq OnWay(toWin, d)
         /\ \A d \in Conn : OnWay([toWin EXCEPT ![c] = <<>>], d) \subseteq OnWay(toWin, d)
         /\ \A cs : \A d \in Conn : OnWay(On(toMac, cs, <<>>), d) \subseteq OnWay(toMac, d)
<1>1. toMac \in [Conn -> Seq(MacFrame)] /\ toWin \in [Conn -> Seq(WinFrame)]
  BY DEF TypeOK
<1>2. QED
  BY <1>1, Passing

(* Who has a connection, and on which it may read and send.                *)
LEMMA HasConn ==
  ASSUME TypeOK, AgreeInv, NEW w \in Clients, snd[w].conn # 0
  PROVE  snd[w].conn \in Conn /\ snd[w].conn <= opened /\ opened \in Nat
BY SessionAssumption DEF TypeOK, Handshake, Conn, AgreeInv, ConnInv

(* A PC opens a connection nobody has used.                                *)
LEMMA ConnectAgrees ==
  ASSUME TypeOK, AgreeInv, NEW w \in Clients, NEW typed, connect(w, typed)
  PROVE  AgreeInv'
<1>0. PICK c : c = opened + 1
  OBVIOUS
<1>1. /\ c \in Conn /\ c # 0 /\ opened \in Nat /\ opened' = c /\ c > opened
      /\ \A d \in Conn : d \in Nat
  BY <1>0, SessionAssumption DEF connect, TypeOK, Conn
<1>2. /\ snd[w].pc = "idle"
      /\ \A v \in Clients : snd'[v] = IF v = w THEN [Idle EXCEPT !.pc = "hello", !.conn = c, !.typed = typed] ELSE snd[v]
      /\ \A d \in Conn : /\ toMac'[d] = IF d = c THEN <<HELLO(store[w].id)>> ELSE toMac[d]
                         /\ phase'[d] = IF d = c THEN "hello" ELSE phase[d]
      /\ alive' = alive \cup {c}
      /\ UNCHANGED <<store, peerID, peerKey, pending, devices, late, toWin, forgets>>
  BY <1>0, <1>1 DEF connect, TypeOK
<1>3. snd'[w].pc = "hello" /\ snd'[w].conn = c
  BY <1>2 DEF Idle
<1>4. \A v \in Clients : v # w => snd'[v] = snd[v] /\ snd'[v].conn # c /\ snd[v].conn <= opened
                                  /\ (snd[v].conn # 0 => snd[v].conn \in Conn)
  BY <1>1, <1>2, HasConn DEF AgreeInv, ConnInv
<1>5. ConnInv'
  <2>1. ASSUME NEW d \in Conn, d > opened'
        PROVE  toMac'[d] = <<>> /\ toWin'[d] = <<>> /\ d \notin alive'
    <3>1. d # c /\ d > opened
      BY <1>0, <1>1, <2>1
    <3>2. QED
      BY <1>2, <2>1, <3>1 DEF AgreeInv, ConnInv
  <2>2. ASSUME NEW v \in Clients
        PROVE  snd'[v].conn <= opened' /\ (snd'[v].conn = 0 <=> snd'[v].pc = "idle")
    <3>1. CASE v = w
      BY <1>1, <1>3, <3>1
    <3>2. CASE v # w
      <4>1. snd[v].conn \in Nat
        BY SessionAssumption DEF TypeOK, Handshake
      <4>2. QED
        BY <1>0, <1>1, <1>4, <3>2, <4>1 DEF AgreeInv, ConnInv
    <3>3. QED
      BY <3>1, <3>2
  <2>3. ASSUME NEW v \in Clients, NEW u \in Clients, snd'[v].conn = snd'[u].conn, snd'[u].conn # 0
        PROVE  v = u
    BY <1>3, <1>4, <2>3 DEF AgreeInv, ConnInv
  <2>4. QED
    BY <2>1, <2>2, <2>3 DEF ConnInv
<1>6. HelloInv'
  <2>1. OnWay(toMac', c) = {HELLO(store[w].id)}
    <3>1. toMac'[c] = <<HELLO(store[w].id)>>
      BY <1>1, <1>2
    <3>2. QED
      BY <3>1 DEF OnWay
  <2>2. \A d \in Conn : d # c => OnWay(toMac', d) = OnWay(toMac, d)
    BY <1>2 DEF OnWay
  <2>3. HELLO(store[w].id).id = store[w].id /\ phase'[c] = "hello"
    BY <1>1, <1>2 DEF HELLO
  <2>4. ASSUME NEW v \in Clients, snd'[v].conn # 0
        PROVE  /\ \A m \in OnWay(toMac', snd'[v].conn) : m.t = "HELLO" => m.id = store'[v].id
               /\ phase'[snd'[v].conn] \in {"pairOrAuth", "authenticated"} => peerID'[snd'[v].conn] = store'[v].id
    <3>1. CASE v = w
      BY <1>2, <1>3, <2>1, <2>3, <3>1
    <3>2. CASE v # w
      BY <1>2, <1>4, <2>2, <2>4, <3>2 DEF AgreeInv, HelloInv
    <3>3. QED
      BY <3>1, <3>2
  <2>5. QED
    BY <2>4 DEF HelloInv, OnWay
<1>7. AckInv'
  <2>1. toWin[c] = <<>>
    BY <1>1 DEF AgreeInv, ConnInv
  <2>2. QED
    BY <1>1, <1>2, <2>1 DEF AgreeInv, AckInv, OnWay, Accepted
<1>8. KeyInv' /\ FileInv'
  <2>1. ASSUME NEW v \in Clients, v # w
        PROVE  /\ snd[v].conn # 0 => phase'[snd[v].conn] = phase[snd[v].conn]
               /\ Lookup(v, snd[v].server)' = Lookup(v, snd[v].server)
    BY <1>2, <1>4, <2>1 DEF Lookup
  <2>2. KeyInv'
    BY <1>2, <1>3, <1>4, <2>1 DEF AgreeInv, KeyInv, ConnInv, Accepted, Lookup
  <2>3. FileInv'
    <3>1. ~Filed(c)'
      BY <1>1, <1>2 DEF Filed
    <3>2. QED
      BY <1>2, <1>3, <1>4, <2>1, <3>1 DEF AgreeInv, FileInv, Filed, Excused
  <2>4. QED
    BY <2>2, <2>3
<1>9. QED
  BY <1>5, <1>6, <1>7, <1>8 DEF AgreeInv

(* A PC reads a frame of the Mac, and answers perhaps.                     *)
LEMMA Reading ==
  ASSUME TypeOK, AgreeInv, NEW w \in Clients, snd[w].conn # 0, toWin[snd[w].conn] # <<>>,
         toWin' = Consume(toWin, snd[w].conn),
         \/ toMac' = toMac
         \/ \E m \in MacFrame : m.t # "HELLO" /\ toMac' = Push(toMac, snd[w].conn, m),
         \A v \in Clients : v # w => snd'[v] = snd[v],
         snd'[w].conn = snd[w].conn, snd'[w].pc # "idle",
         \A v \in Clients : store'[v].id = store[v].id,
         UNCHANGED <<macVars, alive, opened, forgets>>
  PROVE  ConnInv' /\ HelloInv' /\ AckInv' /\ FileInv'
<1> DEFINE c == snd[w].conn
<1>1. c \in Conn /\ c <= opened /\ opened \in Nat /\ \A d \in Conn : d \in Nat
  BY HasConn DEF Conn
<1>2. \A d \in Conn : OnWay(toWin', d) \subseteq OnWay(toWin, d)
  BY <1>1, PassingHere
<1>3. \A d \in Conn : \A m \in OnWay(toMac', d) : m \in OnWay(toMac, d) \/ m.t # "HELLO"
  BY <1>1, PassingHere
<1>4. \A d \in Conn : d # c => toWin'[d] = toWin[d] /\ toMac'[d] = toMac[d]
  BY <1>1 DEF TypeOK, Consume, Push
<1>5. \A v \in Clients : snd'[v].conn = snd[v].conn /\ (snd'[v].conn = 0 <=> snd'[v].pc = "idle")
  BY DEF AgreeInv, ConnInv
<1>6. \A v \in Clients : snd[v].conn # 0 => snd[v].conn \in Conn
  BY HasConn
<1> HIDE DEF c
<1>7. ConnInv'
  <2>1. ASSUME NEW d \in Conn, d > opened PROVE d # c
    BY <1>1, <2>1
  <2>2. QED
    BY <1>4, <1>5, <2>1 DEF AgreeInv, ConnInv
<1>8. HelloInv'
  <2>1. \A v \in Clients : snd[v].conn # 0 =>
          /\ \A m \in OnWay(toMac', snd[v].conn) : m.t = "HELLO" => m.id = store[v].id
          /\ phase[snd[v].conn] \in {"pairOrAuth", "authenticated"} => peerID[snd[v].conn] = store[v].id
    BY <1>3, <1>6 DEF AgreeInv, HelloInv
  <2>2. UNCHANGED <<phase, peerID>>
    BY DEF macVars, peerVars
  <2>3. QED
    BY <1>5, <2>1, <2>2 DEF HelloInv, OnWay
<1>9. AckInv'
  <2>1. \A d \in Conn : \A m \in OnWay(toWin', d) :
          (m.t = "PAIR_RESPONSE" => m.key # 0) /\ (m.t = "AUTH_OK" => m.key = peerKey[d] /\ Accepted(d))
    BY <1>2 DEF AgreeInv, AckInv
  <2>2. UNCHANGED <<phase, peerKey>>
    BY DEF macVars, peerVars
  <2>3. QED
    BY <2>1, <2>2 DEF AckInv, OnWay, Accepted
<1>10. FileInv'
  BY <1>5 DEF AgreeInv, FileInv, Filed, Excused, macVars, peerVars
<1>11. QED
  BY <1>7, <1>8, <1>9, <1>10

(* Where the other PCs are left alone, what they prove is still right.     *)
LEMMA OtherKeys ==
  ASSUME AgreeInv, NEW w \in Clients, UNCHANGED macVars,
         \A v \in Clients : v # w => snd'[v] = snd[v] /\ store'[v] = store[v],
         snd'[w].pc = "pair" => snd'[w].typed # 0,
         snd'[w].pc = "auth" => /\ snd'[w].key # 0
                                /\ snd'[w].typed = 0 => snd'[w].key = LookupIn(store'[w].keys, snd'[w].server),
         snd'[w].pc = "up" => LookupIn(store'[w].keys, snd'[w].server) = peerKey[snd'[w].conn] /\ Accepted(snd'[w].conn)
  PROVE  KeyInv'
<1>1. UNCHANGED <<phase, peerKey>>
  BY DEF macVars, peerVars
<1>2. ASSUME NEW v \in Clients, v # w
      PROVE  /\ snd'[v].pc = "pair" => snd'[v].typed # 0
             /\ snd'[v].pc = "auth" => /\ snd'[v].key # 0
                                       /\ snd'[v].typed = 0 => snd'[v].key = LookupIn(store'[v].keys, snd'[v].server)
             /\ snd'[v].pc = "up" => LookupIn(store'[v].keys, snd'[v].server) = peerKey[snd'[v].conn] /\ Accepted(snd'[v].conn)
  BY <1>2 DEF AgreeInv, KeyInv, Lookup, LookupIn
<1>3. \A v \in Clients :
        /\ snd'[v].pc = "pair" => snd'[v].typed # 0
        /\ snd'[v].pc = "auth" => /\ snd'[v].key # 0
                                  /\ snd'[v].typed = 0 => snd'[v].key = LookupIn(store'[v].keys, snd'[v].server)
        /\ snd'[v].pc = "up" => LookupIn(store'[v].keys, snd'[v].server) = peerKey[snd'[v].conn]
                                /\ Accepted(snd'[v].conn)
  BY <1>2
<1>4. QED
  BY <1>1, <1>3 DEF KeyInv, Accepted, Lookup, LookupIn

LEMMA ReadingAgrees ==
  ASSUME TypeOK, AgreeInv, NEW w \in Clients, hello_ack(w) \/ pair_response(w) \/ auth_ok(w)
  PROVE  AgreeInv'
<1> DEFINE c == snd[w].conn
           m == Head(toWin[c])
<1>1. /\ c # 0 /\ toWin[c] # <<>> /\ toWin' = Consume(toWin, c)
      /\ UNCHANGED <<macVars, alive, opened, forgets>>
  BY DEF hello_ack, pair_response, auth_ok, Reads
<1>2. /\ c \in Conn /\ m \in OnWay(toWin, c) /\ m \in WinFrame
  BY <1>1, HasConn, PassingHere, ReadsFrame DEF hello_ack, pair_response, auth_ok
<1>3. /\ m.t = "PAIR_RESPONSE" => m.key # 0 /\ m.key \in Key
      /\ m.t = "AUTH_OK" => m.key = peerKey[c] /\ Accepted(c)
      /\ m.t = "HELLO_ACK" => m.server \in Index
  BY <1>2, Frames DEF AgreeInv, AckInv
<1>4. snd[w] \in Handshake /\ store[w] \in KeyFile /\ snd[w].pc # "idle"
  BY <1>1 DEF TypeOK, AgreeInv, ConnInv
<1>5. \A s \in Index : store[w].keys[s] \in Key /\ Lookup(w, s) \in Key
  BY <1>4, Sets DEF KeyFile, Lookup
<1> HIDE DEF m
<1>6. CASE hello_ack(w)
  <2>1. m.t = "HELLO_ACK" /\ store' = store
    BY <1>6 DEF hello_ack, Reads, m
  <2>2. \/ /\ snd[w].typed = 0 /\ Lookup(w, m.server) # 0
           /\ snd' = [snd EXCEPT ![w].pc = "auth", ![w].key = Lookup(w, m.server), ![w].server = m.server]
           /\ toMac' = Push(toMac, c, AUTH(Lookup(w, m.server)))
        \/ /\ snd[w].typed # 0
           /\ snd' = [snd EXCEPT ![w].pc = "pair", ![w].server = m.server]
           /\ toMac' = Push(toMac, c, PAIR_REQUEST(snd[w].typed))
    BY <1>6 DEF hello_ack, m
  <2>3. /\ AUTH(Lookup(w, m.server)) \in MacFrame /\ AUTH(Lookup(w, m.server)).t # "HELLO"
        /\ PAIR_REQUEST(snd[w].typed) \in MacFrame /\ PAIR_REQUEST(snd[w].typed).t # "HELLO"
    <3>1. AUTH(Lookup(w, m.server)) \in MacFrame /\ PAIR_REQUEST(snd[w].typed) \in MacFrame
      BY <1>3, <1>4, <1>5, <2>1, MadeFrames DEF Handshake
    <3>2. QED
      BY <3>1 DEF AUTH, PAIR_REQUEST
  <2>4. \A v \in Clients : v # w => snd'[v] = snd[v]
    BY <2>2 DEF TypeOK
  <2>5. /\ snd'[w].conn = c
        /\ \/ /\ snd'[w].pc = "auth" /\ snd'[w].key = Lookup(w, m.server) /\ snd'[w].server = m.server
              /\ Lookup(w, m.server) # 0
           \/ snd'[w].pc = "pair" /\ snd'[w].typed # 0
    BY <1>4, <2>2 DEF TypeOK, Handshake
  <2>6. KeyInv'
    <3>1. snd'[w].pc = "auth" => snd'[w].key = LookupIn(store'[w].keys, snd'[w].server) /\ snd'[w].key # 0
      BY <2>1, <2>5 DEF Lookup, LookupIn
    <3>2. QED
      BY <1>1, <2>1, <2>4, <2>5, <3>1, OtherKeys
  <2>7. ConnInv' /\ HelloInv' /\ AckInv' /\ FileInv'
    BY <1>1, <2>1, <2>2, <2>3, <2>4, <2>5, Reading
  <2>8. QED
    BY <2>6, <2>7 DEF AgreeInv
<1>7. CASE pair_response(w)
  <2>1. /\ m.t = "PAIR_RESPONSE" /\ store' = store /\ snd[w].pc = "pair" /\ toMac' = Push(toMac, c, AUTH(m.key))
        /\ snd' = [snd EXCEPT ![w].pc = "auth", ![w].key = m.key]
    BY <1>7 DEF pair_response, Reads, m
  <2>2. AUTH(m.key) \in MacFrame /\ AUTH(m.key).t # "HELLO"
    <3>1. AUTH(m.key) \in MacFrame
      BY <1>3, <2>1, MadeFrames
    <3>2. QED
      BY <3>1 DEF AUTH
  <2>3. /\ \A v \in Clients : v # w => snd'[v] = snd[v]
        /\ snd'[w].conn = c /\ snd'[w].pc = "auth" /\ snd'[w].key = m.key /\ snd'[w].typed = snd[w].typed
    BY <1>4, <2>1 DEF TypeOK, Handshake
  <2>4. snd[w].typed # 0
    BY <2>1 DEF AgreeInv, KeyInv
  <2>5. KeyInv'
    BY <1>1, <1>3, <2>1, <2>3, <2>4, OtherKeys
  <2>6. ConnInv' /\ HelloInv' /\ AckInv' /\ FileInv'
    BY <1>1, <2>1, <2>2, <2>3, Reading
  <2>7. QED
    BY <2>5, <2>6 DEF AgreeInv
<1>8. CASE auth_ok(w)
  <2>1. /\ m.t = "AUTH_OK" /\ toMac' = toMac /\ snd[w].pc = "auth" /\ m.key = snd[w].key
        /\ snd' = [snd EXCEPT ![w].pc = "up", ![w].typed = 0, ![w].key = 0]
        /\ IF NeedsFiling(w) THEN store' = [store EXCEPT ![w].keys[snd[w].server] = snd[w].key]
           ELSE store' = store
    BY <1>8 DEF auth_ok, Reads, m
  <2>2. /\ \A v \in Clients : v # w => snd'[v] = snd[v]
        /\ snd'[w].conn = c /\ snd'[w].pc = "up" /\ snd'[w].server = snd[w].server
    BY <1>4, <2>1 DEF TypeOK, Handshake
  <2>3. /\ \A v \in Clients : v # w => store'[v] = store[v]
        /\ \A v \in Clients : store'[v].id = store[v].id
    <3>1. store \in [Clients -> KeyFile]
      BY DEF TypeOK
    <3>2. store' = [store EXCEPT ![w].keys[snd[w].server] = snd[w].key] \/ store' = store
      BY <2>1
    <3>3. QED
      BY <3>1, <3>2 DEF KeyFile
  <2>4. snd[w].key # 0 /\ (snd[w].typed = 0 => snd[w].key = Lookup(w, snd[w].server)) /\ snd[w].server \in Index
    BY <1>4, <2>1 DEF AgreeInv, KeyInv, Handshake
  <2>5. store'[w].keys[snd[w].server] = snd[w].key
    <3>1. CASE NeedsFiling(w)
      BY <1>4, <2>1, <2>4, <3>1 DEF TypeOK, KeyFile
    <3>2. CASE ~NeedsFiling(w)
      BY <2>1, <2>4, <3>2 DEF NeedsFiling, Lookup
    <3>3. QED
      BY <3>1, <3>2
  <2>6. LookupIn(store'[w].keys, snd'[w].server) = peerKey[c] /\ Accepted(c)
    BY <1>3, <2>1, <2>2, <2>4, <2>5 DEF LookupIn
  <2>7. KeyInv'
    BY <1>1, <2>2, <2>3, <2>6, OtherKeys
  <2>8. ConnInv' /\ HelloInv' /\ AckInv' /\ FileInv'
    BY <1>1, <2>1, <2>2, <2>3, Reading
  <2>9. QED
    BY <2>7, <2>8 DEF AgreeInv
<1>9. QED
  BY <1>6, <1>7, <1>8

(* A PC gives its connection up, and its keys may go.                      *)
LEMMA LeavingAgrees ==
  ASSUME TypeOK, AgreeInv, NEW w \in Clients, auth_rejected(w) \/ close(w) \/ restart(w)
  PROVE  AgreeInv'
<1>1. UNCHANGED <<macVars, opened, forgets>> /\ \A v \in Clients : v # w => store'[v] = store[v]
  BY DEF auth_rejected, close, restart, TypeOK
<1>2. snd'[w].conn = 0 /\ snd'[w].pc = "idle" /\ \A v \in Clients : v # w => snd'[v] = snd[v]
  <2>1. CASE HangUp(w)
    BY <2>1 DEF HangUp, Idle, TypeOK
  <2>2. CASE snd[w].conn = 0 /\ snd' = snd
    BY <2>2 DEF AgreeInv, ConnInv
  <2>3. QED
    BY <2>1, <2>2 DEF auth_rejected, close, restart
<1>3. /\ alive' \subseteq alive
      /\ \A d \in Conn : /\ OnWay(toWin', d) \subseteq OnWay(toWin, d)
                         /\ \A m \in OnWay(toMac', d) : m \in OnWay(toMac, d) \/ m.t # "HELLO"
                         /\ d > opened => toMac'[d] = toMac[d] /\ toWin'[d] = toWin[d]
  <2>1. CASE HangUp(w) /\ snd[w].conn # 0
    <3>1. snd[w].conn \in Conn /\ snd[w].conn <= opened /\ opened \in Nat
      BY <2>1, HasConn
    <3>2. END \in MacFrame /\ END.t # "HELLO"
      BY MadeFrames DEF END
    <3>3. /\ toMac' = Push(toMac, snd[w].conn, END) /\ toWin' = [toWin EXCEPT ![snd[w].conn] = <<>>]
          /\ alive' \subseteq alive
      BY <2>1 DEF HangUp
    <3>4. \A d \in Conn : /\ OnWay(toWin', d) \subseteq OnWay(toWin, d)
                          /\ \A m \in OnWay(toMac', d) : m \in OnWay(toMac, d) \/ m.t # "HELLO"
      BY <3>1, <3>2, <3>3, PassingHere
    <3>5. ASSUME NEW d \in Conn, d > opened PROVE toMac'[d] = toMac[d] /\ toWin'[d] = toWin[d]
      <4>1. d # snd[w].conn
        BY <3>1, <3>5 DEF Conn
      <4>2. QED
        BY <3>3, <4>1 DEF TypeOK, Push
    <3>6. QED
      BY <3>3, <3>4, <3>5
  <2>2. CASE UNCHANGED wires
    BY <2>2 DEF wires, OnWay
  <2>3. QED
    BY <2>1, <2>2, ReadsFrame, Sets DEF auth_rejected, close, restart
<1>4. \A v \in Clients : v # w /\ snd[v].conn # 0 => snd[v].conn \in Conn
  BY HasConn
<1>5. UNCHANGED <<phase, peerID, peerKey, pending, devices, late>>
  BY <1>1 DEF macVars, peerVars
<1>6. ConnInv'
  <2>1. opened \in Nat /\ opened' = opened
    BY <1>1, SessionAssumption DEF TypeOK
  <2>2. \A d \in Conn : d > opened' => toMac'[d] = <<>> /\ toWin'[d] = <<>> /\ d \notin alive'
    BY <1>3, <2>1 DEF AgreeInv, ConnInv
  <2>3. \A v \in Clients : snd'[v].conn <= opened' /\ (snd'[v].conn = 0 <=> snd'[v].pc = "idle")
    BY <1>2, <2>1 DEF AgreeInv, ConnInv
  <2>4. \A v \in Clients, u \in Clients : snd'[v].conn = snd'[u].conn /\ snd'[u].conn # 0 => v = u
    BY <1>2 DEF AgreeInv, ConnInv
  <2>5. QED
    BY <2>2, <2>3, <2>4 DEF ConnInv
<1>7. HelloInv'
  <2>1. ASSUME NEW v \in Clients, snd'[v].conn # 0
        PROVE  /\ \A m \in OnWay(toMac', snd'[v].conn) : m.t = "HELLO" => m.id = store'[v].id
               /\ phase[snd'[v].conn] \in {"pairOrAuth", "authenticated"} => peerID[snd'[v].conn] = store'[v].id
    BY <1>1, <1>2, <1>3, <1>4, <2>1 DEF AgreeInv, HelloInv
  <2>2. QED
    BY <1>5, <2>1 DEF HelloInv, OnWay
<1>8. AckInv'
  <2>1. \A d \in Conn : \A m \in OnWay(toWin', d) :
          (m.t = "PAIR_RESPONSE" => m.key # 0) /\ (m.t = "AUTH_OK" => m.key = peerKey[d] /\ Accepted(d))
    BY <1>3 DEF AgreeInv, AckInv
  <2>2. QED
    BY <1>5, <2>1 DEF AckInv, OnWay, Accepted
<1>9. KeyInv'
  BY <1>1, <1>2, OtherKeys
<1>10. FileInv'
  BY <1>1, <1>2, <1>5 DEF AgreeInv, FileInv, Filed, Excused
<1>11. QED
  BY <1>6, <1>7, <1>8, <1>9, <1>10 DEF AgreeInv

(* What the Mac does leaves a PC's connection its own.                     *)
LEMMA MacConns ==
  ASSUME AgreeInv, UNCHANGED <<pcVars, opened>>, alive' \subseteq alive,
         \A d \in Conn : toMac[d] = <<>> => toMac'[d] = <<>>,
         \A d \in Conn : d \notin alive => toWin'[d] = toWin[d]
  PROVE  ConnInv'
BY DEF AgreeInv, ConnInv, pcVars

(* A frame for the PC that is neither a key nor its acceptance.            *)
Plain(m) == m \in WinFrame /\ m.t \notin {"PAIR_RESPONSE", "AUTH_OK"}

(* The Mac closes some connections, after an ERROR perhaps; what is in its *)
(* file must still be right for those left.                                *)
LEMMA ClosingAgrees ==
  ASSUME TypeOK, AgreeInv, UNCHANGED <<pcVars, opened, peerID, peerKey>>,
         NEW cs \in SUBSET Conn, phase' = On(phase, cs, "closed"), toMac' = On(toMac, cs, <<>>),
         alive' = alive \ cs,
         toWin' = toWin \/ \E c \in Conn, m \in WinFrame : Plain(m) /\ toWin' = Push(toWin, c, m),
         \A w \in Clients : snd[w].conn # 0 /\ Filed(snd[w].conn)' =>
           /\ Filed(snd[w].conn)
           /\ \/ devices'.keys[store[w].id] = devices.keys[store[w].id]
              \/ devices'.keys[store[w].id] \in Excused',
         late \subseteq late', forgets \in Nat, forgets' \in Nat, forgets <= forgets'
  PROVE  AgreeInv'
<1>1. \A w \in Clients : snd[w].conn # 0 => snd[w].conn \in Conn
  BY HasConn
<1>2. /\ \A d \in Conn : phase'[d] \in {phase[d], "closed"} /\ OnWay(toMac', d) \subseteq OnWay(toMac, d)
      /\ \A d \in Conn : Accepted(d) => Accepted(d)'
  <2>1. \A d \in Conn : phase'[d] \in {phase[d], "closed"}
    BY DEF On
  <2>2. \A d \in Conn : OnWay(toMac', d) \subseteq OnWay(toMac, d)
    BY PassingHere
  <2>3. QED
    BY <2>1, <2>2 DEF Accepted
<1>3. \A d \in Conn : \A m \in OnWay(toWin', d) : m \in OnWay(toWin, d) \/ Plain(m)
  <2>1. CASE toWin' = toWin
    BY <2>1
  <2>2. ASSUME NEW c \in Conn, NEW n \in WinFrame, Plain(n), toWin' = Push(toWin, c, n)
        PROVE  \A d \in Conn : \A m \in OnWay(toWin', d) : m \in OnWay(toWin, d) \/ Plain(m)
    BY <2>2, PassingHere
  <2>3. QED
    BY <2>1, <2>2
<1>4. ConnInv'
  <2>1. \A d \in Conn : toMac[d] = <<>> => toMac'[d] = <<>>
    BY DEF On
  <2>2. \A d \in Conn : d \notin alive => toWin'[d] = toWin[d]
    BY DEF Push, TypeOK
  <2>3. QED
    BY <2>1, <2>2, MacConns
<1>5. HelloInv'
  <2>1. ASSUME NEW w \in Clients, snd[w].conn # 0
        PROVE  /\ \A m \in OnWay(toMac', snd[w].conn) : m.t = "HELLO" => m.id = store[w].id
               /\ phase'[snd[w].conn] \in {"pairOrAuth", "authenticated"} => peerID[snd[w].conn] = store[w].id
    BY <1>1, <1>2, <2>1 DEF AgreeInv, HelloInv
  <2>2. UNCHANGED <<snd, store, peerID>>
    BY DEF pcVars
  <2>3. QED
    BY <2>1, <2>2 DEF HelloInv, OnWay
<1>6. AckInv'
  <2>1. \A d \in Conn : \A m \in OnWay(toWin', d) :
          (m.t = "PAIR_RESPONSE" => m.key # 0) /\ (m.t = "AUTH_OK" => m.key = peerKey[d] /\ Accepted(d)')
    BY <1>2, <1>3 DEF AgreeInv, AckInv, Plain
  <2>2. QED
    BY <2>1 DEF AckInv, OnWay
<1>7. KeyInv'
  <2>1. UNCHANGED <<snd, store, peerKey>>
    BY DEF pcVars
  <2>2. \A w \in Clients : snd[w].pc = "up" => snd[w].conn \in Conn
    BY <1>1 DEF AgreeInv, ConnInv
  <2>3. QED
    BY <1>2, <2>1, <2>2 DEF AgreeInv, KeyInv, Lookup
<1>8. FileInv'
  <2>1. Excused \subseteq Excused'
    BY DEF Excused
  <2>2. UNCHANGED <<snd, store, peerKey>>
    BY DEF pcVars
  <2>3. ASSUME NEW w \in Clients, snd[w].conn # 0, Filed(snd[w].conn)'
        PROVE  devices'.keys[store[w].id] \in {peerKey[snd[w].conn]} \cup Excused'
    BY <2>1, <2>3 DEF AgreeInv, FileInv
  <2>4. QED
    BY <2>2, <2>3 DEF FileInv, Filed, Excused
<1>9. QED
  BY <1>4, <1>5, <1>6, <1>7, <1>8 DEF AgreeInv

(* The Mac hears the id and takes the key from its file.                   *)
LEMMA HelloAgrees ==
  ASSUME TypeOK, AgreeInv, NEW c \in Conn, handleHello(c)
  PROVE  AgreeInv'
<1> DEFINE id  == Head(toMac[c]).id
           ack == HELLO_ACK(devices.server, peerKey'[c] # 0, code # 0)
<1>1. /\ phase[c] = "hello" /\ toMac[c] # <<>> /\ Head(toMac[c]).t = "HELLO"
      /\ toMac' = Consume(toMac, c) /\ toWin' = Push(toWin, c, ack)
      /\ UNCHANGED <<pcVars, opened, alive, pending, devices, late, forgets>>
  BY DEF handleHello, Frame
<1>2. \A d \in Conn : /\ peerID'[d] = IF d = c THEN id ELSE peerID[d]
                      /\ peerKey'[d] = IF d = c THEN devices.keys[id] ELSE peerKey[d]
                      /\ phase'[d] = IF d = c THEN "pairOrAuth" ELSE phase[d]
  BY DEF handleHello, TypeOK
<1>3. ack \in WinFrame /\ ack.t = "HELLO_ACK"
  <2>1. devices.server \in Index
    BY DEF TypeOK, Devices
  <2>2. ack \in WinFrame
    BY <2>1, MadeFrames
  <2>3. QED
    BY <2>2 DEF HELLO_ACK
<1>4. Head(toMac[c]) \in OnWay(toMac, c) /\ \A d \in Conn : OnWay(toMac', d) \subseteq OnWay(toMac, d)
  BY <1>1, PassingHere
<1>5. \A w \in Clients : snd[w].conn = c /\ c # 0 => id = store[w].id
  BY <1>1, <1>4 DEF AgreeInv, HelloInv
<1> HIDE DEF id, ack
<1>6. \A d \in Conn : \A m \in OnWay(toWin', d) : m \in OnWay(toWin, d) \/ m = ack
  BY <1>1, <1>3, PassingHere
<1>7. \A w \in Clients : snd[w].conn # 0 => snd[w].conn \in Conn
  BY HasConn
<1>8. UNCHANGED <<snd, store>>
  BY <1>1 DEF pcVars
<1>9. ConnInv'
  <2>1. \A d \in Conn : toMac[d] = <<>> => toMac'[d] = <<>>
    BY <1>1 DEF Consume, TypeOK
  <2>2. \A d \in Conn : d \notin alive => toWin'[d] = toWin[d]
    BY <1>1 DEF Push, TypeOK
  <2>3. QED
    BY <1>1, <2>1, <2>2, MacConns
<1>10. HelloInv'
  <2>1. ASSUME NEW w \in Clients, snd[w].conn # 0
        PROVE  /\ \A m \in OnWay(toMac', snd[w].conn) : m.t = "HELLO" => m.id = store[w].id
               /\ phase'[snd[w].conn] \in {"pairOrAuth", "authenticated"} => peerID'[snd[w].conn] = store[w].id
    BY <1>2, <1>4, <1>5, <1>7, <2>1 DEF AgreeInv, HelloInv
  <2>2. QED
    BY <1>8, <2>1 DEF HelloInv, OnWay
<1>11. AckInv'
  <2>1. ASSUME NEW d \in Conn, NEW m \in OnWay(toWin', d)
        PROVE  (m.t = "PAIR_RESPONSE" => m.key # 0) /\ (m.t = "AUTH_OK" => m.key = peerKey'[d] /\ Accepted(d)')
    BY <1>1, <1>2, <1>3, <1>6, <2>1 DEF AgreeInv, AckInv, Accepted
  <2>2. QED
    BY <2>1 DEF AckInv, OnWay
<1>12. KeyInv'
  <2>1. \A w \in Clients : snd[w].pc = "up" => snd[w].conn \in Conn /\ snd[w].conn # c
    BY <1>1, <1>7 DEF AgreeInv, ConnInv, KeyInv, Accepted
  <2>2. QED
    BY <1>2, <1>8, <2>1 DEF AgreeInv, KeyInv, Lookup, Accepted
<1>13. FileInv'
  <2>1. ASSUME NEW w \in Clients, snd[w].conn # 0, Filed(snd[w].conn)'
        PROVE  devices.keys[store[w].id] \in {peerKey'[snd[w].conn]} \cup Excused
    <3>1. CASE snd[w].conn = c
      BY <1>2, <1>5, <2>1, <3>1
    <3>2. CASE snd[w].conn # c
      <4>1. Filed(snd[w].conn) /\ peerKey'[snd[w].conn] = peerKey[snd[w].conn]
        BY <1>1, <1>2, <1>7, <1>8, <2>1, <3>2 DEF Filed
      <4>2. QED
        BY <2>1, <4>1 DEF AgreeInv, FileInv
    <3>3. QED
      BY <3>1, <3>2
  <2>2. QED
    BY <1>1, <1>8, <2>1 DEF FileInv, Filed, Excused
<1>14. QED
  BY <1>9, <1>10, <1>11, <1>12, <1>13 DEF AgreeInv

LEMMA RefuseAgrees ==
  ASSUME TypeOK, AgreeInv, NEW c \in Conn, NEW e \in {"PAIRING_DISABLED", "BAD_PROOF"}, Refuse(c, e)
  PROVE  AgreeInv'
<1>1. /\ UNCHANGED <<pcVars, opened, peerID, peerKey, pending, devices, late, forgets>>
      /\ phase' = On(phase, {c}, "closed") /\ toMac' = On(toMac, {c}, <<>>) /\ alive' = alive \ {c}
      /\ toWin' = Push(toWin, c, ERROR(e))
  BY DEF Refuse, Close
<1>2. ERROR(e) \in WinFrame /\ Plain(ERROR(e))
  <2>1. ERROR(e) \in WinFrame
    BY MadeFrames
  <2>2. QED
    BY <2>1 DEF ERROR, Plain
<1>3. \A w \in Clients : snd[w].conn # 0 /\ Filed(snd[w].conn)' => Filed(snd[w].conn)
  <2>1. \A w \in Clients : snd[w].conn # 0 => snd[w].conn \in Conn
    BY HasConn
  <2>2. QED
    BY <1>1, <2>1 DEF Filed, On, pcVars
<1>4. forgets \in Nat
  BY SessionAssumption DEF TypeOK
<1>5. QED
  BY <1>1, <1>2, <1>3, <1>4, ClosingAgrees

(* A key that is new has yet to be filed.                                  *)
LEMMA PairingAgrees ==
  ASSUME TypeOK, AgreeInv, NEW c \in Conn, pair_request(c)
  PROVE  AgreeInv'
<1>1. CASE Refuse(c, "PAIRING_DISABLED") \/ Refuse(c, "BAD_PROOF")
  BY <1>1, RefuseAgrees
<1>2. CASE /\ peerKey' = [peerKey EXCEPT ![c] = c] /\ pending' = [pending EXCEPT ![c] = TRUE]
           /\ toMac' = Consume(toMac, c) /\ toWin' = Push(toWin, c, PAIR_RESPONSE(c))
           /\ UNCHANGED <<pcVars, phase, peerID, devices, late, alive, opened, forgets>>
  <2>1. phase[c] = "pairOrAuth" /\ toMac[c] # <<>>
    BY DEF pair_request, Frame
  <2>2. \A d \in Conn : /\ peerKey'[d] = IF d = c THEN c ELSE peerKey[d]
                        /\ pending'[d] = IF d = c THEN TRUE ELSE pending[d]
    BY <1>2 DEF TypeOK
  <2>3. PAIR_RESPONSE(c) \in WinFrame /\ PAIR_RESPONSE(c).t = "PAIR_RESPONSE" /\ PAIR_RESPONSE(c).key = c
    BY Sets, MadeFrames DEF PAIR_RESPONSE
  <2>4. \A d \in Conn : OnWay(toMac', d) \subseteq OnWay(toMac, d)
    BY <1>2, <2>1, PassingHere
  <2>5. \A d \in Conn : \A m \in OnWay(toWin', d) : m \in OnWay(toWin, d) \/ m = PAIR_RESPONSE(c)
    BY <1>2, <2>3, PassingHere
  <2>6. \A w \in Clients : snd[w].conn # 0 => snd[w].conn \in Conn
    BY HasConn
  <2>7. UNCHANGED <<snd, store, phase, peerID, devices, late, forgets>>
    BY <1>2 DEF pcVars
  <2>8. ConnInv'
    <3>1. \A d \in Conn : toMac[d] = <<>> => toMac'[d] = <<>>
      BY <1>2, <2>1 DEF Consume, TypeOK
    <3>2. \A d \in Conn : d \notin alive => toWin'[d] = toWin[d]
      BY <1>2 DEF Push, TypeOK
    <3>3. QED
      BY <1>2, <3>1, <3>2, MacConns
  <2>9. HelloInv'
    <3>1. ASSUME NEW w \in Clients, snd[w].conn # 0
          PROVE  /\ \A m \in OnWay(toMac', snd[w].conn) : m.t = "HELLO" => m.id = store[w].id
                 /\ phase[snd[w].conn] \in {"pairOrAuth", "authenticated"} => peerID[snd[w].conn] = store[w].id
      BY <2>4, <2>6, <3>1 DEF AgreeInv, HelloInv
    <3>2. QED
      BY <2>7, <3>1 DEF HelloInv, OnWay
  <2>10. AckInv'
    <3>1. ASSUME NEW d \in Conn, NEW m \in OnWay(toWin', d)
          PROVE  (m.t = "PAIR_RESPONSE" => m.key # 0) /\ (m.t = "AUTH_OK" => m.key = peerKey'[d] /\ Accepted(d))
      <4>1. CASE m \in OnWay(toWin, d)
        <5>1. /\ m.t = "PAIR_RESPONSE" => m.key # 0
              /\ m.t = "AUTH_OK" => m.key = peerKey[d] /\ Accepted(d)
          BY <4>1 DEF AgreeInv, AckInv
        <5>2. m.t = "AUTH_OK" => d # c
          BY <2>1, <5>1 DEF Accepted
        <5> QED
          BY <2>2, <5>1, <5>2
      <4>2. CASE m = PAIR_RESPONSE(c)
        BY <2>3, <4>2, Sets
      <4> QED
        BY <2>5, <4>1, <4>2
    <3>2. QED
      BY <2>7, <3>1 DEF AckInv, OnWay, Accepted
  <2>11. KeyInv'
    <3>1. \A w \in Clients : snd[w].pc = "up" => snd[w].conn \in Conn /\ snd[w].conn # c
      BY <2>1, <2>6 DEF AgreeInv, ConnInv, KeyInv, Accepted
    <3>2. QED
      BY <2>2, <2>7, <3>1 DEF AgreeInv, KeyInv, Lookup, Accepted
  <2>12. FileInv'
    <3>1. ASSUME NEW w \in Clients, snd[w].conn # 0, Filed(snd[w].conn)'
          PROVE  devices.keys[store[w].id] \in {peerKey'[snd[w].conn]} \cup Excused
      <4>1. Filed(snd[w].conn) /\ peerKey'[snd[w].conn] = peerKey[snd[w].conn]
        BY <2>1, <2>2, <2>6, <2>7, <3>1 DEF Filed
      <4>2. QED
        BY <3>1, <4>1 DEF AgreeInv, FileInv
    <3>2. QED
      BY <2>7, <3>1 DEF FileInv, Filed, Excused
  <2>13. QED
    BY <2>8, <2>9, <2>10, <2>11, <2>12 DEF AgreeInv
<1>3. QED
  BY <1>1, <1>2 DEF pair_request

(* Who commits a key for a PC: the PC on its connection, or nobody any     *)
(* more.                                                                   *)
LEMMA WhoCommits ==
  ASSUME TypeInv, AgreeInv, NEW w \in Clients, NEW c \in Conn, phase[c] = "pairOrAuth",
         snd[w].conn # c, peerID[c] = store[w].id
  PROVE  \A v \in Clients : snd[v].conn # c
<1> SUFFICES ASSUME NEW v \in Clients, snd[v].conn = c PROVE FALSE
  OBVIOUS
<1>1. c # 0
  BY Sets
<1>2. peerID[c] = store[v].id
  BY <1>1 DEF AgreeInv, HelloInv
<1>3. store[w].id \in {w} \X (0..faults) /\ store[v].id \in {v} \X (0..faults)
  BY DEF TypeInv, IdsKnown
<1>4. v = w
  BY <1>2, <1>3
<1>5. QED
  BY <1>4

LEMMA AcceptAgrees ==
  ASSUME TypeInv, AgreeInv, NEW c \in Conn, auth(c), ~Refuse(c, "BAD_PROOF")
  PROVE  AgreeInv'
<1>1. /\ phase[c] = "pairOrAuth" /\ toMac[c] # <<>> /\ Commit(c)
      /\ phase' = On([phase EXCEPT ![c] = "authenticated"], Replaced(c), "closed")
      /\ toMac' = On(Consume(toMac, c), Replaced(c), <<>>) /\ alive' = alive \ Replaced(c)
      /\ toWin' = Push(toWin, c, AUTH_OK(peerKey[c]))
      /\ UNCHANGED <<pcVars, peerID, peerKey, opened, forgets>>
  BY DEF auth, Frame
<1>2. TypeOK /\ \A w \in Clients : snd[w].conn # 0 => snd[w].conn \in Conn
  BY HasConn DEF TypeInv
<1>3. UNCHANGED <<snd, store, peerID, peerKey, forgets>>
  BY <1>1 DEF pcVars
<1>4. \A d \in Conn : /\ d # c => phase'[d] \in {phase[d], "closed"}
                      /\ phase'[d] = "pairOrAuth" => phase[d] = "pairOrAuth"
                      /\ Accepted(d) => Accepted(d)'
  BY <1>1, <1>2 DEF On, Accepted, TypeOK
<1>5. Accepted(c)'
  BY <1>1, <1>2 DEF On, Accepted, TypeOK
<1>6. \A d \in Conn : OnWay(toMac', d) \subseteq OnWay(toMac, d)
  <2>1. toMac \in [Conn -> Seq(MacFrame)]
    BY <1>2 DEF TypeOK
  <2>2. Consume(toMac, c) \in [Conn -> Seq(MacFrame)]
    BY <1>1, <2>1, Queues
  <2>3. \A d \in Conn : OnWay(Consume(toMac, c), d) \subseteq OnWay(toMac, d)
    BY <1>1, <1>2, PassingHere
  <2>4. \A d \in Conn : OnWay(toMac', d) \subseteq OnWay(Consume(toMac, c), d)
    BY <1>1, <2>2, Passing
  <2>5. QED
    BY <2>3, <2>4
<1>7. AUTH_OK(peerKey[c]) \in WinFrame /\ AUTH_OK(peerKey[c]).t = "AUTH_OK" /\ AUTH_OK(peerKey[c]).key = peerKey[c]
  <2>1. AUTH_OK(peerKey[c]) \in WinFrame
    BY <1>2, MadeFrames DEF TypeOK
  <2>2. QED
    BY <2>1 DEF AUTH_OK
<1>8. \A d \in Conn : \A m \in OnWay(toWin', d) : m \in OnWay(toWin, d) \/ (d = c /\ m = AUTH_OK(peerKey[c]))
  <2>1. \A d \in Conn : \A m \in OnWay(toWin', d) : m \in OnWay(toWin, d) \/ m = AUTH_OK(peerKey[c])
    BY <1>1, <1>2, <1>7, PassingHere
  <2>2. \A d \in Conn : d # c => toWin'[d] = toWin[d]
    BY <1>1, <1>2 DEF Push, TypeOK
  <2>3. QED
    BY <2>1, <2>2 DEF OnWay
<1>9. ConnInv'
  <2>1. \A d \in Conn : toMac[d] = <<>> => toMac'[d] = <<>>
    BY <1>1, <1>2 DEF Consume, On, TypeOK
  <2>2. \A d \in Conn : d \notin alive => toWin'[d] = toWin[d]
    BY <1>1, <1>2 DEF Push, TypeOK
  <2>3. QED
    BY <1>1, <2>1, <2>2, MacConns
<1>10. HelloInv'
  <2>1. ASSUME NEW w \in Clients, snd[w].conn # 0
        PROVE  /\ \A m \in OnWay(toMac', snd[w].conn) : m.t = "HELLO" => m.id = store[w].id
               /\ phase'[snd[w].conn] \in {"pairOrAuth", "authenticated"} => peerID[snd[w].conn] = store[w].id
    BY <1>1, <1>2, <1>4, <1>6, <2>1 DEF AgreeInv, HelloInv
  <2>2. QED
    BY <1>3, <2>1 DEF HelloInv, OnWay
<1>11. AckInv'
  <2>1. ASSUME NEW d \in Conn, NEW m \in OnWay(toWin', d)
        PROVE  (m.t = "PAIR_RESPONSE" => m.key # 0) /\ (m.t = "AUTH_OK" => m.key = peerKey[d] /\ Accepted(d)')
    BY <1>4, <1>5, <1>7, <1>8, <2>1 DEF AgreeInv, AckInv
  <2>2. QED
    BY <1>3, <2>1 DEF AckInv, OnWay
<1>12. KeyInv'
  <2>1. \A w \in Clients : snd[w].pc = "up" => snd[w].conn \in Conn
    BY <1>2 DEF AgreeInv, ConnInv
  <2>2. QED
    BY <1>3, <1>4, <2>1 DEF AgreeInv, KeyInv, Lookup
<1>13. FileInv'
  <2>1. ASSUME NEW w \in Clients, snd[w].conn # 0, Filed(snd[w].conn)'
        PROVE  devices'.keys[store[w].id] \in {peerKey[snd[w].conn]} \cup Excused'
    <3> DEFINE d == snd[w].conn
    <3>1. d \in Conn /\ store[w].id \in ID
      BY <1>2, <2>1 DEF TypeOK, KeyFile
    <3>2. Excused \subseteq Excused'
      BY <1>1 DEF Commit, Excused
    <3>3. CASE pending[c]
      <4>1. /\ devices' = [devices EXCEPT !.keys[peerID[c]] = peerKey[c]]
            /\ late' = IF \A v \in Clients : snd[v].conn # c THEN late \cup {peerKey[c]} ELSE late
            /\ pending' = [pending EXCEPT ![c] = FALSE]
        BY <1>1, <3>3 DEF Commit
      <4>2. devices'.keys[store[w].id] = IF peerID[c] = store[w].id THEN peerKey[c] ELSE devices.keys[store[w].id]
        BY <1>2, <3>1, <4>1 DEF TypeOK, Devices
      <4>3. CASE d = c
        <5>1. peerID[c] = store[w].id
          BY <1>1, <2>1, <4>3 DEF AgreeInv, HelloInv
        <5>2. QED
          BY <4>2, <4>3, <5>1
      <4>4. CASE d # c
        <5>1. Filed(d)
          BY <1>2, <1>3, <1>4, <2>1, <3>1, <4>1, <4>4 DEF Filed, TypeOK
        <5>2. devices.keys[store[w].id] \in {peerKey[d]} \cup Excused
          BY <2>1, <5>1 DEF AgreeInv, FileInv
        <5>3. peerID[c] = store[w].id => peerKey[c] \in late'
          BY <1>1, <4>1, <4>4, WhoCommits
        <5>4. QED
          BY <3>2, <4>2, <5>2, <5>3 DEF Excused
      <4>5. QED
        BY <4>3, <4>4
    <3>4. CASE ~pending[c]
      <4>1. devices' = devices /\ pending' = pending
        BY <1>1, <3>4 DEF Commit
      <4>2. Filed(d)
        <5>1. CASE d = c
          BY <1>1, <3>4, <5>1 DEF Filed
        <5>2. CASE d # c
          BY <1>2, <1>3, <1>4, <2>1, <3>1, <4>1, <5>2 DEF Filed
        <5>3. QED
          BY <5>1, <5>2
      <4>3. devices.keys[store[w].id] \in {peerKey[d]} \cup Excused
        BY <2>1, <4>2 DEF AgreeInv, FileInv
      <4>4. QED
        BY <3>2, <4>1, <4>3
    <3>5. QED
      BY <3>3, <3>4
  <2>2. QED
    BY <1>3, <2>1 DEF FileInv, Filed, Excused
<1>14. QED
  BY <1>9, <1>10, <1>11, <1>12, <1>13 DEF AgreeInv

LEMMA AgreeStep == TypeInv /\ AgreeInv /\ [Next]_vars => AgreeInv'
<1> SUFFICES ASSUME TypeInv, AgreeInv, [Next]_vars PROVE AgreeInv'
  OBVIOUS
<1>1. TypeOK /\ forgets \in Nat /\ \A w \in Clients : snd[w].conn # 0 => snd[w].conn \in Conn
  BY HasConn, SessionAssumption DEF TypeInv, TypeOK
<1>2. ASSUME UNCHANGED <<pcVars, opened, peerID, peerKey, pending, late, toWin>>,
             NEW cs \in SUBSET Conn, Close(cs),
             \/ UNCHANGED <<devices, forgets>>
             \/ forgets' = forgets + 1 /\ devices' = NoDevices(0)
             \/ UNCHANGED forgets /\ \A c \in Conn \ cs : phase[c] = "none"
      PROVE  AgreeInv'
  <2>1. phase' = On(phase, cs, "closed") /\ toMac' = On(toMac, cs, <<>>) /\ alive' = alive \ cs
    BY <1>2 DEF Close
  <2>2. ASSUME NEW w \in Clients, snd[w].conn # 0, Filed(snd[w].conn)'
        PROVE  /\ Filed(snd[w].conn)
               /\ \/ devices'.keys[store[w].id] = devices.keys[store[w].id]
                  \/ devices'.keys[store[w].id] \in Excused'
    <3>1. snd[w].conn \in Conn /\ snd[w].conn \notin cs /\ Filed(snd[w].conn) /\ phase[snd[w].conn] # "none"
      BY <1>1, <1>2, <2>1, <2>2 DEF Filed, On, pcVars
    <3>2. CASE UNCHANGED devices
      BY <3>1, <3>2
    <3>3. CASE forgets' = forgets + 1 /\ devices' = NoDevices(0)
      <4>1. store[w].id \in ID /\ 1 \in 1..forgets'
        BY <1>1, <3>3 DEF TypeOK, KeyFile
      <4>2. devices'.keys[store[w].id] = 0 /\ 0 \in Excused'
        BY <3>3, <4>1 DEF NoDevices, Excused
      <4>3. QED
        BY <3>1, <4>2
    <3>4. QED
      BY <1>2, <3>1, <3>2, <3>3
  <2>3. forgets' \in Nat /\ forgets <= forgets'
    BY <1>1, <1>2
  <2>4. QED
    BY <1>1, <1>2, <2>1, <2>2, <2>3, ClosingAgrees
<1>3. CASE \E w \in Clients : \E typed \in {0, codes} : connect(w, typed)
  BY <1>1, <1>3, ConnectAgrees
<1>4. CASE \E w \in Clients : \/ hello_ack(w) \/ pair_response(w) \/ auth_ok(w)
                              \/ auth_rejected(w) \/ close(w) \/ restart(w)
  BY <1>1, <1>4, ReadingAgrees, LeavingAgrees
<1>5. CASE \E c \in Conn : handleHello(c) \/ pair_request(c)
  BY <1>1, <1>5, HelloAgrees, PairingAgrees
<1>6. CASE \E c \in Conn : auth(c)
  BY <1>1, <1>6, AcceptAgrees, RefuseAgrees
<1>7. CASE (\E c \in Conn : end(c)) \/ watchdog \/ stopLocked \/ forgetAllDevices \/ macRestart
  <2>1. ASSUME NEW c \in Conn, end(c) PROVE AgreeInv'
    <3>1. {c} \in SUBSET Conn /\ Close({c})
      BY <2>1 DEF end
    <3>2. QED
      BY <1>2, <2>1, <3>1 DEF end, UnchangedByClose
  <2>2. CASE watchdog
    <3>1. {session} \in SUBSET Conn /\ Close({session})
      BY <1>1, <2>2, SessionAssumption DEF watchdog, TypeOK, Conn
    <3>2. QED
      BY <1>2, <2>2, <3>1 DEF watchdog, UnchangedByClose
  <2>3. CASE stopLocked
    <3> DEFINE cs == {c \in Conn : phase[c] \notin {"none", "closed"}}
    <3>1. cs \in SUBSET Conn /\ Close(cs)
      BY <2>3 DEF stopLocked
    <3> HIDE DEF cs
    <3>2. QED
      BY <1>2, <2>3, <3>1 DEF stopLocked, UnchangedByClose
  <2>4. CASE forgetAllDevices
    <3> DEFINE cs == {session} \ {0}
    <3>1. cs \in SUBSET Conn /\ Close(cs)
      BY <1>1, <2>4, SessionAssumption DEF forgetAllDevices, TypeOK, Conn
    <3> HIDE DEF cs
    <3>2. QED
      BY <1>2, <2>4, <3>1 DEF forgetAllDevices, UnchangedByClose
  <2>5. CASE macRestart
    <3> DEFINE cs == {c \in Conn : phase[c] # "none"}
    <3>1. cs \in SUBSET Conn /\ Close(cs) /\ \A c \in Conn \ cs : phase[c] = "none"
      BY <2>5 DEF macRestart
    <3> HIDE DEF cs
    <3>2. QED
      BY <1>2, <2>5, <3>1 DEF macRestart
  <2>6. QED
    BY <1>7, <2>1, <2>2, <2>3, <2>4, <2>5
<1>8. CASE beginPairing \/ cancelPairing \/ UNCHANGED vars
  <2>1. UNCHANGED <<pcVars, peerVars, devices, late, wires, opened, forgets>>
    BY <1>8 DEF beginPairing, cancelPairing, vars, macVars, peerVars
  <2>2. QED
    BY <2>1 DEF AgreeInv, ConnInv, HelloInv, AckInv, KeyInv, FileInv, OnWay, Accepted, Filed, Excused,
                Lookup, pcVars, peerVars, wires
<1>9. QED
  BY <1>3, <1>4, <1>5, <1>6, <1>7, <1>8 DEF Next

(* A PC in the session would be let in again without a code, whatever was  *)
(* given up, restarted or paired anew, unless the Mac was made to forget   *)
(* or accepted what the PC had given up.                                   *)
THEOREM AgreesInSession == Spec => []AgreeInSession
<1>1. Spec => [](TypeInv /\ SessionInv /\ AgreeInv)
  <2>1. TypeInv => TypeOK
    BY DEF TypeInv
  <2>2. QED
    BY <2>1, TypeInit, TypeStep, SessionInit, SessionStep, AgreeInit, AgreeStep, PTL DEF Spec
<1>2. TypeInv /\ SessionInv /\ AgreeInv => AgreeInSession
  <2> SUFFICES ASSUME TypeInv, SessionInv, AgreeInv, NEW w \in Clients,
                      snd[w].pc = "up", snd[w].conn = session
               PROVE  /\ Lookup(w, snd[w].server) = peerKey[snd[w].conn]
                      /\ devices.keys[store[w].id] \in {peerKey[snd[w].conn]} \cup Excused
    BY DEF AgreeInSession, Excused
  <2>1. session # 0
    BY DEF AgreeInv, ConnInv
  <2>2. phase[session] = "authenticated"
    BY <2>1 DEF SessionInv, OneSession
  <2>3. QED
    BY <2>1, <2>2 DEF AgreeInv, KeyInv, FileInv, Filed
<1>3. QED
  BY <1>1, <1>2, PTL

=============================================================================
