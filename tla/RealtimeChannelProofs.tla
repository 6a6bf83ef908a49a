------------------------ MODULE RealtimeChannelProofs ------------------------
(***************************************************************************)
(* Over UDP the pointer is where the mouse was, for every modulus, every   *)
(* number of sessions and any loss, duplication and reordering.            *)
(***************************************************************************)
EXTENDS RealtimeChannel, SequenceTheorems, TLAPS

Frame == Switch \cup Begin \cup End

(* What the sender puts on its ways, and what the receiver made of it.     *)
SenderInv ==
  /\ pc = "loaded" => up
  /\ up => session \in Session
  /\ udp => netq \in Seq(Switch) /\ tcp \in Seq(Frame)

(* Every datagram in flight is one the sender sent.                        *)
NetInv ==
  \A p \in net : /\ p.sequence \in 1..Len(sent[p.session])
                 /\ p.total = sent[p.session][p.sequence]

ReceiverInv ==
  /\ sessionID # 0 /\ ~needsBaseline =>
       /\ lastSequence \in 1..Len(sent[sessionID])
       /\ lastTotal = sent[sessionID][lastSequence]
  /\ udp /\ active /\ ~needsBaseline => moved = Delta(lastTotal, base)

IInv == TypeOK /\ SenderInv /\ NetInv /\ ReceiverInv

-----------------------------------------------------------------------------
(* Wrapping arithmetic.                                                    *)

LEMMA CountArithmetic ==
  ASSUME NEW a \in Count, NEW b \in Count
  PROVE  Plus(a, b) \in Count /\ Delta(a, b) \in Count
  BY RealtimeAssumption DEF Count, Plus, Delta

(* Differences add up, wherever the total wraps in between.                *)
LEMMA DeltasAddUp ==
  ASSUME NEW a \in Count, NEW b \in Count, NEW c \in Count
  PROVE  Plus(Delta(b, a), Delta(c, b)) = Delta(c, a)
  BY RealtimeAssumption DEF Count, Plus, Delta

LEMMA DeltaOfSame == \A a \in Count : Delta(a, a) = 0
  BY RealtimeAssumption DEF Count, Delta

LEMMA ZeroOne == 0 \in Count /\ Plus(0, 0) \in Count /\ \A a \in Count : Plus(a, 1) \in Count
  BY RealtimeAssumption DEF Count, Plus

-----------------------------------------------------------------------------
LEMMA InductiveInit == Init => IInv
<1> SUFFICES ASSUME Init PROVE IInv
  OBVIOUS
<1> USE DEF Init
<1>1. \A S : <<>> \in Seq(S)
  OBVIOUS
<1>2. TypeOK
  <2>1. sent \in [Session -> Seq(Count)]
    BY <1>1
  <2>2. /\ netq \in Seq(Switch \cup Move) /\ tcp \in Seq(Switch \cup Move \cup Begin \cup End)
        /\ rtq \in Seq(Switch \cup Begin \cup End) /\ owner \in Seq(Target)
    BY <1>1
  <2>3. session \in 0..MaxSessions /\ sessionID \in 0..MaxSessions
    BY RealtimeAssumption
  <2>4. QED
    BY <2>1, <2>2, <2>3, ZeroOne, RealtimeAssumption DEF TypeOK, Target
<1>3. SenderInv /\ NetInv /\ ReceiverInv
  BY <1>1 DEF SenderInv, NetInv, ReceiverInv
<1>4. QED
  BY <1>2, <1>3 DEF IInv

(* Steps that leave alone what the receiver's invariant speaks of.         *)
LEMMA ReceiverUntouched ==
  ASSUME NetInv, ReceiverInv,
         UNCHANGED <<udp, sent, net, sessionID, active, needsBaseline, lastSequence, lastTotal, moved, base>>
  PROVE  NetInv' /\ ReceiverInv'
  BY DEF NetInv, ReceiverInv

LEMMA SenderSteps ==
  ASSUME IInv, handle_mouse \/ apply_target \/ run_load \/ run_rebase
  PROVE  IInv'
<1> USE DEF receiverVars, historyVars, boundVars, Sampled
<1>1. UNCHANGED <<udp, sent, net, sessionID, active, needsBaseline, lastSequence, lastTotal, moved, base>>
  BY DEF handle_mouse, apply_target, run_load, run_rebase
<1>2. NetInv' /\ ReceiverInv'
  BY <1>1, ReceiverUntouched DEF IInv
<1>3. SenderInv'
  BY DEF handle_mouse, apply_target, run_load, run_rebase, IInv, SenderInv, TypeOK
<1>4. TypeOK'
  <2> USE DEF IInv, TypeOK, Target
  <2>1. CASE handle_mouse
    BY <2>1, ZeroOne DEF handle_mouse
  <2>2. CASE apply_target
    BY <2>2 DEF apply_target
  <2>3. CASE run_load \/ run_rebase
    BY <2>3, ZeroOne DEF run_load, run_rebase
  <2>4. QED
    BY <2>1, <2>2, <2>3
<1>5. QED
  BY <1>2, <1>3, <1>4 DEF IInv

LEMMA ApplyTargetSend ==
  ASSUME IInv, apply_target_send
  PROVE  IInv'
<1> USE DEF apply_target_send, receiverVars, boundVars
<1>1. SwitchTo(target) \in Switch
  BY DEF SwitchTo, Switch
<1>2. TypeOK'
  <2>1. netq' \in Seq(Switch \cup Move)
    <3>1. SwitchTo(target) \in Switch \cup Move /\ netq \in Seq(Switch \cup Move)
      BY <1>1 DEF IInv, TypeOK
    <3>2. QED
      BY <3>1
  <2>2. base' \in Count
    BY DEF IInv, TypeOK
  <2>3. QED
    BY <2>1, <2>2 DEF IInv, TypeOK
<1>3. SenderInv'
  BY <1>1 DEF IInv, SenderInv
<1>4. NetInv' /\ ReceiverInv'
  BY DEF IInv, NetInv, ReceiverInv
<1>5. QED
  BY <1>2, <1>3, <1>4 DEF IInv

(* A datagram leaves with the total its sequence number stands for, and    *)
(* the totals sent before stay what they were.                             *)
LEMMA RunSend ==
  ASSUME IInv, run_send
  PROVE  IInv'
<1> USE DEF run_send, Sampled, receiverVars, historyVars, boundVars
<1>1. /\ session \in Session /\ x \in Count /\ last \in Count /\ sent \in [Session -> Seq(Count)]
      /\ sent[session] \in Seq(Count) /\ Len(sent[session]) \in Nat
  BY DEF IInv, SenderInv, TypeOK
<1>2. CASE udp /\ (x # last \/ KeepaliveDue)
  <2> DEFINE p == [session |-> session, sequence |-> Len(sent[session]) + 1, total |-> x]
  <2>1. sent' = [sent EXCEPT ![session] = Append(sent[session], x)] /\ net' = net \cup {p} /\ netq' = netq
    BY <1>2
  <2>2. /\ sent' \in [Session -> Seq(Count)]
        /\ Len(sent'[session]) = Len(sent[session]) + 1
        /\ sent'[session][Len(sent[session]) + 1] = x
        /\ \A s \in Session : \A i \in 1..Len(sent[s]) : i \in 1..Len(sent'[s]) /\ sent'[s][i] = sent[s][i]
    BY <1>1, <2>1
  <2>3. p \in Packet
    BY <1>1 DEF Packet
  <2>4. NetInv'
    <3>1. p.sequence \in 1..Len(sent'[p.session]) /\ p.total = sent'[p.session][p.sequence]
      BY <1>1, <2>2
    <3>2. \A q \in net : q.session \in Session
      BY DEF IInv, TypeOK, Packet
    <3>3. QED
      BY <2>1, <2>2, <3>1, <3>2 DEF IInv, NetInv
  <2>5. ReceiverInv'
    <3>1. sessionID # 0 => sessionID \in Session
      BY RealtimeAssumption DEF IInv, TypeOK, Session
    <3>2. QED
      BY <2>2, <3>1 DEF IInv, ReceiverInv
  <2>6. TypeOK'
    BY <1>1, <2>1, <2>2, <2>3, ZeroOne DEF IInv, TypeOK
  <2>7. SenderInv'
    BY <2>1 DEF IInv, SenderInv
  <2>8. QED
    BY <2>4, <2>5, <2>6, <2>7 DEF IInv
<1>3. CASE ~(udp /\ (x # last \/ KeepaliveDue))
  <2>1. sent' = sent /\ net' = net
    BY <1>3
  <2>2. [kind |-> "move", from |-> last, to |-> x] \in Move
    BY <1>1 DEF Move
  <2>3. TypeOK'
    BY <1>1, <2>1, <2>2, ZeroOne DEF IInv, TypeOK
  <2>4. SenderInv'
    BY <2>1 DEF IInv, SenderInv
  <2>5. NetInv' /\ ReceiverInv'
    BY <2>1, ReceiverUntouched DEF IInv
  <2>6. QED
    BY <2>3, <2>4, <2>5 DEF IInv
<1>4. QED
  BY <1>2, <1>3

LEMMA NetTake ==
  ASSUME IInv, net_take
  PROVE  IInv'
<1> USE DEF net_take, senderVars, receiverVars, historyVars, boundVars
<1>1. NetInv' /\ ReceiverInv'
  BY ReceiverUntouched DEF IInv
<1>2. ASSUME NEW S, NEW T, netq \in Seq(S), tcp \in Seq(T), S \subseteq T
      PROVE  netq' \in Seq(S) /\ tcp' \in Seq(T)
  <2>1. Head(netq) \in S /\ Tail(netq) \in Seq(S)
    BY <1>2
  <2>2. Append(tcp, Head(netq)) \in Seq(T)
    BY <1>2, <2>1
  <2>3. QED
    BY <1>2, <2>1, <2>2
<1>3. TypeOK'
  <2>1. netq' \in Seq(Switch \cup Move) /\ tcp' \in Seq(Switch \cup Move \cup Begin \cup End)
    BY <1>2 DEF IInv, TypeOK
  <2>2. QED
    BY <2>1 DEF IInv, TypeOK
<1>4. SenderInv'
  <2>1. udp => netq' \in Seq(Switch) /\ tcp' \in Seq(Frame)
    BY <1>2 DEF IInv, SenderInv, Frame
  <2>2. QED
    BY <2>1 DEF IInv, SenderInv
<1>5. QED
  BY <1>1, <1>3, <1>4 DEF IInv

LEMMA StartSession ==
  ASSUME IInv, start_session
  PROVE  IInv'
<1> USE DEF start_session, receiverVars, historyVars, boundVars
<1> DEFINE frames == <<[kind |-> "begin", session |-> session + 1], [kind |-> "off"]>>
<1>1. session + 1 \in Session /\ session + 1 \in 0..MaxSessions
  BY RealtimeAssumption DEF IInv, TypeOK, Session
<1>2. frames \in Seq(Begin \cup Switch)
  BY <1>1 DEF Begin, Switch
<1>3. ASSUME NEW T, tcp \in Seq(T), Begin \cup Switch \subseteq T
      PROVE  tcp' \in Seq(T)
  <2>1. frames \in Seq(T)
    BY <1>1, <1>3 DEF Begin, Switch
  <2>2. tcp' = tcp \o frames
    OBVIOUS
  <2> HIDE DEF frames
  <2>3. QED
    BY <1>3, <2>1, <2>2, ConcatProperties
<1>4. NetInv' /\ ReceiverInv'
  BY ReceiverUntouched DEF IInv
<1>5. TypeOK'
  <2>1. tcp' \in Seq(Switch \cup Move \cup Begin \cup End)
    BY <1>3 DEF IInv, TypeOK
  <2>2. QED
    BY <1>1, <2>1 DEF IInv, TypeOK
<1>6. SenderInv'
  <2>1. udp => tcp' \in Seq(Frame)
    BY <1>3 DEF IInv, SenderInv, Frame
  <2>2. QED
    BY <1>1, <2>1 DEF IInv, SenderInv
<1>7. QED
  BY <1>4, <1>5, <1>6 DEF IInv

LEMMA CloseConnection ==
  ASSUME IInv, close_connection
  PROVE  IInv'
<1> USE DEF close_connection, receiverVars, historyVars, boundVars
<1>1. [kind |-> "end"] \in End
  BY DEF End
<1>2. ASSUME NEW T, tcp \in Seq(T), End \subseteq T
      PROVE  tcp' \in Seq(T)
  <2>1. PICK n \in 0..Len(tcp) :
          tcp' \in {SubSeq(tcp, 1, n), Append(SubSeq(tcp, 1, n), [kind |-> "end"])}
    OBVIOUS
  <2>2. SubSeq(tcp, 1, n) \in Seq(T)
    <3>1. \A i \in 1..n : i \in 1..Len(tcp)
      BY <1>2
    <3>2. QED
      BY <1>2, <3>1, SubSeqProperties
  <2>3. Append(SubSeq(tcp, 1, n), [kind |-> "end"]) \in Seq(T)
    BY <1>1, <1>2, <2>2
  <2>4. QED
    BY <2>1, <2>2, <2>3
<1>3. NetInv' /\ ReceiverInv'
  BY ReceiverUntouched DEF IInv
<1>4. TypeOK'
  <2>1. tcp' \in Seq(Switch \cup Move \cup Begin \cup End)
    BY <1>2 DEF IInv, TypeOK
  <2>2. QED
    BY <2>1, ZeroOne DEF IInv, TypeOK
<1>5. SenderInv'
  <2>1. udp => tcp' \in Seq(Frame)
    BY <1>2 DEF IInv, SenderInv, Frame
  <2>2. QED
    BY <2>1 DEF IInv, SenderInv
<1>6. QED
  BY <1>3, <1>4, <1>5 DEF IInv

LEMMA Lose ==
  ASSUME IInv, lose
  PROVE  IInv'
<1> USE DEF lose, senderVars, receiverVars, historyVars
<1>1. net' \subseteq net
  OBVIOUS
<1>2. TypeOK'
  BY <1>1 DEF IInv, TypeOK
<1>3. SenderInv' /\ NetInv' /\ ReceiverInv'
  BY <1>1 DEF IInv, SenderInv, NetInv, ReceiverInv
<1>4. QED
  BY <1>2, <1>3 DEF IInv

-----------------------------------------------------------------------------
(* The receiver.                                                           *)

(* A frame may be a motion only where there is no UDP.                     *)
LEMMA DidReceive ==
  ASSUME IInv, didReceive
  PROVE  IInv'
<1> USE DEF didReceive, senderVars, boundVars
<1> DEFINE m == Head(tcp)
<1>1. m \in Switch \cup Move \cup Begin \cup End /\ Tail(tcp) \in Seq(Switch \cup Move \cup Begin \cup End)
  BY DEF IInv, TypeOK
<1>2. udp => m.kind # "move" /\ Tail(tcp) \in Seq(Frame)
  BY DEF IInv, SenderInv, Frame, Switch, Begin, End
<1>3. m.kind # "move" => m \in Switch \cup Begin \cup End
  BY <1>1 DEF Move
<1>4. m.kind = "move" => m.from \in Count /\ m.to \in Count
  BY <1>1 DEF Move, Switch, Begin, End
<1> HIDE DEF m
<1>5. TypeOK'
  <2>1. rtq' \in Seq(Switch \cup Begin \cup End)
    <3>1. rtq' = rtq \/ (m.kind # "move" /\ rtq' = Append(rtq, m))
      BY DEF m
    <3>2. rtq \in Seq(Switch \cup Begin \cup End)
      BY DEF IInv, TypeOK
    <3>3. m.kind # "move" => Append(rtq, m) \in Seq(Switch \cup Begin \cup End)
      BY <1>3, <3>2
    <3>4. QED
      BY <3>1, <3>2, <3>3
  <2>2. moved' \in Count
    <3>1. moved' \in {0, moved} \/ (m.kind = "move" /\ moved' = Plus(moved, Delta(m.to, m.from)))
      BY DEF m, submit
    <3>2. moved \in Count
      BY DEF IInv, TypeOK
    <3>3. m.kind = "move" => Plus(moved, Delta(m.to, m.from)) \in Count
      BY <1>4, <3>2, CountArithmetic
    <3>4. QED
      BY <3>1, <3>2, <3>3, ZeroOne
  <2>3. flag' \in BOOLEAN
    <3>1. flag' \in {flag, m.kind = "on"}
      BY DEF m
    <3>2. QED
      BY <3>1 DEF IInv, TypeOK
  <2>4. replayed' \in BOOLEAN
    <3>1. replayed' = replayed \/ replayed' = (replayed \/ \E i \in m.from + 1 .. m.to : owner[i] # "Mac")
      BY DEF m, submit
    <3>2. QED
      BY <3>1 DEF IInv, TypeOK
  <2>5. QED
    BY <1>1, <2>1, <2>2, <2>3, <2>4 DEF IInv, TypeOK, m
<1>6. SenderInv'
  <2>1. tcp' = Tail(tcp)
    OBVIOUS
  <2>2. QED
    BY <1>2, <2>1 DEF IInv, SenderInv
<1>7. NetInv'
  BY DEF IInv, NetInv
<1>8. ReceiverInv'
  <2>1. udp => moved' = moved
    BY <1>2 DEF m
  <2>2. QED
    BY <2>1 DEF IInv, ReceiverInv
<1>9. QED
  BY <1>5, <1>6, <1>7, <1>8 DEF IInv

(* Every block asks for a new baseline.                                    *)
LEMMA RunBlock ==
  ASSUME IInv, run_block
  PROVE  IInv'
<1> USE DEF run_block, senderVars, boundVars, historyVars
<1> DEFINE m == Head(rtq)
<1>1. m \in Switch \cup Begin \cup End /\ Tail(rtq) \in Seq(Switch \cup Begin \cup End)
  BY DEF IInv, TypeOK
<1>2. m.kind = "begin" => m.session \in 0..MaxSessions
  BY <1>1, RealtimeAssumption DEF Begin, Switch, End, Session
<1> HIDE DEF m
<1>3. TypeOK'
  <2>1. sessionID' \in 0..MaxSessions
    <3>1. sessionID' \in {0, sessionID} \/ (m.kind = "begin" /\ sessionID' = m.session)
      BY DEF m
    <3>2. QED
      BY <1>2, <3>1, RealtimeAssumption DEF IInv, TypeOK
  <2>2. lastSequence' \in Nat
    BY DEF IInv, TypeOK
  <2>3. active' \in BOOLEAN
    <3>1. active' \in {TRUE, active, FALSE}
      BY DEF m
    <3>2. QED
      BY <3>1 DEF IInv, TypeOK
  <2>4. QED
    BY <1>1, <2>1, <2>2, <2>3 DEF IInv, TypeOK, m
<1>4. SenderInv' /\ NetInv'
  BY DEF IInv, SenderInv, NetInv
<1>5. ReceiverInv'
  BY DEF ReceiverInv
<1>6. QED
  BY <1>3, <1>4, <1>5 DEF IInv

(* A datagram: either the new baseline, or a step from the last total.     *)
LEMMA Handle ==
  ASSUME IInv, NEW p \in net, handle(p)
  PROVE  IInv'
<1> USE DEF handle, senderVars, boundVars
<1>1. p \in Packet /\ lastTotal \in Count /\ base \in Count /\ moved \in Count
  BY DEF IInv, TypeOK
<1>2. p.total \in Count /\ p.sequence \in Nat /\ p.session \in Session /\ p.session = sessionID
  BY <1>1 DEF Packet, Newer
<1>3. CASE needsBaseline
  <2>1. base' = p.total /\ moved' = 0 /\ replayed' = replayed
    BY <1>3
  <2>2. TypeOK'
    BY <1>2, <2>1, ZeroOne DEF IInv, TypeOK
  <2>3. SenderInv' /\ NetInv'
    BY DEF IInv, SenderInv, NetInv
  <2>4. moved' = Delta(lastTotal', base')
    BY <1>2, <2>1, DeltaOfSame
  <2>5. ReceiverInv'
    BY <1>2, <2>4 DEF IInv, NetInv, ReceiverInv
  <2>6. QED
    BY <2>2, <2>3, <2>5 DEF IInv
<1>4. CASE ~needsBaseline
  <2>1. base' = base
    BY <1>4
  <2>2. CASE active
    <3>1. /\ moved' = Plus(moved, Delta(p.total, lastTotal))
          /\ replayed' = (replayed \/ \E i \in lastTotal + 1 .. p.total : owner[i] # "Mac")
      BY <1>4, <2>2 DEF submit
    <3>2. moved' \in Count
      BY <1>1, <1>2, <3>1, CountArithmetic
    <3>3. replayed' \in BOOLEAN
      BY <3>1 DEF IInv, TypeOK
    <3>4. udp => moved' = Delta(lastTotal', base')
      BY <1>1, <1>2, <1>4, <2>1, <2>2, <3>1, DeltasAddUp DEF IInv, ReceiverInv
    <3>5. TypeOK'
      BY <1>2, <2>1, <3>2, <3>3 DEF IInv, TypeOK
    <3>6. SenderInv' /\ NetInv' /\ ReceiverInv'
      BY <1>2, <3>4 DEF IInv, SenderInv, NetInv, ReceiverInv
    <3>7. QED
      BY <3>5, <3>6 DEF IInv
  <2>3. CASE ~active
    <3>1. moved' = moved /\ replayed' = replayed
      BY <1>4, <2>3
    <3>2. TypeOK'
      BY <1>2, <2>1, <3>1 DEF IInv, TypeOK
    <3>3. SenderInv' /\ NetInv' /\ ReceiverInv'
      BY <1>2, <2>3 DEF IInv, SenderInv, NetInv, ReceiverInv
    <3>4. QED
      BY <3>2, <3>3 DEF IInv
  <2>4. QED
    BY <2>2, <2>3
<1>5. QED
  BY <1>3, <1>4

LEMMA Stutter ==
  ASSUME IInv, UNCHANGED vars
  PROVE  IInv'
  BY DEF vars, senderVars, receiverVars, historyVars, boundVars,
         IInv, TypeOK, SenderInv, NetInv, ReceiverInv

-----------------------------------------------------------------------------
LEMMA InductiveSteps == IInv /\ [Next]_vars => IInv'
<1> SUFFICES ASSUME IInv, [Next]_vars PROVE IInv'
  OBVIOUS
<1>1. CASE handle_mouse \/ apply_target \/ run_load \/ run_rebase
  BY <1>1, SenderSteps
<1>2. CASE apply_target_send
  BY <1>2, ApplyTargetSend
<1>3. CASE run_send
  BY <1>3, RunSend
<1>4. CASE net_take
  BY <1>4, NetTake
<1>5. CASE start_session
  BY <1>5, StartSession
<1>6. CASE close_connection
  BY <1>6, CloseConnection
<1>7. CASE didReceive
  BY <1>7, DidReceive
<1>8. CASE run_block
  BY <1>8, RunBlock
<1>9. CASE receive
  BY <1>9, Handle DEF receive
<1>10. CASE lose
  BY <1>10, Lose
<1>11. CASE UNCHANGED vars
  BY <1>11, Stutter
<1>12. QED
  BY <1>1, <1>2, <1>3, <1>4, <1>5, <1>6, <1>7, <1>8, <1>9, <1>10, <1>11 DEF Next, tick

(* Every variable of the channel keeps its type, whatever the network does *)
(* and whoever closes the connection.                                      *)
THEOREM TypeCorrect == Spec => []TypeOK
<1>1. IInv => TypeOK
  BY DEF IInv
<1>2. QED
  BY <1>1, InductiveInit, InductiveSteps, PTL DEF Spec

(* RealtimeReceiver.handle: the motion given to the scheduler is what      *)
(* separates the baseline from the total the sender really had at the      *)
(* newest sequence number applied, for any loss, duplication, reordering   *)
(* and reconnection, and across any number of wraps of the total.          *)
THEOREM PointerOnPath == Spec => []CursorOnPath
<1>1. IInv => CursorOnPath
  BY DEF IInv, ReceiverInv, CursorOnPath, TypeOK, Session
<1>2. QED
  BY <1>1, InductiveInit, InductiveSteps, PTL DEF Spec
-----------------------------------------------------------------------------
(* Without UDP.  What the network thread and the receiver have yet to see, *)
(* and the count that the pointer stands for once a switch is applied.     *)
Way == tcp \o netq

(* From the f-th on there are motions only, each going on where the one    *)
(* before it stopped, up to what the last tick saw.                        *)
Follows(q, f, start, end) ==
  /\ \A i \in f..Len(q) : q[i].kind = "move" /\ q[i].from = IF i = f THEN start ELSE q[i-1].to
  /\ end = IF f > Len(q) THEN start ELSE q[Len(q)].to

(* Before the f-th the Mac is given the input.                             *)
Unbroken(q, f) ==
  /\ f \in 1..(Len(q) + 1)
  /\ IF f = 1 THEN flag ELSE q[f-1].kind = "on"
  /\ Follows(q, f, IF f = 1 THEN Plus(base, moved) ELSE base, last)

Moving == ~udp /\ up /\ target = "Mac" /\ ~posting

TcpInv ==
  /\ ~udp => net = {}
  /\ Moving => \E f : Unbroken(Way, f)

LEMMA WayTypes ==
  ASSUME IInv
  PROVE  /\ Way \in Seq(Switch \cup Move \cup Begin \cup End)
         /\ \A m \in Switch \cup Move \cup Begin \cup End :
              m.kind = "move" => m.from \in Count /\ m.to \in Count
<1>1. tcp \in Seq(Switch \cup Move \cup Begin \cup End) /\ netq \in Seq(Switch \cup Move \cup Begin \cup End)
  <2>1. \A S, T, q : q \in Seq(S) /\ S \subseteq T => q \in Seq(T)
    OBVIOUS
  <2> QED
    BY <2>1 DEF IInv, TypeOK
<1>2. \A m \in Switch \cup Move \cup Begin \cup End : m.kind = "move" => m.from \in Count /\ m.to \in Count
  BY DEF Switch, Move, Begin, End
<1> QED
  BY <1>1, <1>2 DEF Way

LEMMA PlusZero == \A a \in Count : Plus(a, 0) = a
BY RealtimeAssumption DEF Count, Plus

(* From where one motion started, its length leads to where it stops.      *)
LEMMA Onward ==
  ASSUME NEW a \in Count, NEW b \in Count, NEW c \in Count, NEW d \in Count, c = Plus(a, b)
  PROVE  Plus(a, Plus(b, Delta(d, c))) = d
BY RealtimeAssumption DEF Count, Plus, Delta

LEMMA TcpKept ==
  ASSUME TcpInv, UNCHANGED <<udp, net>>,
         Moving' => Moving /\ UNCHANGED <<Way, flag, base, moved, last>>
  PROVE  TcpInv'
<1>1. ~udp' => net' = {}
  BY DEF TcpInv
<1>2. ASSUME Moving' PROVE (\E f : Unbroken(Way, f))'
  <2>1. PICK f : Unbroken(Way, f)
    BY <1>2 DEF TcpInv
  <2>2. Unbroken(Way, f)'
    BY <1>2, <2>1 DEF Unbroken
  <2> QED
    BY <2>2
<1> QED
  BY <1>1, <1>2 DEF TcpInv

(* The switch makes the way start from what the last tick saw. *)
LEMMA TcpSwitch ==
  ASSUME IInv, TcpInv, apply_target_send
  PROVE  TcpInv'
<1> DEFINE q == Append(Way, SwitchTo(target))
<1>1. /\ UNCHANGED <<udp, up, target, last, net, flag, tcp>> /\ netq' = Append(netq, SwitchTo(target))
      /\ base' = IF udp THEN base ELSE last
  BY DEF apply_target_send, receiverVars
<1>2. tcp \in Seq(Switch \cup Move \cup Begin \cup End) /\ netq \in Seq(Switch \cup Move)
  BY DEF IInv, TypeOK
<1>3. Way' = q
  BY <1>1, <1>2 DEF Way
<1>4. ASSUME Moving' PROVE (\E f : Unbroken(Way, f))'
  <2>1. ~udp /\ target = "Mac"
    BY <1>1, <1>4 DEF Moving
  <2> DEFINE n == Len(Way)
  <2>2. n \in Nat /\ Len(q) = n + 1 /\ q[n + 1].kind = "on"
    BY <2>1, WayTypes DEF SwitchTo
  <2> HIDE DEF q, n
  <2>3. Follows(q, n + 2, last, last)
    BY <2>2 DEF Follows
  <2>4. n + 2 \in 1..(Len(q) + 1) /\ n + 2 # 1 /\ (n + 2) - 1 = n + 1
    BY <2>2
  <2>5. base' = last /\ last' = last
    BY <1>1, <2>1
  <2> DEFINE k == n + 2
  <2>6. q[k - 1].kind = "on" /\ k \in 1..(Len(q) + 1) /\ k # 1 /\ Follows(q, k, base', last')
    BY <2>2, <2>3, <2>4, <2>5
  <2> HIDE DEF k
  <2>7. \E f : /\ f \in 1..(Len(Way') + 1)
               /\ IF f = 1 THEN flag' ELSE Way'[f-1].kind = "on"
               /\ Follows(Way', f, IF f = 1 THEN Plus(base', moved') ELSE base', last')
    BY <1>3, <2>6
  <2> QED
    BY <2>7 DEF Unbroken, Follows
<1> QED
  BY <1>1, <1>4 DEF TcpInv

(* A tick adds the motion from what the one before it saw. *)
LEMMA TcpTick ==
  ASSUME IInv, TcpInv, run_send
  PROVE  TcpInv'
<1>1. /\ target = "Mac" /\ last' = x /\ UNCHANGED <<udp, up, target, posting, flag, base, moved, tcp>>
      /\ netq' = IF ~udp /\ x # last
                 THEN Append(netq, [kind |-> "move", from |-> last, to |-> x]) ELSE netq
      /\ ~udp => net' = net
  BY DEF run_send, Sampled, receiverVars, historyVars
<1>2. tcp \in Seq(Switch \cup Move \cup Begin \cup End) /\ netq \in Seq(Switch \cup Move)
      /\ Way \in Seq(Switch \cup Move \cup Begin \cup End)
  BY WayTypes DEF IInv, TypeOK
<1>3. ASSUME Moving' PROVE (\E f : Unbroken(Way, f))'
  <2>1. Moving /\ ~udp
    BY <1>1, <1>3 DEF Moving
  <2>2. PICK f : Unbroken(Way, f)
    BY <2>1 DEF TcpInv
  <2>3. CASE x = last
    <3>1. Way' = Way /\ last' = last
      BY <1>1, <2>3 DEF Way
    <3>2. Unbroken(Way, f)'
      BY <1>1, <2>2, <3>1 DEF Unbroken
    <3> QED
      BY <3>2
  <2>4. CASE x # last
    <3> DEFINE m == [kind |-> "move", from |-> last, to |-> x]
               q == Append(Way, m)
               n == Len(Way)
               start == IF f = 1 THEN Plus(base, moved) ELSE base
    <3>1. Way' = q
      BY <1>1, <1>2, <2>1, <2>4 DEF Way
    <3>2. /\ n \in Nat /\ Len(q) = n + 1 /\ q[n + 1] = m /\ \A i \in 1..n : q[i] = Way[i]
          /\ m.kind = "move" /\ m.from = last /\ m.to = x
      BY <1>2
    <3>3. f \in 1..(n + 1) /\ Follows(Way, f, start, last)
      BY <2>2 DEF Unbroken
    <3> HIDE DEF q, m, start
    <3>4. ASSUME NEW i \in f..(n + 1)
          PROVE  q[i].kind = "move" /\ q[i].from = IF i = f THEN start ELSE q[i-1].to
      <4>1. CASE i = n + 1
        <5>1. CASE f = n + 1
          BY <3>2, <3>3, <4>1, <5>1 DEF Follows
        <5>2. CASE f # n + 1
          <6>1. n \in 1..n /\ i - 1 = n /\ ~(f > n)
            BY <3>2, <3>3, <4>1, <5>2
          <6>2. q[i-1] = Way[n]
            BY <3>2, <6>1
          <6> QED
            BY <3>2, <3>3, <4>1, <5>2, <6>1, <6>2 DEF Follows
        <5> QED
          BY <5>1, <5>2
      <4>2. CASE i # n + 1
        <5>1. i \in f..n /\ i \in 1..n /\ (i = f \/ i - 1 \in 1..n)
          BY <3>2, <3>3, <4>2
        <5> QED
          BY <3>2, <3>3, <5>1 DEF Follows
      <4> QED
        BY <4>1, <4>2
    <3>5. Follows(q, f, start, x)
      BY <3>2, <3>3, <3>4 DEF Follows
    <3>6. f \in 1..(Len(q) + 1)
      BY <3>2, <3>3
    <3>7. f # 1 => q[f-1] = Way[f-1]
      BY <3>2, <3>3
    <3>8. Unbroken(Way, f)'
      BY <1>1, <2>2, <3>1, <3>5, <3>6, <3>7 DEF Unbroken, start
    <3> QED
      BY <3>8
  <2> QED
    BY <2>3, <2>4
<1> QED
  BY <1>1, <1>3 DEF TcpInv

(* The receiver applies a motion, or learns that the Mac has the input. *)
LEMMA TcpReceive ==
  ASSUME IInv, TcpInv, didReceive
  PROVE  TcpInv'
<1> DEFINE m == Head(tcp)
<1>1. /\ tcp # <<>> /\ tcp' = Tail(tcp)
      /\ UNCHANGED <<udp, up, target, posting, base, netq, net, last>>
  BY DEF didReceive, senderVars
<1>2. tcp \in Seq(Switch \cup Move \cup Begin \cup End) /\ netq \in Seq(Switch \cup Move)
      /\ Way \in Seq(Switch \cup Move \cup Begin \cup End)
  BY WayTypes DEF IInv, TypeOK
<1> DEFINE q == Way
           n == Len(Tail(q))
<1>3. /\ q # <<>> /\ m = q[1] /\ Way' = Tail(q)
      /\ n \in Nat /\ Len(q) = n + 1 /\ \A i \in 1..n : Tail(q)[i] = q[i + 1]
      /\ m \in Switch \cup Move \cup Begin \cup End
  <2>1. tcp \o netq # <<>> /\ Head(tcp \o netq) = m /\ Tail(tcp \o netq) = Tail(tcp) \o netq
    BY <1>1, <1>2
  <2>2. m \in Switch \cup Move \cup Begin \cup End
    BY <1>1, <1>2
  <2>3. q # <<>> /\ Head(q) = m /\ Way' = Tail(q)
    BY <1>1, <2>1 DEF Way
  <2> QED
    BY <1>2, <2>2, <2>3
<1> HIDE DEF m, q, n
<1>4. ASSUME Moving' PROVE (\E f : Unbroken(Way, f))'
  <2>1. Moving /\ ~udp
    BY <1>1, <1>4 DEF Moving
  <2>2. PICK f : Unbroken(q, f)
    BY <2>1 DEF TcpInv, q
  <2> DEFINE start == IF f = 1 THEN Plus(base, moved) ELSE base
  <2>3. f \in 1..(n + 2) /\ Follows(q, f, start, last)
    BY <1>3, <2>2 DEF Unbroken
  <2> DEFINE g == IF f = 1 THEN 1 ELSE f - 1
             next == IF f = 1 THEN m.to ELSE base
  <2>4. f = 1 => m.kind = "move" /\ m.from = Plus(base, moved)
    <3>1. 1 \in 1..Len(q)
      BY <1>3
    <3> QED
      BY <1>3, <2>3, <3>1 DEF Follows
  <2>5. Follows(Tail(q), g, next, last)
    <3>1. g \in 1..(n + 1)
      BY <1>3, <2>3
    <3>2. ASSUME NEW i \in g..n
          PROVE  /\ Tail(q)[i].kind = "move"
                 /\ Tail(q)[i].from = IF i = g THEN next ELSE Tail(q)[i-1].to
      <4>1. i \in 1..n /\ i + 1 \in f..Len(q) /\ Tail(q)[i] = q[i + 1] /\ (i + 1) - 1 = i
        BY <1>3, <2>3, <3>1, <3>2
      <4>2. q[i + 1].kind = "move" /\ q[i + 1].from = IF i + 1 = f THEN start ELSE q[i].to
        BY <2>3, <4>1 DEF Follows
      <4>3. CASE i = g
        BY <1>3, <2>3, <4>1, <4>2, <4>3
      <4>4. CASE i # g
        <5>1. i - 1 \in 1..n /\ (i - 1) + 1 = i /\ i + 1 # f
          BY <1>3, <2>3, <3>1, <4>1, <4>4
        <5> QED
          BY <1>3, <4>1, <4>2, <4>4, <5>1
      <4> QED
        BY <4>3, <4>4
    <3>3. last = IF g > n THEN next ELSE Tail(q)[n].to
      <4>1. last = IF f > n + 1 THEN start ELSE q[n + 1].to
        BY <1>3, <2>3 DEF Follows
      <4>2. CASE n = 0
        BY <1>3, <2>3, <4>1, <4>2
      <4>3. CASE n # 0
        <5>1. n \in 1..n /\ Tail(q)[n] = q[n + 1]
          BY <1>3, <4>3
        <5>2. CASE f = 1
          <6>1. ~(g > n) /\ ~(f > n + 1)
            BY <1>3, <4>3, <5>2
          <6> QED
            BY <4>1, <5>1, <6>1
        <5>3. CASE f # 1
          <6>1. f \in Nat /\ n \in Nat
            BY <1>3, <2>3
          <6>2. g > n <=> f > n + 1
            BY <5>3, <6>1
          <6>3. start = base /\ next = base
            BY <5>3
          <6> QED
            BY <4>1, <5>1, <6>2, <6>3
        <5> QED
          BY <5>2, <5>3
      <4> QED
        BY <4>2, <4>3
    <3>4. Len(Tail(q)) = n
      BY DEF n
    <3> HIDE DEF g, next
    <3> QED
      BY <3>2, <3>3, <3>4 DEF Follows
  <2>6. g \in 1..(Len(Tail(q)) + 1)
    BY <1>3, <2>3 DEF n
  <2>7. CASE f = 1
    <3>1. m.kind = "move" /\ flag
      BY <2>2, <2>4, <2>7 DEF Unbroken
    <3>2. moved' = Plus(moved, Delta(m.to, m.from)) /\ flag' = flag
      BY <3>1 DEF didReceive, submit, m
    <3>3. m.to \in Count /\ m.from \in Count /\ base \in Count /\ moved \in Count
      BY <1>3, <3>1, WayTypes DEF IInv, TypeOK
    <3>4. Plus(base, moved') = m.to
      BY <2>4, <2>7, <3>2, <3>3, Onward
    <3>5. Follows(Way', 1, Plus(base', moved'), last')
      BY <1>1, <1>3, <2>5, <2>7, <3>4
    <3>6. Unbroken(Way, 1)'
      BY <1>3, <2>6, <2>7, <3>1, <3>2, <3>5 DEF Unbroken
    <3> QED
      BY <3>6
  <2>8. CASE f = 2
    <3>1. m.kind = "on"
      BY <1>3, <2>2, <2>8 DEF Unbroken
    <3>2. flag' /\ moved' = 0
      BY <2>1, <3>1 DEF didReceive, m
    <3>3. Plus(base', moved') = base /\ g = 1 /\ next = base
      BY <1>1, <2>8, <3>2, PlusZero DEF IInv, TypeOK
    <3>4. Follows(Way', 1, Plus(base', moved'), last')
      BY <1>1, <1>3, <2>5, <3>3
    <3>5. Unbroken(Way, 1)'
      BY <1>3, <2>6, <3>2, <3>3, <3>4 DEF Unbroken
    <3> QED
      BY <3>5
  <2>9. CASE f # 1 /\ f # 2
    <3>1. g = f - 1 /\ g # 1 /\ g - 1 \in 1..n /\ (g - 1) + 1 = f - 1 /\ next = base
      BY <1>3, <2>3, <2>9
    <3>2. Tail(q)[g - 1] = q[f - 1]
      BY <1>3, <3>1
    <3>3. Tail(q)[g - 1].kind = "on"
      BY <2>2, <2>9, <3>2 DEF Unbroken
    <3>4. Unbroken(Way, g)'
      BY <1>1, <1>3, <2>5, <2>6, <3>1, <3>3 DEF Unbroken
    <3> QED
      BY <3>4
  <2> QED
    BY <2>7, <2>8, <2>9
<1> QED
  BY <1>1, <1>4 DEF TcpInv

LEMMA TcpStep ==
  ASSUME IInv, TcpInv, [Next]_vars
  PROVE  TcpInv'
<1> USE DEF senderVars, receiverVars, historyVars, boundVars
<1>1. CASE handle_mouse \/ apply_target \/ run_load \/ run_rebase \/ run_block \/ UNCHANGED vars
  <2>1. UNCHANGED <<udp, net>>
    BY <1>1 DEF handle_mouse, apply_target, run_load, run_rebase, run_block, vars
  <2>2. ASSUME Moving'
        PROVE  Moving /\ UNCHANGED <<Way, flag, base, moved, last>>
    <3>1. CASE handle_mouse
      BY <2>2, <3>1 DEF handle_mouse, Moving, Way
    <3>2. CASE apply_target
      BY <2>2, <3>2 DEF apply_target, Moving
    <3>3. CASE run_load
      BY <2>2, <3>3 DEF run_load, Moving, Way
    <3>4. CASE run_rebase
      BY <2>2, <3>4 DEF run_rebase, Moving
    <3>5. CASE run_block
      BY <2>2, <3>5 DEF run_block, Moving, Way
    <3>6. CASE UNCHANGED vars
      BY <2>2, <3>6 DEF vars, Moving, Way
    <3> QED
      BY <1>1, <3>1, <3>2, <3>3, <3>4, <3>5, <3>6
  <2> QED
    BY <2>1, <2>2, TcpKept
<1>2. CASE apply_target_send
  BY <1>2, TcpSwitch
<1>3. CASE run_send
  BY <1>3, TcpTick
<1>4. CASE net_take
  <2>1. UNCHANGED <<udp, net, up, target, posting, flag, base, moved, last>>
    BY <1>4 DEF net_take
  <2>2. ASSUME Moving'
        PROVE  Moving /\ Way' = Way
    <3>1. Moving /\ up /\ target = "Mac"
      BY <2>1, <2>2 DEF Moving
    <3>2. tcp' = Append(tcp, Head(netq)) /\ netq' = Tail(netq) /\ netq # <<>>
      BY <1>4, <3>1 DEF net_take
    <3>3. tcp \in Seq(Switch \cup Move \cup Begin \cup End) /\ netq \in Seq(Switch \cup Move)
      BY DEF IInv, TypeOK
    <3>4. Append(tcp, Head(netq)) \o Tail(netq) = tcp \o netq
      BY <3>2, <3>3
    <3> QED
      BY <3>1, <3>2, <3>4 DEF Way
  <2> QED
    BY <2>1, <2>2, TcpKept
<1>5. CASE start_session \/ close_connection
  <2>1. UNCHANGED <<udp, net>> /\ ~Moving'
    BY <1>5 DEF start_session, close_connection, Moving
  <2> QED
    BY <2>1, TcpKept
<1>6. CASE didReceive
  BY <1>6, TcpReceive
<1>7. CASE receive
  <2>1. udp
    BY <1>7 DEF receive, TcpInv
  <2>2. udp' = udp
    BY <1>7 DEF receive, handle
  <2> QED
    BY <2>1, <2>2 DEF TcpInv, Moving
<1>8. CASE lose
  <2>1. UNCHANGED <<udp, up, target, posting, Way, flag, base, moved, last>> /\ net' \subseteq net
    BY <1>8 DEF lose, Way
  <2>2. ~udp => net' = net
    BY <2>1 DEF TcpInv
  <2>3. CASE ~udp
    BY <2>1, <2>2, <2>3, TcpKept DEF Moving
  <2>4. CASE udp
    BY <2>1, <2>4 DEF TcpInv, Moving
  <2> QED
    BY <2>3, <2>4
<1> QED
  BY <1>1, <1>2, <1>3, <1>4, <1>5, <1>6, <1>7, <1>8 DEF Next, tick

(* Where the motions go on from each other, they are the ones after the    *)
(* last frame of another kind.                                             *)
LEMMA SinceTheSwitch ==
  ASSUME NEW f, Unbroken(Way, f), IInv
  PROVE  LET ons   == {i \in DOMAIN Way : Way[i].kind # "move"}
             first == IF ons = {} THEN 1 ELSE 1 + CHOOSE i \in ons : \A j \in ons : j <= i
         IN  first = f /\ (ons = {} <=> f = 1)
<1> DEFINE q == Way
           ons == {i \in DOMAIN q : q[i].kind # "move"}
<1>1. /\ f \in 1..(Len(q) + 1) /\ Len(q) \in Nat /\ DOMAIN q = 1..Len(q)
      /\ \A i \in f..Len(q) : q[i].kind = "move"
      /\ f # 1 => q[f-1].kind = "on"
  BY WayTypes DEF Unbroken, Follows
<1> HIDE DEF q
<1>2. \A j \in ons : j <= f - 1 /\ j >= 1
  BY <1>1
<1>3. f # 1 => f - 1 \in ons
  BY <1>1
<1> HIDE DEF ons
<1>4. ons = {} <=> f = 1
  <2>1. ASSUME f = 1 PROVE ons = {}
    <3>1. \A j \in ons : j \in 1..Len(q)
      BY <1>1 DEF ons
    <3>2. \A j \in ons : j <= 0 /\ j \in Nat /\ j >= 1
      BY <1>1, <1>2, <2>1, <3>1
    <3> QED
      BY <3>2
  <2> QED
    BY <1>3, <2>1
<1>5. CASE f = 1
  BY <1>4, <1>5 DEF ons, q
<1>6. CASE f # 1
  <2> DEFINE c == CHOOSE i \in ons : \A j \in ons : j <= i
  <2>1. \E i \in ons : \A j \in ons : j <= i
    BY <1>2, <1>3, <1>6
  <2>2. c \in ons /\ \A j \in ons : j <= c
    BY <2>1
  <2> HIDE DEF c
  <2>3. c <= f - 1 /\ f - 1 <= c /\ c \in Nat
    BY <1>1, <1>2, <1>3, <1>6, <2>2 DEF ons
  <2>4. 1 + c = f
    BY <1>1, <2>3
  <2> QED
    BY <1>4, <1>6, <2>4 DEF c, ons, q
<1> QED
  BY <1>5, <1>6

(* realtime.rs:122: without UDP, the motions applied and still queued      *)
(* follow on from each other up to what the last tick saw, so none is      *)
(* skipped or doubled, whatever switches and connections came before.      *)
THEOREM NoGap == Spec => []NoGapOverTcp
<1>1. Init => TcpInv
  BY DEF Init, TcpInv, Moving
<1>2. IInv /\ TcpInv /\ [Next]_vars => TcpInv'
  BY TcpStep
<1>3. IInv /\ TcpInv => NoGapOverTcp
  <2> SUFFICES ASSUME IInv, TcpInv, Moving PROVE NoGapOverTcp
    BY DEF NoGapOverTcp, Moving
  <2>1. PICK f : Unbroken(Way, f)
    BY DEF TcpInv
  <2>2. Follows(Way, f, IF f = 1 THEN Plus(base, moved) ELSE base, last)
    BY <2>1 DEF Unbroken
  <2> QED
    BY <2>1, <2>2, SinceTheSwitch DEF NoGapOverTcp, Way, Follows
<1> QED
  BY <1>1, <1>2, <1>3, InductiveInit, InductiveSteps, PTL DEF Spec
=============================================================================
