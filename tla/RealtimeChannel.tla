--------------------------- MODULE RealtimeChannel ---------------------------
(***************************************************************************)
(* How motion of the mouse reaches the pointer of the Mac.                 *)
(*                                                                         *)
(* The sender adds every count to a wrapping total, and a thread samples   *)
(* the total on each tick (windows-sender/src/net/realtime.rs).  Over UDP  *)
(* it sends the total and the receiver (RealtimeReceiver.swift) takes the  *)
(* difference from the last one it saw; without UDP it sends differences   *)
(* through the network thread and the control connection.  Who owns the    *)
(* input travels by the control connection alone, so the two race.         *)
(*                                                                         *)
(* One axis is modelled; the other is the same.                            *)
(***************************************************************************)
EXTENDS Naturals, Sequences

CONSTANTS
  Modulus,      \* totals wrap at this many counts (2^32 in the code)
  UseUdp,       \* the values to consider of: Config.use_udp, and the socket could be bound
  Keepalive,    \* Config.keepalive_stream
  MaxMoves,     \* bound: counts the mouse makes
  MaxSessions,  \* bound: connections made
  MaxSwitches,  \* bound: switches made
  MaxLoss       \* bound: datagrams lost outright (any may be delayed forever)

ASSUME RealtimeAssumption ==
  /\ Modulus \in Nat \ {0}
  /\ UseUdp \subseteq BOOLEAN /\ Keepalive \in BOOLEAN
  /\ MaxMoves \in Nat /\ MaxSessions \in Nat /\ MaxSwitches \in Nat /\ MaxLoss \in Nat

VARIABLES
  udp,       \* does motion travel by UDP?
  \* the sender
  target,    \* AppState.target
  posting,   \* apply_target has swapped the target and not sent TargetChanged
  total,     \* AppState.total_x
  pc, x,     \* the realtime thread, and the total it has loaded, if any
  last,      \* last_x
  up,        \* the control connection is up
  session,   \* the number of the newest session
  sent,      \* the totals sent in each session; the index is the sequence number
  netq,      \* NetMsg channel to the network thread
  tcp,       \* control frames on their way, and the receiver's view of the connection
  \* the network
  net,       \* datagrams in flight; they stay until lost
  lost,      \* how many were lost
  \* the receiver
  flag,      \* activeFlag, read by the control queue
  rtq,       \* blocks the control queue has dispatched to the realtime queue
  sessionID, active, needsBaseline, lastSequence, lastTotal,
  \* history
  switches,  \* how many switches were made
  moved,     \* counts given to the scheduler since base
  base,      \* the total the receiver's motion starts from
  owner,     \* who owned the input at each count
  replayed   \* the Mac was given a count made while Windows owned the input

senderVars   == <<udp, target, posting, total, pc, x, last, up, session, sent>>
receiverVars == <<udp, flag, rtq, sessionID, active, needsBaseline, lastSequence, lastTotal>>
historyVars  == <<moved, base, owner, replayed>>
boundVars    == <<lost, switches>>
vars == <<senderVars, netq, tcp, net, boundVars, receiverVars, historyVars>>

Target  == {"Local", "Mac"}
Count   == 0..(Modulus - 1)
Session == 1..MaxSessions

Switch == [kind : {"on", "off"}]
Move   == [kind : {"move"}, from : Count, to : Count]
Begin  == [kind : {"begin"}, session : Session]
End    == [kind : {"end"}]
Packet == [session : Session, sequence : Nat \ {0}, total : Count]

(* i32 arithmetic, scaled down: wrapping_add and wrappingDelta.            *)
Plus_unwrapped(a, b) == a + b \* mutant: the total does not wrap
Plus(a, b)  == IF a + b < Modulus THEN a + b ELSE a + b - Modulus
Delta(a, b) == IF a >= b THEN a - b ELSE a + Modulus - b

Newer(p) == p.session = sessionID /\ p.sequence > lastSequence

SwitchTo(tgt) == [kind |-> IF tgt = "Mac" THEN "on" ELSE "off"]
IsSwitch(m)   == m.kind \in {"on", "off"}

-----------------------------------------------------------------------------
Init ==
  /\ udp \in UseUdp
  /\ target = "Local" /\ posting = FALSE /\ total = 0
  /\ pc = "idle" /\ x = 0 /\ last = 0 /\ up = FALSE /\ session = 0
  /\ sent = [s \in Session |-> <<>>]
  /\ netq = <<>> /\ tcp = <<>> /\ net = {} /\ lost = 0 /\ switches = 0
  /\ flag = FALSE /\ rtq = <<>>
  /\ sessionID = 0 /\ active = FALSE /\ needsBaseline = TRUE
  /\ lastSequence = 0 /\ lastTotal = 0
  /\ moved = 0 /\ base = 0 /\ owner = <<>> /\ replayed = FALSE

-----------------------------------------------------------------------------
(* The sender.                                                             *)

(* The UI thread takes a raw mouse event, whoever owns the input.          *)
handle_mouse ==
  /\ Len(owner) < MaxMoves
  /\ total' = Plus(total, 1)
  /\ owner' = Append(owner, target)
  /\ UNCHANGED <<target, posting, pc, x, last, up, session, sent, netq, tcp, net, boundVars,
                 receiverVars, moved, base, replayed>>

(* apply_target: the swap, and a little later the message.                 *)
apply_target ==
  /\ ~posting
  /\ target = "Local" => up
  /\ switches < MaxSwitches /\ switches' = switches + 1
  /\ target' = IF target = "Mac" THEN "Local" ELSE "Mac"
  /\ posting' = TRUE
  /\ UNCHANGED <<total, pc, x, last, up, session, sent, netq, tcp, net, lost,
                 receiverVars, historyVars>>

apply_target_send ==
  /\ posting
  /\ netq' = Append(netq, SwitchTo(target))
  /\ posting' = FALSE
  /\ base' = IF udp THEN base ELSE last
  /\ UNCHANGED <<target, total, pc, x, last, up, session, sent, tcp, net, boundVars,
                 receiverVars, moved, owner, replayed>>

(* The realtime thread's tick: load the total, and only then the target.   *)
run_load ==
  /\ up /\ pc = "idle"
  /\ pc' = "loaded" /\ x' = total
  /\ UNCHANGED <<target, posting, total, last, up, session, sent, netq, tcp, net, boundVars,
                 receiverVars, historyVars>>

(* mutant: the sample is sent and forgotten                                *)
Sampled_unkept == pc' = "idle" /\ last' = last /\ x' = 0

(* The end of a tick: what was loaded is what the next one starts from.    *)
Sampled == pc' = "idle" /\ last' = x /\ x' = 0

run_rebase ==
  /\ pc = "loaded" /\ target # "Mac"
  /\ Sampled
  /\ UNCHANGED <<target, posting, total, up, session, sent, netq, tcp, net, boundVars,
                 receiverVars, historyVars>>

KeepaliveDue_never == FALSE \* mutant: nothing is repeated once the mouse rests

(* Bound: a keep-alive goes out when it would change something and none is *)
(* under way.                                                              *)
KeepaliveDue ==
  /\ Keepalive /\ sessionID = session
  /\ needsBaseline \/ lastTotal # total
  /\ \A p \in net : ~Newer(p)

run_send ==
  /\ pc = "loaded" /\ target = "Mac"
  /\ Sampled
  /\ IF udp /\ (x # last \/ KeepaliveDue)
     THEN /\ sent' = [sent EXCEPT ![session] = Append(@, x)]
          /\ net' = net \cup {[session |-> session, sequence |-> Len(sent[session]) + 1, total |-> x]}
     ELSE UNCHANGED <<sent, net>>
  /\ netq' = IF ~udp /\ x # last
             THEN Append(netq, [kind |-> "move", from |-> last, to |-> x]) ELSE netq
  /\ UNCHANGED <<target, posting, total, up, session, tcp, boundVars, receiverVars, historyVars>>

(* The network thread writes a switch, and a motion if the Mac is still    *)
(* the target.                                                             *)
net_take ==
  /\ netq # <<>>
  /\ netq' = Tail(netq)
  /\ tcp' = IF up /\ (IsSwitch(Head(netq)) \/ target = "Mac") THEN Append(tcp, Head(netq)) ELSE tcp
  /\ UNCHANGED <<senderVars, net, boundVars, receiverVars, historyVars>>

(* A new session: the receiver hears of it first, then TARGET_ACTIVE(0).   *)
(* The target is local: set_link saw to that (module TargetSwitch).        *)
start_session ==
  /\ ~up /\ session < MaxSessions /\ target = "Local"
  /\ up' = TRUE /\ session' = session + 1 /\ last' = total
  /\ tcp' = tcp \o <<[kind |-> "begin", session |-> session + 1], [kind |-> "off"]>>
  /\ UNCHANGED <<target, posting, total, pc, x, sent, netq, net, boundVars, receiverVars, historyVars>>

(* The connection is closed, by either side or by the link: what was on    *)
(* its way may be lost.  The realtime thread finishes its tick first.  The *)
(* receiver sees the end, unless the next session replaces this one before *)
close_connection ==
  /\ up /\ pc = "idle"
  /\ up' = FALSE /\ last' = 0
  /\ \E n \in 0..Len(tcp) :
       tcp' \in {SubSeq(tcp, 1, n), Append(SubSeq(tcp, 1, n), [kind |-> "end"])}
  /\ UNCHANGED <<target, posting, total, pc, x, session, sent, netq, net, boundVars,
                 receiverVars, historyVars>>

-----------------------------------------------------------------------------
(* The receiver.  The control queue handles one frame at a time and hands  *)
(* blocks to the realtime queue.                                           *)

submit(from, to) ==
  /\ moved' = Plus(moved, Delta(to, from))
  /\ replayed' = (replayed \/ \E i \in from + 1 .. to : owner[i] # "Mac")

didReceive ==
  /\ tcp # <<>>
  /\ tcp' = Tail(tcp)
  /\ LET m == Head(tcp) IN
       IF m.kind = "move"
       THEN /\ IF flag THEN submit(m.from, m.to) ELSE UNCHANGED <<moved, replayed>>
            /\ UNCHANGED <<flag, rtq>>
       ELSE /\ rtq' = Append(rtq, m)
            /\ flag' = IF m.kind = "begin" THEN flag ELSE m.kind = "on"
            /\ moved' = IF ~udp /\ m.kind = "on" THEN 0 ELSE moved
            /\ UNCHANGED replayed
  /\ UNCHANGED <<senderVars, netq, net, boundVars, sessionID, active, needsBaseline,
                 lastSequence, lastTotal, base, owner>>

(* mutant: the baseline of an earlier switch is kept                       *)
run_block_old_baseline ==
  /\ rtq # <<>>
  /\ rtq' = Tail(rtq)
  /\ needsBaseline' = (Head(rtq).kind # "on")
  /\ LET m == Head(rtq) IN
       /\ sessionID' = CASE m.kind = "begin" -> m.session [] m.kind = "end" -> 0 [] OTHER -> sessionID
       /\ lastSequence' = IF m.kind = "begin" THEN 0 ELSE lastSequence
       /\ active' = CASE m.kind = "on" -> TRUE [] m.kind = "begin" -> active [] OTHER -> FALSE
  /\ UNCHANGED <<senderVars, netq, tcp, net, boundVars, flag, lastTotal, historyVars>>

(* The realtime queue runs a block of beginSession, endSession, setActive. *)
run_block ==
  /\ rtq # <<>>
  /\ rtq' = Tail(rtq)
  /\ needsBaseline' = TRUE
  /\ LET m == Head(rtq) IN
       /\ sessionID' = CASE m.kind = "begin" -> m.session [] m.kind = "end" -> 0 [] OTHER -> sessionID
       /\ lastSequence' = IF m.kind = "begin" THEN 0 ELSE lastSequence
       /\ active' = CASE m.kind = "on" -> TRUE [] m.kind = "begin" -> active [] OTHER -> FALSE
  /\ UNCHANGED <<senderVars, netq, tcp, net, boundVars, flag, lastTotal, historyVars>>

(* handle: a datagram of the live session that is newer than the last one. *)
(* It stays in flight, so it may be delivered again.                       *)
handle(p) ==
  /\ Newer(p)
  /\ lastSequence' = p.sequence /\ lastTotal' = p.total
  /\ needsBaseline' = FALSE
  /\ IF needsBaseline THEN base' = p.total /\ moved' = 0 /\ UNCHANGED replayed
     ELSE /\ UNCHANGED base
          /\ IF active THEN submit(lastTotal, p.total) ELSE UNCHANGED <<moved, replayed>>
  /\ UNCHANGED <<senderVars, netq, tcp, net, boundVars, flag, rtq, sessionID, active, owner>>

receive == \E p \in net : handle(p)

lose ==
  /\ lost < MaxLoss /\ lost' = lost + 1
  /\ \E p \in net : net' = net \ {p}
  /\ UNCHANGED <<senderVars, netq, tcp, switches, receiverVars, historyVars>>

-----------------------------------------------------------------------------
tick == run_load \/ run_rebase \/ run_send

Next ==
  \/ handle_mouse \/ apply_target \/ apply_target_send \/ tick
  \/ net_take \/ start_session \/ close_connection
  \/ didReceive \/ run_block \/ receive \/ lose

Spec == Init /\ [][Next]_vars

(* Every thread and queue is scheduled, and a datagram is delivered or     *)
(* lost; at most MaxLoss are lost.                                         *)
FairSpec ==
  /\ Spec
  /\ WF_vars(apply_target_send) /\ WF_vars(tick) /\ WF_vars(net_take)
  /\ WF_vars(didReceive) /\ WF_vars(run_block) /\ WF_vars(receive)

-----------------------------------------------------------------------------
TypeOK ==
  /\ udp \in BOOLEAN
  /\ target \in Target /\ posting \in BOOLEAN /\ total \in Count
  /\ pc \in {"idle", "loaded"} /\ x \in Count /\ last \in Count
  /\ up \in BOOLEAN /\ session \in 0..MaxSessions
  /\ sent \in [Session -> Seq(Count)]
  /\ netq \in Seq(Switch \cup Move) /\ tcp \in Seq(Switch \cup Move \cup Begin \cup End)
  /\ net \subseteq Packet /\ lost \in Nat /\ switches \in Nat
  /\ flag \in BOOLEAN /\ rtq \in Seq(Switch \cup Begin \cup End)
  /\ sessionID \in 0..MaxSessions /\ active \in BOOLEAN /\ needsBaseline \in BOOLEAN
  /\ lastSequence \in Nat /\ lastTotal \in Count
  /\ moved \in Count /\ base \in Count /\ owner \in Seq(Target) /\ replayed \in BOOLEAN

(* Loss, duplication and reordering never displace the pointer: while the  *)
(* receiver applies datagrams, the motion it has given to the scheduler is *)
(* what separates its baseline from the total the sender really had at the *)
(* newest sequence number it has seen (PROTOCOL.md section 5, rule 4).     *)
CursorOnPath ==
  udp /\ active /\ ~needsBaseline /\ sessionID # 0 =>
    /\ lastSequence \in DOMAIN sent[sessionID]
    /\ lastTotal = sent[sessionID][lastSequence]
    /\ moved = Delta(lastTotal, base)

(* Without UDP: from the switch to the Mac on, the motions applied and     *)
(* still queued follow on from each other up to what the last tick saw, so *)
(* none is skipped or doubled (realtime.rs:122).                           *)
NoGapOverTcp ==
  ~udp /\ up /\ target = "Mac" /\ ~posting =>
    LET q     == tcp \o netq
        ons   == {i \in DOMAIN q : q[i].kind # "move"}
        first == IF ons = {} THEN 1 ELSE 1 + CHOOSE i \in ons : \A j \in ons : j <= i
        start == IF ons = {} THEN Plus(base, moved) ELSE base
    IN  /\ \A i \in first..Len(q) : q[i].from = (IF i = first THEN start ELSE q[i - 1].to)
        /\ last = IF first > Len(q) THEN start ELSE q[Len(q)].to

(* With a keep-alive stream the pointer catches up with a mouse that has   *)
(* come to rest, although the last datagrams may be lost.                  *)
CatchesUp ==
  (up /\ target = "Mac" /\ ~posting) ~>
    (~up \/ target # "Mac" \/ (active /\ ~needsBaseline /\ lastTotal = total))

(* realtime.rs:68, RealtimeReceiver.swift:125: switching over never        *)
(* replays what the mouse did while Windows owned the input.               *)
NoReplay == ~replayed
=============================================================================
