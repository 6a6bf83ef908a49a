--------------------------- MODULE HeldKeysProofs ---------------------------
(***************************************************************************)
(* Proofs about HeldKeys, for any keys, buttons, hotkeys, settings and     *)
(* bounds: once all has arrived the Mac holds what was pressed since it got*)
(* the input and what is held on the keyboard, but for the keys the hook   *)
(* lets go astray or misfires; where no hook is called there are none.     *)
(***************************************************************************)
EXTENDS HeldKeys, TLAPS

-----------------------------------------------------------------------------
(* The tracker's side *)

(* What the tracker has yet to see. *)
Waiting == (IF th["ui"].pc = "key" THEN <<th["ui"].event>> ELSE <<>>) \o rawq

Down(k) == [key |-> k, down |-> TRUE]
Up(k)   == [key |-> k, down |-> FALSE]

(* Without the hook events reach the tracker in order.  As it works q off, *)
(* it has D[i] down after the i-th event, and at least Z[i] stale.  A      *)
(* trigger it has down when it meets the hotkey fired when it went down.   *)
Handled(e, D, Z) ==
  IF Fires(e, Modifier \in D) THEN Z \cup {e.key} ELSE IF e.down THEN Z ELSE Z \ {e.key}

Meets(e, D, Z) == Fires(e, Modifier \in D) /\ e.key \in D => e.key \in Z

Course(q, D, Z) ==
  /\ D \in [0..Len(q) -> SUBSET Held] /\ Z \in [0..Len(q) -> SUBSET Held]
  /\ \A i \in 1..Len(q) :
       /\ D[i] = After(D[i-1], q[i])
       /\ Z[i] = Handled(q[i], D[i-1], Z[i-1])
       /\ Meets(q[i], D[i-1], Z[i-1])

Expected(q, D, Z) ==
  /\ Course(q, D, Z) /\ D[0] = down /\ Z[0] \subseteq stale
  /\ D[Len(q)] = phys
  /\ latest \in DOMAIN Hotkeys /\ Modifier \in phys => latest \in Z[Len(q)]

UnhookedInv == ~setting.hooked => \E D, Z : Expected(Waiting, D, Z)

(* With it they may not, but a key that is not astray is down for real, its*)
(* release yet to be let by, if its last event on the way to the tracker is*)
(* a press, or none is and the tracker has it down and not stale.          *)
LastPressed(q, k) ==
  \E i \in 1..Len(q) : q[i] = Down(k) /\ \A j \in (i+1)..Len(q) : q[j].key # k

Unseen(q, k) == \A i \in 1..Len(q) : q[i].key # k

HookedInv ==
  setting.hooked =>
    \A k \in Held \ astray :
      LastPressed(Waiting, k) \/ (Unseen(Waiting, k) /\ k \in down \ stale)
        => k \in phys \ swallowed

TrackerInv == UnhookedInv /\ HookedInv

HooksInv ==
  /\ setting.hooked =>
       /\ hookMods <=> Modifier \in phys
       /\ latest \in DOMAIN Hotkeys /\ Modifier \in phys => latest \in swallowed
  /\ ~setting.hooked => swallowed = {} /\ astray = {} /\ misfired = {}
  /\ swallowed \subseteq phys /\ (latest # None => latest \in phys)

-----------------------------------------------------------------------------
(* The Mac's side *)

(* What the injector believes is what macOS will, one queue posting.       *)
MacInv ==
  /\ mainPosts \subseteq Ups(Held)
  /\ ~raced =>
       /\ posts = {} \/ mainPosts = {}
       /\ \A k \in Held : k \in pressed <=> \/ Down(k) \in posts
                                            \/ k \in macHeld /\ Up(k) \notin posts \cup mainPosts

(* Is the input the Mac's once the frames before the i-th of q are in?     *)
ActiveAt(q, a, i) ==
  \/ \E j \in 1..(i-1) : q[j].kind = "on" /\ \A l \in (j+1)..(i-1) : q[l].kind \in {"key", "begin"}
  \/ a /\ \A l \in 1..(i-1) : q[l].kind \in {"key", "begin"}

Presses(m, k)  == m.kind = "key" /\ m.event = Down(k)
Ignores(m, k)  == m.kind = "key" /\ m.event.key # k

(* Will k be pressed once the frames of q are in?                          *)
HeldBy(q, P, a, k) ==
  \/ \E j \in 1..Len(q) : Presses(q[j], k) /\ ActiveAt(q, a, j) /\ \A l \in (j+1)..Len(q) : Ignores(q[l], k)
  \/ k \in P /\ \A l \in 1..Len(q) : Ignores(q[l], k)

(* The frames for the Mac, and the one in the hands of the UI thread.      *)
InHand == IF th["ui"].pc \in {"forward", "write"} THEN <<Input(th["ui"].event)>> ELSE <<>>
Sent   == tcp \o chan
Coming == Sent \o InHand

Settled == \A t \in Thread : ~InSwitch(t)

SwitchInv ==
  /\ th["net"].pc \in {"swap", "store", "stale", "send"} => th["net"].to = "Local"
  /\ th["ui"].pc = "send" => down \subseteq stale
  /\ ~overlapped =>
       /\ ~(InSwitch("ui") /\ InSwitch("net"))
       /\ \A t \in Thread : InSwitch(t) => th[t].to = target

(* No more is held than should be ...                                      *)
ReleasedInv ==
  /\ ~active => pressed = {}
  /\ ~conn => \A k \in Held : ~HeldBy(tcp, pressed, active, k)
  /\ conn /\ Settled /\ target = "Local" /\ (\A i \in 1..Len(chan) : chan[i].kind = "key") =>
       \A k \in Held : ~HeldBy(tcp, pressed, active, k)
  /\ conn /\ Settled /\ target = "Mac" =>
       \A k \in Held : HeldBy(Coming, pressed, active, k) => k \in (down \ stale) \cup misfired

(* ... and no less, unless switches overlapped or the Mac slept.           *)
PressedInv ==
  conn /\ Settled /\ target = "Mac" /\ ~overlapped =>
    /\ ActiveAt(Sent, active, Len(Sent) + 1)
    /\ sleeps = 0 => \A k \in down \ stale : HeldBy(Coming, pressed, active, k)

-----------------------------------------------------------------------------
(* Types *)

LEMMA EventStates ==
  ASSUME NEW s \in States
  PROVE  /\ s.pc \in {"idle", "key", "forward", "write", "swap", "store", "stale", "send"}
         /\ s.pc \in {"key", "forward", "write"} => s.event \in Event
         /\ s.pc \in {"swap", "store", "stale", "send"} => s.to \in {"Local", "Mac"}
         /\ s = Idle <=> s.pc = "idle"
BY DEF States, Idle

LEMMA StatesMade ==
  /\ Idle \in States
  /\ \A e \in Event, p \in {"key", "forward", "write"} : At(p, e) \in States
  /\ \A a \in {"Local", "Mac"} : Switch(a) \in States
  /\ \A s \in States, p \in {"store", "stale", "send"} :
       s.pc \in {"swap", "store", "stale", "send"} => [s EXCEPT !.pc = p] \in States
BY DEF States, Idle, At, Switch

LEMMA FramesMade ==
  /\ \A kind \in {"on", "off", "begin", "end"} : Frame(kind) \in Frames
  /\ \A e \in Event : Input(e) \in Frames
  /\ \A a \in {"Local", "Mac"} : TargetChanged(a) \in Frames
BY DEF Frame, Input, Frames, TargetChanged

(* What a thread does next. *)
LEMMA ThreadGoes ==
  ASSUME TypeOK, NEW t \in Thread, NEW s \in States, Goto(t, s),
         t = "net" => s.pc \notin {"key", "forward", "write"}
  PROVE  th' \in [Thread -> States] /\ th'["net"].pc \notin {"key", "forward", "write"}
BY DEF TypeOK, Goto, Thread

LEMMA HotkeyKeys ==
  /\ DOMAIN Hotkeys \subseteq Keys /\ Modifier \in Keys \ DOMAIN Hotkeys
  /\ Keys \subseteq Held /\ Held = Keys \cup Buttons /\ Modifier \in Held
  /\ \A k \in DOMAIN Hotkeys : Hotkeys[k] \in {"Local", "Mac"} /\ k # None
BY HeldKeysAssumption DEF Held, None

LEMMA Dispatches ==
  ASSUME TypeOK, NEW action \in {"Local", "Mac"}, dispatch(action)
  PROVE  /\ lastAction' \in {None, "Local", "Mac"}
         /\ th' \in [Thread -> States] /\ th'["net"].pc \notin {"key", "forward", "write"}
<1>1. CASE Goto("ui", Idle) /\ lastAction' = lastAction
  BY <1>1, ThreadGoes, StatesMade DEF Thread, TypeOK
<1>2. CASE lastAction' = action /\ Goto("ui", IF action = "Mac" /\ ~conn THEN Idle ELSE Switch(action))
  <2> DEFINE next == IF action = "Mac" /\ ~conn THEN Idle ELSE Switch(action)
  <2>1. next \in States
    BY StatesMade
  <2> QED
    BY <1>2, <2>1, ThreadGoes DEF Thread, TypeOK
<1> QED
  BY <1>1, <1>2 DEF dispatch

LEMMA AfterHeld ==
  ASSUME NEW S \in SUBSET Held, NEW e \in Event
  PROVE  After(S, e) \subseteq Held
BY DEF After, Event

LEMMA UpEvents ==
  ASSUME NEW S \in SUBSET Held
  PROVE  Ups(S) \subseteq Event
BY DEF Ups, Event

LEMMA TypeInit == Init => TypeOK
<1> SUFFICES ASSUME Init PROVE TypeOK
  OBVIOUS
<1>1. th \in [Thread -> States] /\ th["net"].pc \notin {"key", "forward", "write"}
  BY StatesMade DEF Init, Idle, Thread
<1>2. <<>> \in Seq(Event) /\ <<>> \in Seq(Frames)
  OBVIOUS
<1> QED
  BY <1>1, <1>2 DEF Init, TypeOK

LEMMA TypeStep ==
  ASSUME TypeOK, [Next]_vars
  PROVE  TypeOK'
<1> USE DEF hardware, hooks, tracker, app, wire, receiver, history
<1>1. ASSUME NEW t \in Thread, apply_target(t)
      PROVE  TypeOK'
  <2>1. th[t] \in States
    BY DEF TypeOK
  <2>2. CASE apply_target_swap(t)
    <3> DEFINE next == IF target = th[t].to THEN Idle ELSE [th[t] EXCEPT !.pc = "store"]
    <3>1. th[t].pc = "swap" /\ th[t].to \in {"Local", "Mac"} /\ next \in States
      BY <2>1, <2>2, EventStates, StatesMade DEF apply_target_swap
    <3>2. next.pc \in {"idle", "store"}
      BY <2>1, <3>1 DEF Idle, States
    <3>3. Goto(t, next)
      BY <2>2 DEF apply_target_swap
    <3>4. th' \in [Thread -> States] /\ th'["net"].pc \notin {"key", "forward", "write"}
      BY <3>1, <3>2, <3>3, ThreadGoes
    <3>5. overlapped' \in BOOLEAN
      BY <2>2 DEF apply_target_swap, TypeOK
    <3> QED
      BY <2>2, <3>1, <3>4, <3>5 DEF apply_target_swap, TypeOK
  <2>3. ASSUME NEW p \in {"stale", "send"}, th[t].pc \in {"store", "stale"}, Goto(t, [th[t] EXCEPT !.pc = p])
        PROVE  th' \in [Thread -> States] /\ th'["net"].pc \notin {"key", "forward", "write"}
    <3>1. [th[t] EXCEPT !.pc = p] \in States
      BY <2>1, <2>3, StatesMade
    <3>2. [th[t] EXCEPT !.pc = p].pc = p
      BY <2>1 DEF States
    <3> QED
      BY <2>3, <3>1, <3>2, ThreadGoes
  <2>4. CASE apply_target_store(t)
    BY <2>3, <2>4 DEF apply_target_store, TypeOK
  <2>5. CASE mark_all_stale(t)
    BY <2>3, <2>5 DEF mark_all_stale, TypeOK
  <2>6. CASE apply_target_send(t)
    <3>1. TargetChanged(th[t].to) \in Frames
      BY <2>1, <2>6, EventStates, FramesMade DEF apply_target_send
    <3>2. th' \in [Thread -> States] /\ th'["net"].pc \notin {"key", "forward", "write"}
      BY <2>6, StatesMade, ThreadGoes DEF apply_target_send, Idle
    <3> QED
      BY <2>6, <3>1, <3>2 DEF apply_target_send, TypeOK
  <2> QED
    BY <1>1, <2>2, <2>4, <2>5, <2>6 DEF apply_target
<1>2. CASE physical_event
  <2> PICK e \in Event :
        /\ phys' = After(phys, e)
        /\ latest' = IF e.down /\ e.key \in Keys THEN e.key ELSE IF e.key = latest THEN None ELSE latest
        /\ IF ~setting.hooked THEN unhooked(e)
             ELSE IF e.key \in Keys THEN keyboard_proc(e) ELSE mouse_proc(e)
    BY <1>2 DEF physical_event
  <2>1. phys' \subseteq Held /\ latest' \in Keys \cup {None} /\ events' \in Nat
    BY <1>2, AfterHeld DEF physical_event, TypeOK
  <2>2. UNCHANGED <<setting, down, stale, app, chan, wire, receiver, misfired>>
    BY <1>2 DEF physical_event
  <2>3. CASE unhooked(e) \/ mouse_proc(e)
    <3>1. rawq' = Append(rawq, e) /\ UNCHANGED <<hookMods, swallowed, lastAction, th, astray>>
      BY <2>3 DEF unhooked, mouse_proc, CallNextHook
    <3>2. rawq' \in Seq(Event)
      BY <3>1 DEF TypeOK
    <3> QED
      BY <2>1, <2>2, <3>1, <3>2 DEF TypeOK
  <2>4. CASE keyboard_proc(e)
    <3>1. hookMods' \in BOOLEAN /\ astray' \subseteq Held
      BY <2>4 DEF keyboard_proc, Event, TypeOK
    <3>2. /\ swallowed' \subseteq DOMAIN Hotkeys /\ rawq' \in Seq(Event)
          /\ lastAction' \in {None, "Local", "Mac"}
          /\ th' \in [Thread -> States] /\ th'["net"].pc \notin {"key", "forward", "write"}
      <4>1. CASE Fires(e, hookMods) /\ swallowed' = swallowed \cup {e.key} /\ dispatch(Hotkeys[e.key]) /\ UNCHANGED rawq
        BY <4>1, Dispatches, HotkeyKeys DEF Fires, TypeOK
      <4>2. CASE swallowed' = swallowed \ {e.key} /\ UNCHANGED <<rawq, lastAction, th>>
        BY <4>2 DEF TypeOK
      <4>3. CASE Goto("ui", At("key", e)) /\ UNCHANGED <<rawq, swallowed, lastAction>>
        BY <4>3, StatesMade, ThreadGoes DEF TypeOK, Thread
      <4>4. CASE CallNextHook(e) /\ UNCHANGED <<th, swallowed, lastAction>>
        BY <4>4 DEF TypeOK, CallNextHook
      <4> QED
        BY <2>4, <4>1, <4>2, <4>3, <4>4 DEF keyboard_proc
    <3> QED
      BY <2>1, <2>2, <3>1, <3>2 DEF TypeOK
  <2> QED
    BY <2>3, <2>4
<1>3. CASE push_off_edge
  BY <1>3, Dispatches DEF push_off_edge, TypeOK
<1>4. CASE on_wm_input
  <2>1. Head(rawq) \in Event /\ Tail(rawq) \in Seq(Event)
    BY <1>4 DEF on_wm_input, TypeOK
  <2>2. th' \in [Thread -> States] /\ th'["net"].pc \notin {"key", "forward", "write"}
    BY <1>4, <2>1, StatesMade, ThreadGoes DEF on_wm_input, Thread
  <2> QED
    BY <1>4, <2>1, <2>2 DEF on_wm_input, TypeOK
<1>5. CASE on_key
  <2> DEFINE e == th["ui"].event
  <2>1. e \in Event
    BY <1>5, EventStates DEF on_key, TypeOK, Thread
  <2>2. e.key \in Held /\ After(down, e) \subseteq Held
    BY <2>1, AfterHeld DEF Event, TypeOK
  <2>3. /\ stale' \subseteq Held /\ lastAction' \in {None, "Local", "Mac"}
        /\ th' \in [Thread -> States] /\ th'["net"].pc \notin {"key", "forward", "write"}
    <3>1. CASE Fires(e, Modifier \in down)
      BY <1>5, <2>2, <3>1, Dispatches, HotkeyKeys DEF on_key, Fires, TypeOK
    <3>2. CASE ~Fires(e, Modifier \in down)
      <4> DEFINE next == IF e.key \in stale THEN Idle ELSE At("forward", e)
      <4>1. next \in States
        BY <2>1, StatesMade
      <4>2. Goto("ui", next) /\ UNCHANGED lastAction /\ stale' \subseteq Held
        BY <1>5, <3>2 DEF on_key, TypeOK
      <4> QED
        BY <4>1, <4>2, ThreadGoes DEF Thread, TypeOK
    <3> QED
      BY <3>1, <3>2
  <2>4. astray' \subseteq Held /\ misfired' \subseteq Held
    BY <1>5, <2>2 DEF on_key, TypeOK
  <2> QED
    BY <1>5, <2>2, <2>3, <2>4 DEF on_key, TypeOK
<1>6. CASE handle_key_event
  <2> DEFINE next == IF target = "Mac" THEN At("write", th["ui"].event) ELSE Idle
  <2>1. next \in States
    BY <1>6, EventStates, StatesMade DEF handle_key_event, TypeOK, Thread
  <2>2. th' \in [Thread -> States] /\ th'["net"].pc \notin {"key", "forward", "write"}
    BY <1>6, <2>1, ThreadGoes DEF handle_key_event, Thread
  <2> QED
    BY <1>6, <2>2 DEF handle_key_event, TypeOK
<1>7. CASE handle_key_event_send
  <2>1. Input(th["ui"].event) \in Frames
    BY <1>7, EventStates, FramesMade DEF handle_key_event_send, TypeOK, Thread
  <2>2. th' \in [Thread -> States] /\ th'["net"].pc \notin {"key", "forward", "write"}
    BY <1>7, StatesMade, ThreadGoes DEF handle_key_event_send, Thread
  <2> QED
    BY <1>7, <2>1, <2>2 DEF handle_key_event_send, TypeOK
<1>8. CASE net_take
  <2>1. Head(chan) \in Frames /\ Tail(chan) \in Seq(Frames)
    BY <1>8 DEF net_take, TypeOK
  <2> QED
    BY <1>8, <2>1 DEF net_take, TypeOK
<1>9. ASSUME NEW s \in States, s.pc \in {"idle", "swap"}, Goto("net", s)
      PROVE  th' \in [Thread -> States] /\ th'["net"].pc \notin {"key", "forward", "write"}
  BY <1>9, ThreadGoes DEF Thread
<1>10. CASE edge_hit
  BY <1>9, <1>10, StatesMade DEF edge_hit, Switch, TypeOK
<1>11. CASE drop_connection
  <2> DEFINE next == IF target = "Mac" THEN Switch("Local") ELSE Idle
  <2>1. next \in States /\ next.pc \in {"idle", "swap"}
    BY StatesMade DEF Switch, Idle
  <2>2. tcp' \in Seq(Frames)
    BY <1>11, FramesMade DEF drop_connection, TypeOK
  <2>3. th' \in [Thread -> States] /\ th'["net"].pc \notin {"key", "forward", "write"}
    BY <1>9, <1>11, <2>1 DEF drop_connection
  <2>4. returns' = returns + 1 /\ conn' = FALSE
    BY <1>11 DEF drop_connection
  <2>5. UNCHANGED <<hardware, hooks, rawq, tracker, app, chan, receiver, history>>
    BY <1>11 DEF drop_connection
  <2>6. conn' \in BOOLEAN
    BY <2>4, Zenon
  <2>7. returns' \in Nat
    BY <2>4 DEF TypeOK
  <2> QED
    BY <2>2, <2>3, <2>5, <2>6, <2>7 DEF TypeOK
<1>12. CASE start_session
  <2>1. CASE target = "Mac"
    BY <1>9, <1>12, <2>1, StatesMade DEF start_session, Switch, TypeOK
  <2>2. CASE target # "Mac"
    <3>1. <<Frame("begin"), Frame("off")>> \in Seq(Frames)
      BY FramesMade
    <3>2. PICK unheard \in {0, 1} :
            /\ unheard <= Len(tcp)
            /\ tcp' = SubSeq(tcp, 1, Len(tcp) - unheard) \o <<Frame("begin"), Frame("off")>>
      BY <1>12, <2>2 DEF start_session
    <3>3. SubSeq(tcp, 1, Len(tcp) - unheard) \in Seq(Frames)
      BY <3>2 DEF TypeOK
    <3>4. tcp' \in Seq(Frames)
      BY <3>1, <3>2, <3>3
    <3>5. conn' \in BOOLEAN /\ UNCHANGED th
      BY <1>12, <2>2 DEF start_session
    <3> QED
      BY <1>12, <3>4, <3>5 DEF start_session, TypeOK
  <2> QED
    BY <2>1, <2>2
<1>13. CASE didReceive
  <2>1. Head(tcp) \in Frames /\ Tail(tcp) \in Seq(Frames)
    BY <1>13 DEF didReceive, TypeOK
  <2>2. active' \in BOOLEAN /\ pressed' \subseteq Held /\ posts' \subseteq Event /\ raced' \in BOOLEAN
    <3>1. CASE Head(tcp).kind = "key" /\ active
      <4>1. Head(tcp).event \in Event
        BY <2>1, <3>1 DEF Frames
      <4>2. injector_key(Head(tcp).event)
        BY <1>13, <3>1 DEF didReceive
      <4>3. pressed' \subseteq Held /\ posts' \subseteq Event
        BY <4>1, <4>2, AfterHeld DEF injector_key, TypeOK
      <4> QED
        BY <1>13, <3>1, <4>3 DEF didReceive, TypeOK
    <3>2. CASE Head(tcp).kind = "key" /\ ~active
      BY <1>13, <3>2 DEF didReceive, TypeOK
    <3>3. CASE Head(tcp).kind # "key"
      BY <1>13, <3>3, UpEvents DEF didReceive, releaseAll, TypeOK
    <3> QED
      BY <3>1, <3>2, <3>3
  <2> QED
    BY <1>13, <2>1, <2>2 DEF didReceive, TypeOK
<1>14. CASE post \/ willSleep_post
  <2>1. macHeld' \subseteq Held /\ posts' \subseteq Event /\ mainPosts' \subseteq Event
    BY <1>14 DEF post, willSleep_post, Post, TypeOK
  <2>2. UNCHANGED <<hardware, hooks, rawq, tracker, app, th, chan, wire, active, pressed, sleeps, raced, history>>
    BY <1>14 DEF post, willSleep_post
  <2> QED
    BY <2>1, <2>2 DEF TypeOK
<1>15. CASE willSleep
  BY <1>15, UpEvents DEF willSleep, TypeOK
<1>16. CASE UNCHANGED vars
  BY <1>16 DEF vars, TypeOK
<1> QED
  BY <1>1, <1>2, <1>3, <1>4, <1>5, <1>6, <1>7, <1>8, <1>10, <1>11, <1>12, <1>13, <1>14, <1>15, <1>16
  DEF Next, ui_step, net_step, Thread

(* TypeOK, for any keys, hotkeys and bounds. *)
THEOREM TypeCorrect == Spec => []TypeOK
BY TypeInit, TypeStep, PTL DEF Spec

-----------------------------------------------------------------------------
(* The tracker sees what the hook lets by *)

LEMMA CourseLonger ==
  ASSUME NEW q \in Seq(Event), NEW D, NEW Z, Course(q, D, Z),
         NEW e \in Event, Meets(e, D[Len(q)], Z[Len(q)])
  PROVE  \E D1, Z1 :
           /\ Course(Append(q, e), D1, Z1)
           /\ D1[0] = D[0] /\ Z1[0] = Z[0]
           /\ D1[Len(q) + 1] = After(D[Len(q)], e)
           /\ Z1[Len(q) + 1] = Handled(e, D[Len(q)], Z[Len(q)])
<1> DEFINE n == Len(q)
           d == After(D[n], e)
           z == Handled(e, D[n], Z[n])
           q1 == Append(q, e)
           D1 == [i \in 0..(n + 1) |-> IF i = n + 1 THEN d ELSE D[i]]
           Z1 == [i \in 0..(n + 1) |-> IF i = n + 1 THEN z ELSE Z[i]]
<1>1. n \in Nat /\ Len(q1) = n + 1 /\ q1[n + 1] = e /\ \A i \in 1..n : q1[i] = q[i]
  OBVIOUS
<1>2. D \in [0..n -> SUBSET Held] /\ Z \in [0..n -> SUBSET Held]
  BY DEF Course
<1>3. d \in SUBSET Held /\ z \in SUBSET Held
  BY <1>1, <1>2, AfterHeld DEF Handled, Event
<1> HIDE DEF d, z, q1
<1>4. D1 \in [0..(n + 1) -> SUBSET Held] /\ Z1 \in [0..(n + 1) -> SUBSET Held]
  BY <1>1, <1>2, <1>3
<1>5. /\ D1[n + 1] = d /\ Z1[n + 1] = z
      /\ \A i \in 0..n : D1[i] = D[i] /\ Z1[i] = Z[i]
  BY <1>1
<1>6. ASSUME NEW i \in 1..(n + 1)
      PROVE  /\ D1[i] = After(D1[i-1], q1[i])
             /\ Z1[i] = Handled(q1[i], D1[i-1], Z1[i-1])
             /\ Meets(q1[i], D1[i-1], Z1[i-1])
  <2>1. CASE i = n + 1
    <3>1. D1[i-1] = D[n] /\ Z1[i-1] = Z[n] /\ q1[i] = e /\ D1[i] = d /\ Z1[i] = z
      BY <1>1, <1>5, <2>1
    <3> QED
      BY <3>1 DEF d, z
  <2>2. CASE i # n + 1
    <3>1. i \in 1..n /\ i - 1 \in 0..n /\ i \in 0..n
      BY <1>1, <2>2
    <3>2. D1[i-1] = D[i-1] /\ Z1[i-1] = Z[i-1] /\ q1[i] = q[i] /\ D1[i] = D[i] /\ Z1[i] = Z[i]
      BY <1>1, <1>5, <3>1
    <3> QED
      BY <3>1, <3>2 DEF Course
  <2> QED
    BY <2>1, <2>2
<1> HIDE DEF D1, Z1
<1>7. Course(q1, D1, Z1)
  BY <1>1, <1>4, <1>6 DEF Course
<1> QED
  BY <1>1, <1>5, <1>7 DEF d, z, q1

LEMMA CourseShorter ==
  ASSUME NEW q \in Seq(Event), q # <<>>, NEW D, NEW Z, Course(q, D, Z)
  PROVE  /\ Meets(Head(q), D[0], Z[0])
         /\ \E D1, Z1 :
              /\ Course(Tail(q), D1, Z1)
              /\ D1[0] = After(D[0], Head(q)) /\ Z1[0] = Handled(Head(q), D[0], Z[0])
              /\ D1[Len(Tail(q))] = D[Len(q)] /\ Z1[Len(Tail(q))] = Z[Len(q)]
<1> DEFINE n == Len(Tail(q))
           q1 == Tail(q)
           D1 == [i \in 0..n |-> D[i + 1]]
           Z1 == [i \in 0..n |-> Z[i + 1]]
<1>1. /\ n \in Nat /\ Len(q) = n + 1 /\ Head(q) = q[1]
      /\ \A i \in 1..n : q1[i] = q[i + 1]
  OBVIOUS
<1>2. D \in [0..(n + 1) -> SUBSET Held] /\ Z \in [0..(n + 1) -> SUBSET Held]
  BY <1>1 DEF Course
<1>3. \A i \in 1..(n + 1) :
        /\ D[i] = After(D[i-1], q[i])
        /\ Z[i] = Handled(q[i], D[i-1], Z[i-1])
        /\ Meets(q[i], D[i-1], Z[i-1])
  BY <1>1 DEF Course
<1> HIDE DEF n, q1
<1>4. D1 \in [0..n -> SUBSET Held] /\ Z1 \in [0..n -> SUBSET Held]
  BY <1>1, <1>2
<1>5. \A i \in 0..n : D1[i] = D[i + 1] /\ Z1[i] = Z[i + 1]
  OBVIOUS
<1> HIDE DEF D1, Z1
<1>6. ASSUME NEW i \in 1..n
      PROVE  /\ D1[i] = After(D1[i-1], q1[i])
             /\ Z1[i] = Handled(q1[i], D1[i-1], Z1[i-1])
             /\ Meets(q1[i], D1[i-1], Z1[i-1])
  <2>1. i + 1 \in 1..(n + 1) /\ (i + 1) - 1 = i /\ i - 1 \in 0..n /\ (i - 1) + 1 = i /\ i \in 0..n
    BY <1>1
  <2>2. D1[i] = D[i + 1] /\ Z1[i] = Z[i + 1] /\ D1[i-1] = D[i] /\ Z1[i-1] = Z[i] /\ q1[i] = q[i + 1]
    BY <1>1, <1>5, <2>1
  <2>3. /\ D[i + 1] = After(D[i], q[i + 1])
        /\ Z[i + 1] = Handled(q[i + 1], D[i], Z[i])
        /\ Meets(q[i + 1], D[i], Z[i])
    BY <1>3, <2>1
  <2> QED
    BY <2>2, <2>3
<1>7. Course(q1, D1, Z1)
  BY <1>4, <1>6 DEF Course, n, q1
<1>8. D[1] = After(D[0], q[1]) /\ Z[1] = Handled(q[1], D[0], Z[0]) /\ Meets(q[1], D[0], Z[0])
  <2>1. 1 \in 1..(n + 1) /\ 1 - 1 = 0
    BY <1>1
  <2> QED
    BY <1>3, <2>1
<1>9. D1[0] = D[1] /\ Z1[0] = Z[1] /\ D1[n] = D[Len(q)] /\ Z1[n] = Z[Len(q)]
  BY <1>1, <1>5
<1> QED
  BY <1>1, <1>7, <1>8, <1>9 DEF n, q1

(* What an event more, at the end or in front, does to what waits. *)
LEMMA SeenLonger ==
  ASSUME NEW q \in Seq(Event), NEW e \in Event, NEW k
  PROVE  /\ LastPressed(Append(q, e), k) <=> IF e.key = k THEN e = Down(k) ELSE LastPressed(q, k)
         /\ Unseen(Append(q, e), k) <=> Unseen(q, k) /\ e.key # k
<1> DEFINE n == Len(q)
           q1 == Append(q, e)
<1>1. /\ n \in Nat /\ Len(q1) = n + 1 /\ q1[n + 1] = e /\ \A i \in 1..n : q1[i] = q[i]
      /\ q1 \in Seq(Event)
  OBVIOUS
<1> HIDE DEF q1
<1>2. Unseen(q1, k) <=> Unseen(q, k) /\ e.key # k
  <2>1. \A i \in 1..(n + 1) : i \in 1..n \/ i = n + 1
    BY <1>1
  <2>2. n + 1 \in 1..(n + 1) /\ \A i \in 1..n : i \in 1..(n + 1)
    BY <1>1
  <2> QED
    BY <1>1, <2>1, <2>2 DEF Unseen
<1>3. CASE e.key = k
  <2>1. ASSUME LastPressed(q1, k) PROVE e = Down(k)
    <3> PICK i \in 1..(n + 1) : q1[i] = Down(k) /\ \A j \in (i+1)..(n + 1) : q1[j].key # k
      BY <1>1, <2>1 DEF LastPressed
    <3>1. i = n + 1
      <4>1. i # n + 1 => n + 1 \in (i+1)..(n + 1)
        BY <1>1
      <4> QED
        BY <1>1, <1>3, <4>1
    <3> QED
      BY <1>1, <3>1
  <2>2. ASSUME e = Down(k) PROVE LastPressed(q1, k)
    <3>1. n + 1 \in 1..(n + 1) /\ (n + 2)..(n + 1) = {} /\ (n + 1) + 1 = n + 2
      BY <1>1
    <3> QED
      BY <1>1, <2>2, <3>1 DEF LastPressed
  <2> QED
    BY <1>2, <1>3, <2>1, <2>2 DEF q1
<1>4. CASE e.key # k
  <2>1. ASSUME LastPressed(q1, k) PROVE LastPressed(q, k)
    <3> PICK i \in 1..(n + 1) : q1[i] = Down(k) /\ \A j \in (i+1)..(n + 1) : q1[j].key # k
      BY <1>1, <2>1 DEF LastPressed
    <3>1. i # n + 1
      BY <1>1, <1>4 DEF Down
    <3>2. i \in 1..n /\ \A j \in (i+1)..n : j \in (i+1)..(n + 1) /\ j \in 1..n
      BY <1>1, <3>1
    <3> QED
      BY <1>1, <3>2 DEF LastPressed
  <2>2. ASSUME LastPressed(q, k) PROVE LastPressed(q1, k)
    <3> PICK i \in 1..n : q[i] = Down(k) /\ \A j \in (i+1)..n : q[j].key # k
      BY <2>2 DEF LastPressed
    <3>1. i \in 1..(n + 1) /\ \A j \in (i+1)..(n + 1) : j = n + 1 \/ (j \in (i+1)..n /\ j \in 1..n)
      BY <1>1
    <3>2. q1[i] = Down(k)
      BY <1>1
    <3>3. \A j \in (i+1)..(n + 1) : q1[j].key # k
      BY <1>1, <1>4, <3>1
    <3> QED
      BY <1>1, <3>1, <3>2, <3>3 DEF LastPressed
  <2> QED
    BY <1>2, <1>4, <2>1, <2>2 DEF q1
<1> QED
  BY <1>3, <1>4

LEMMA SeenSooner ==
  ASSUME NEW q \in Seq(Event), NEW e \in Event, NEW k
  PROVE  /\ LastPressed(<<e>> \o q, k) <=> LastPressed(q, k) \/ (e = Down(k) /\ Unseen(q, k))
         /\ Unseen(<<e>> \o q, k) <=> e.key # k /\ Unseen(q, k)
<1> DEFINE n == Len(q)
           q1 == <<e>> \o q
<1>1. n \in Nat /\ Len(q1) = n + 1 /\ q1[1] = e /\ \A i \in 1..n : q1[i + 1] = q[i]
  OBVIOUS
<1> HIDE DEF q1
<1>2. /\ \A i \in 1..(n + 1) : i = 1 \/ (i - 1 \in 1..n /\ (i - 1) + 1 = i)
      /\ 1 \in 1..(n + 1) /\ \A i \in 1..n : i + 1 \in 1..(n + 1)
  BY <1>1
<1>3. \A i \in 1..(n + 1) : q1[i] = IF i = 1 THEN e ELSE q[i - 1]
  BY <1>1, <1>2
<1>4. Unseen(q1, k) <=> e.key # k /\ Unseen(q, k)
  <2>1. Unseen(q1, k) => e.key # k /\ Unseen(q, k)
    BY <1>1, <1>2 DEF Unseen
  <2>2. e.key # k /\ Unseen(q, k) => Unseen(q1, k)
    BY <1>1, <1>2, <1>3 DEF Unseen
  <2> QED
    BY <2>1, <2>2
<1>5. ASSUME LastPressed(q1, k) PROVE LastPressed(q, k) \/ (e = Down(k) /\ Unseen(q, k))
  <2> PICK i \in 1..(n + 1) : q1[i] = Down(k) /\ \A j \in (i+1)..(n + 1) : q1[j].key # k
    BY <1>1, <1>5 DEF LastPressed
  <2>1. CASE i = 1
    <3>1. \A j \in 1..n : j + 1 \in (i+1)..(n + 1)
      BY <1>1, <2>1
    <3> QED
      BY <1>1, <2>1, <3>1 DEF Unseen
  <2>2. CASE i # 1
    <3>1. i - 1 \in 1..n /\ q[i - 1] = Down(k)
      BY <1>2, <1>3, <2>2
    <3>2. \A j \in ((i-1)+1)..n : j \in 1..n /\ j + 1 \in (i+1)..(n + 1)
      BY <1>1, <3>1
    <3>3. \A j \in ((i-1)+1)..n : q[j].key # k
      BY <1>1, <3>2
    <3> QED
      BY <3>1, <3>3 DEF LastPressed
  <2> QED
    BY <2>1, <2>2
<1>6. ASSUME LastPressed(q, k) PROVE LastPressed(q1, k)
  <2> PICK i \in 1..n : q[i] = Down(k) /\ \A j \in (i+1)..n : q[j].key # k
    BY <1>6 DEF LastPressed
  <2>1. i + 1 \in 1..(n + 1) /\ q1[i + 1] = Down(k)
    BY <1>1, <1>2
  <2>2. \A j \in ((i+1)+1)..(n + 1) : j \in 1..(n + 1) /\ j # 1 /\ j - 1 \in (i+1)..n
    BY <1>1
  <2>3. \A j \in ((i+1)+1)..(n + 1) : q1[j].key # k
    BY <1>3, <2>2
  <2> QED
    BY <1>1, <2>1, <2>3 DEF LastPressed
<1>7. ASSUME e = Down(k), Unseen(q, k) PROVE LastPressed(q1, k)
  <2>1. \A j \in 2..(n + 1) : j \in 1..(n + 1) /\ j # 1 /\ j - 1 \in 1..n
    BY <1>1
  <2>2. \A j \in 2..(n + 1) : q1[j].key # k
    BY <1>3, <1>7, <2>1 DEF Unseen
  <2>3. 1 + 1 = 2
    OBVIOUS
  <2> QED
    BY <1>1, <1>2, <1>7, <2>2, <2>3 DEF LastPressed
<1> QED
  BY <1>4, <1>5, <1>6, <1>7 DEF q1

LEMMA UiIdle ==
  ASSUME TypeOK, th["ui"] = Idle
  PROVE  Waiting = rawq /\ th["ui"].pc = "idle"
<1>1. th["ui"].pc = "idle"
  BY DEF Idle
<1> QED
  BY <1>1 DEF Waiting, TypeOK

LEMMA WaitingType ==
  ASSUME TypeOK
  PROVE  /\ Waiting \in Seq(Event)
         /\ th["ui"].pc # "key" => Waiting = rawq
         /\ th["ui"].pc = "key" => /\ Waiting # <<>> /\ Head(Waiting) = th["ui"].event
                                   /\ Tail(Waiting) = rawq
<1>1. rawq \in Seq(Event) /\ th["ui"] \in States
  BY DEF TypeOK, Thread
<1>2. CASE th["ui"].pc = "key"
  <2>1. th["ui"].event \in Event
    BY <1>1, <1>2, EventStates
  <2> QED
    BY <1>1, <1>2, <2>1 DEF Waiting
<1>3. CASE th["ui"].pc # "key"
  BY <1>1, <1>3 DEF Waiting
<1> QED
  BY <1>2, <1>3

(* Without the hook the tracker will see an event last.  With it, either   *)
(* the hook eats the event, or the tracker sees it last or, forwarded by   *)
(* the hook, next.                                                         *)
Eats(e) ==
  /\ Waiting' = Waiting /\ UNCHANGED astray
  /\ \/ Fires(e, hookMods) /\ swallowed' = swallowed \cup {e.key}
     \/ ReleaseEaten(e) /\ swallowed' = swallowed \ {e.key}

LetsBy(e) ==
  /\ UNCHANGED swallowed /\ astray \subseteq astray'
  /\ ~Fires(e, hookMods)
  /\ e.key \in swallowed => e.down /\ e.key \in astray'
  /\ \/ Waiting' = Append(Waiting, e)
     \/ Waiting' = <<e>> \o Waiting /\ (e.down \/ Unseen(Waiting, e.key) \/ e.key \in astray')

LEMMA Happens ==
  ASSUME TypeOK, TypeOK', physical_event
  PROVE  \E e \in Event :
           /\ Possible(e) /\ phys' = After(phys, e)
           /\ latest' = IF e.down /\ e.key \in Keys THEN e.key ELSE IF e.key = latest THEN None ELSE latest
           /\ ~setting.hooked => Waiting' = Append(Waiting, e) /\ UNCHANGED <<swallowed, astray>>
           /\ setting.hooked => /\ hookMods' = IF e.key = Modifier THEN e.down ELSE hookMods
                                /\ Eats(e) \/ LetsBy(e)
<1> PICK e \in Event :
      /\ Possible(e) /\ phys' = After(phys, e)
      /\ latest' = IF e.down /\ e.key \in Keys THEN e.key ELSE IF e.key = latest THEN None ELSE latest
      /\ IF ~setting.hooked THEN unhooked(e)
           ELSE IF e.key \in Keys THEN keyboard_proc(e) ELSE mouse_proc(e)
  BY DEF physical_event
<1>1. /\ th["ui"] = Idle /\ Waiting = rawq /\ rawq \in Seq(Event)
      /\ \A s : Goto("ui", s) => th'["ui"] = s
  BY UiIdle DEF physical_event, TypeOK, Goto, Thread
<1>2. th'["ui"].pc # "key" => Waiting' = rawq'
  BY WaitingType DEF Waiting, TypeOK
<1>3. ASSUME rawq' = Append(rawq, e), UNCHANGED th
      PROVE  Waiting' = Append(Waiting, e)
  BY <1>1, <1>2, <1>3 DEF Idle
<1>4. SUFFICES
        /\ ~setting.hooked => Waiting' = Append(Waiting, e) /\ UNCHANGED <<swallowed, astray>>
        /\ setting.hooked => /\ hookMods' = IF e.key = Modifier THEN e.down ELSE hookMods
                             /\ Eats(e) \/ LetsBy(e)
  OBVIOUS
<1>5. CASE ~setting.hooked
  BY <1>3, <1>5 DEF unhooked, CallNextHook
<1>6. CASE setting.hooked /\ e.key \notin Keys
  <2>1. e.key # Modifier /\ e.key \notin DOMAIN Hotkeys /\ e.key \notin swallowed
    BY <1>6, HotkeyKeys DEF TypeOK
  <2>2. Waiting' = Append(Waiting, e) /\ UNCHANGED <<hookMods, swallowed, astray>>
    BY <1>3, <1>6 DEF mouse_proc
  <2> QED
    BY <1>6, <2>1, <2>2 DEF LetsBy, Fires
<1>7. CASE setting.hooked /\ e.key \in Keys
  <2>1. /\ hookMods' = IF e.key = Modifier THEN e.down ELSE hookMods
        /\ astray' = IF Strays(e) THEN astray \cup {e.key} ELSE astray
    BY <1>7 DEF keyboard_proc
  <2>2. CASE Fires(e, hookMods) /\ swallowed' = swallowed \cup {e.key} /\ dispatch(Hotkeys[e.key]) /\ UNCHANGED rawq
    <3>1. th'["ui"].pc # "key"
      BY <1>1, <2>2 DEF dispatch, Idle, Switch
    <3>2. Waiting' = Waiting
      BY <1>1, <1>2, <2>2, <3>1
    <3> QED
      BY <1>7, <2>1, <2>2, <3>2 DEF Strays, Eats
  <2>3. CASE ReleaseEaten(e) /\ swallowed' = swallowed \ {e.key} /\ UNCHANGED <<rawq, lastAction, th>>
    <3>1. Waiting' = Waiting
      BY <2>3 DEF Waiting
    <3> QED
      BY <1>7, <2>1, <2>3, <3>1 DEF Strays, Eats
  <2>4. CASE /\ ~Fires(e, hookMods) /\ ~ReleaseEaten(e)
             /\ IF suppress THEN Goto("ui", At("key", e)) /\ UNCHANGED rawq
                            ELSE CallNextHook(e) /\ UNCHANGED th
             /\ UNCHANGED <<swallowed, lastAction>>
    <3>1. /\ astray \subseteq astray' /\ UNCHANGED swallowed /\ ~Fires(e, hookMods)
          /\ e.key \in swallowed => e.down /\ e.key \in astray'
      BY <2>1, <2>4 DEF Strays, ReleaseEaten
    <3>2. CASE suppress
      <4>1. th'["ui"].pc = "key" /\ th'["ui"].event = e /\ rawq' = rawq
        BY <1>1, <2>4, <3>2 DEF At
      <4>2. Waiting' = <<e>> \o Waiting
        BY <1>1, <4>1 DEF Waiting
      <4>3. ~e.down /\ ~Unseen(Waiting, e.key) => e.key \in astray'
        <5>1. ~Unseen(Waiting, e.key) => Queued(e.key)
          BY <1>1 DEF Unseen, Queued
        <5> QED
          BY <2>1, <2>4, <3>2, <5>1 DEF Strays
      <4> QED
        BY <1>7, <2>1, <3>1, <4>2, <4>3 DEF LetsBy
    <3>3. CASE ~suppress
      BY <1>3, <1>7, <2>1, <2>4, <3>1, <3>3 DEF CallNextHook, LetsBy
    <3> QED
      BY <3>2, <3>3
  <2> QED
    BY <1>7, <2>2, <2>3, <2>4 DEF keyboard_proc
<1> QED
  BY <1>5, <1>6, <1>7

(* Only the key pressed last repeats.                                      *)
LEMMA Repeats ==
  ASSUME NEW e \in Event, Possible(e), phys' = After(phys, e), HooksInv,
         latest' = IF e.down /\ e.key \in Keys THEN e.key ELSE IF e.key = latest THEN None ELSE latest
  PROVE  /\ \A k : k # e.key => (k \in phys' <=> k \in phys)
         /\ e.key \in phys' <=> e.down
         /\ e.down /\ e.key \in phys => e.key = latest
         /\ ~e.down => e.key \in phys
         /\ latest' # None => latest' \in phys'
BY HotkeyKeys DEF After, Possible, Event, HooksInv

LEMMA HooksEvent ==
  ASSUME TypeOK, TypeOK', HooksInv, physical_event
  PROVE  HooksInv'
<1> PICK e \in Event :
      /\ Possible(e) /\ phys' = After(phys, e)
      /\ latest' = IF e.down /\ e.key \in Keys THEN e.key ELSE IF e.key = latest THEN None ELSE latest
      /\ ~setting.hooked => Waiting' = Append(Waiting, e) /\ UNCHANGED <<swallowed, astray>>
      /\ setting.hooked => /\ hookMods' = IF e.key = Modifier THEN e.down ELSE hookMods
                           /\ Eats(e) \/ LetsBy(e)
  BY Happens
<1> DEFINE k == e.key
<1>1. UNCHANGED <<setting, misfired>>
  BY DEF physical_event
<1>2. /\ \A i : i # k => (i \in phys' <=> i \in phys)
      /\ k \in phys' <=> e.down
      /\ latest' # None => latest' \in phys'
  BY Repeats
<1>3. CASE ~setting.hooked
  BY <1>1, <1>2, <1>3 DEF HooksInv
<1>4. CASE setting.hooked
  <2>1. hookMods' <=> Modifier \in phys'
    BY <1>2, <1>4 DEF HooksInv
  <2>2. swallowed' \subseteq phys'
    BY <1>2, <1>4 DEF HooksInv, Eats, LetsBy, Fires, ReleaseEaten
  <2>3. ASSUME latest' \in DOMAIN Hotkeys, Modifier \in phys'
        PROVE  latest' \in swallowed'
    <3>1. latest' # Modifier
      BY <2>3, HotkeyKeys
    <3>2. CASE e.down /\ k \in Keys
      <4>1. latest' = k /\ hookMods
        BY <1>2, <1>4, <2>3, <3>1, <3>2 DEF HooksInv
      <4> QED
        BY <1>4, <2>3, <3>2, <4>1 DEF Eats, LetsBy, Fires, ReleaseEaten
    <3>3. CASE ~(e.down /\ k \in Keys)
      <4>1. latest' = latest /\ latest # k
        BY <2>3, <3>3, HotkeyKeys
      <4>2. k # Modifier
        BY <1>2, <2>3, <3>3, HotkeyKeys
      <4>3. latest \in swallowed
        BY <1>2, <1>4, <2>3, <4>1, <4>2 DEF HooksInv
      <4> QED
        BY <1>4, <4>1, <4>3 DEF Eats, LetsBy
    <3> QED
      BY <3>2, <3>3
  <2> QED
    BY <1>1, <1>2, <1>4, <2>1, <2>2, <2>3 DEF HooksInv
<1> QED
  BY <1>3, <1>4

LEMMA UnhookedEvent ==
  ASSUME TypeOK, TypeOK', HooksInv, UnhookedInv, physical_event
  PROVE  UnhookedInv'
<1> UNCHANGED <<setting, down, stale>>
  BY DEF physical_event
<1> SUFFICES ASSUME ~setting.hooked
             PROVE  (\E D1, Z1 : Expected(Waiting, D1, Z1))'
  BY DEF UnhookedInv
<1> PICK e \in Event :
      /\ Possible(e) /\ phys' = After(phys, e)
      /\ latest' = IF e.down /\ e.key \in Keys THEN e.key ELSE IF e.key = latest THEN None ELSE latest
      /\ Waiting' = Append(Waiting, e)
  BY Happens
<1> PICK D, Z : Expected(Waiting, D, Z)
  BY DEF UnhookedInv
<1> DEFINE n == Len(Waiting)
           k == e.key
<1>1. Waiting \in Seq(Event) /\ n \in Nat
  BY WaitingType
<1>2. /\ Course(Waiting, D, Z) /\ D[0] = down /\ Z[0] \subseteq stale /\ D[n] = phys
      /\ latest \in DOMAIN Hotkeys /\ Modifier \in phys => latest \in Z[n]
  BY DEF Expected
<1>3. /\ e.down /\ k \in phys => k = latest
      /\ \A i : i # k => (i \in phys' <=> i \in phys)
      /\ k \in phys' <=> e.down
  BY Repeats
<1>4. Meets(e, D[n], Z[n])
  BY <1>2, <1>3 DEF Meets, Fires
<1> PICK D1, Z1 :
      /\ Course(Append(Waiting, e), D1, Z1)
      /\ D1[0] = D[0] /\ Z1[0] = Z[0]
      /\ D1[n + 1] = After(D[n], e)
      /\ Z1[n + 1] = Handled(e, D[n], Z[n])
  BY <1>1, <1>2, <1>4, CourseLonger
<1>5. ASSUME latest' \in DOMAIN Hotkeys, Modifier \in phys'
      PROVE  latest' \in Z1[n + 1]
  <2>1. latest' # Modifier
    BY <1>5, HotkeyKeys
  <2>2. CASE e.down /\ k \in Keys
    <3>1. latest' = k /\ Modifier \in phys
      BY <1>3, <1>5, <2>1, <2>2
    <3> QED
      BY <1>2, <1>5, <2>2, <3>1 DEF Handled, Fires
  <2>3. CASE ~(e.down /\ k \in Keys)
    <3>1. latest' = latest /\ latest # k /\ k # Modifier
      BY <1>3, <1>5, <2>3, HotkeyKeys
    <3> QED
      BY <1>2, <1>3, <1>5, <3>1 DEF Handled
  <2> QED
    BY <2>2, <2>3
<1>6. Len(Waiting') = n + 1
  BY <1>1
<1>7. Expected(Waiting, D1, Z1)'
  BY <1>2, <1>5, <1>6 DEF Expected
<1> QED
  BY <1>7

LEMMA HookedEvent ==
  ASSUME TypeOK, TypeOK', HooksInv, HookedInv, physical_event
  PROVE  HookedInv'
<1>1. UNCHANGED <<setting, down, stale>>
  BY DEF physical_event
<1> SUFFICES ASSUME setting.hooked, NEW k \in Held, k \notin astray',
                    LastPressed(Waiting', k) \/ (Unseen(Waiting', k) /\ k \in down \ stale)
             PROVE  k \in phys' \ swallowed'
  BY <1>1 DEF HookedInv
<1> PICK e \in Event :
      /\ Possible(e) /\ phys' = After(phys, e)
      /\ latest' = IF e.down /\ e.key \in Keys THEN e.key ELSE IF e.key = latest THEN None ELSE latest
      /\ hookMods' = IF e.key = Modifier THEN e.down ELSE hookMods
      /\ Eats(e) \/ LetsBy(e)
  BY Happens
<1>2. /\ \A i : i # e.key => (i \in phys' <=> i \in phys)
      /\ e.key \in phys' <=> e.down
      /\ e.down /\ e.key \in phys => e.key = latest
  BY Repeats
<1>3. Waiting \in Seq(Event) /\ k \notin astray
  BY WaitingType DEF Eats, LetsBy
<1>4. LastPressed(Waiting, k) \/ (Unseen(Waiting, k) /\ k \in down \ stale) => k \in phys \ swallowed
  BY <1>3 DEF HookedInv
<1>5. CASE Eats(e)
  <2>1. k \in phys \ swallowed
    BY <1>4, <1>5 DEF Eats
  <2>2. CASE Fires(e, hookMods) /\ swallowed' = swallowed \cup {e.key}
    <3>1. e.key \in phys => e.key \in swallowed
      BY <1>2, <2>2 DEF HooksInv, Fires
    <3> QED
      BY <1>2, <2>1, <2>2, <3>1
  <2>3. CASE ReleaseEaten(e) /\ swallowed' = swallowed \ {e.key}
    BY <1>2, <2>1, <2>3 DEF ReleaseEaten
  <2> QED
    BY <1>5, <2>2, <2>3 DEF Eats
<1>6. CASE LetsBy(e)
  <2>1. UNCHANGED swallowed /\ (e.key \in swallowed => e.key \in astray')
    BY <1>6 DEF LetsBy
  <2>2. CASE k # e.key
    <3>1. e # Down(k)
      BY <2>2 DEF Down
    <3>2. /\ LastPressed(Waiting', k) <=> LastPressed(Waiting, k)
          /\ Unseen(Waiting', k) <=> Unseen(Waiting, k)
      <4>1. CASE Waiting' = Append(Waiting, e)
        BY <1>3, <2>2, <4>1, SeenLonger
      <4>2. CASE Waiting' = <<e>> \o Waiting
        BY <1>3, <2>2, <3>1, <4>2, SeenSooner
      <4> QED
        BY <1>6, <4>1, <4>2 DEF LetsBy
    <3> QED
      BY <1>2, <1>4, <2>1, <2>2, <3>2
  <2>3. CASE k = e.key
    <3>1. SUFFICES e.down
      BY <1>2, <2>1, <2>3
    <3>2. ~Unseen(Waiting', k)
      <4>1. CASE Waiting' = Append(Waiting, e)
        BY <1>3, <2>3, <4>1, SeenLonger
      <4>2. CASE Waiting' = <<e>> \o Waiting
        BY <1>3, <2>3, <4>2, SeenSooner
      <4> QED
        BY <1>6, <4>1, <4>2 DEF LetsBy
    <3>3. LastPressed(Waiting', k)
      BY <3>2
    <3>4. CASE Waiting' = Append(Waiting, e)
      <4>1. e = Down(k)
        BY <1>3, <2>3, <3>3, <3>4, SeenLonger
      <4> QED
        BY <4>1 DEF Down
    <3>5. CASE Waiting' = <<e>> \o Waiting /\ (e.down \/ Unseen(Waiting, k))
      <4>1. LastPressed(Waiting, k) \/ e = Down(k)
        BY <1>3, <3>3, <3>5, SeenSooner
      <4>2. Unseen(Waiting, k) => ~LastPressed(Waiting, k)
        BY DEF Unseen, LastPressed, Down
      <4> QED
        BY <3>5, <4>1, <4>2 DEF Down
    <3> QED
      BY <1>6, <2>3, <3>4, <3>5 DEF LetsBy
  <2> QED
    BY <2>2, <2>3
<1> QED
  BY <1>5, <1>6

(* The tracker handles an event.  What is down and not stale changes with  *)
(* those it forwards, and with a hotkey that misfires.                     *)
Handles(e) ==
  /\ e = th["ui"].event /\ e \in Event
  /\ down' = After(down, e)
  /\ \/ /\ Fires(e, Modifier \in down)
        /\ stale' = stale \cup {e.key} /\ misfired' = misfired \cup ({e.key} \cap (down \ stale))
        /\ th'["ui"].pc \in {"idle", "swap"} /\ UNCHANGED astray
     \/ /\ ~Fires(e, Modifier \in down)
        /\ stale' = IF e.down THEN stale ELSE stale \ {e.key}
        /\ misfired' = IF ~e.down /\ e.key \notin stale THEN misfired \ {e.key} ELSE misfired
        /\ th'["ui"] = IF e.key \in stale THEN Idle ELSE At("forward", e)
        /\ astray' = IF ~e.down /\ ~Queued(e.key) THEN astray \ {e.key} ELSE astray

LEMMA TrackerHandles ==
  ASSUME TypeOK, on_key
  PROVE  \E e \in Event : Handles(e)
<1> DEFINE e == th["ui"].event
<1>1. e \in Event /\ th["ui"].pc = "key" /\ down' = After(down, e)
  BY EventStates DEF on_key, TypeOK, Thread
<1>2. CASE Fires(e, Modifier \in down)
  <2>1. th'["ui"].pc \in {"idle", "swap"}
    BY <1>2 DEF on_key, dispatch, Goto, TypeOK, Thread, Idle, Switch
  <2> QED
    BY <1>1, <1>2, <2>1 DEF on_key, Handles
<1>3. CASE ~Fires(e, Modifier \in down)
  <2>1. th'["ui"] = IF e.key \in stale THEN Idle ELSE At("forward", e)
    BY <1>3 DEF on_key, Goto, TypeOK, Thread
  <2> QED
    BY <1>1, <1>3, <2>1 DEF on_key, Handles
<1> QED
  BY <1>2, <1>3

LEMMA TrackerKey ==
  ASSUME TypeOK, TypeOK', HooksInv, TrackerInv, on_key
  PROVE  TrackerInv' /\ HooksInv'
<1> PICK e \in Event : Handles(e)
  BY TrackerHandles
<1>1. th["ui"].pc = "key" /\ UNCHANGED <<setting, phys, latest, hookMods, swallowed, rawq>>
  BY DEF on_key, hardware, hooks
<1>2. /\ Waiting \in Seq(Event) /\ Waiting # <<>> /\ Head(Waiting) = e /\ Tail(Waiting) = rawq
      /\ rawq \in Seq(Event) /\ e.key \in Held
  BY <1>1, WaitingType DEF Handles, TypeOK, Event
<1>3. th'["ui"].pc # "key"
  BY DEF Handles, Idle, At
<1>4. Waiting' = rawq
  BY <1>1, <1>3 DEF Waiting, TypeOK
<1>5. ASSUME ~setting.hooked
      PROVE  UnhookedInv' /\ misfired' = {} /\ astray' = {}
  <2> PICK D, Z : Expected(Waiting, D, Z)
    BY <1>5 DEF TrackerInv, UnhookedInv
  <2>1. Course(Waiting, D, Z) /\ D[0] = down /\ Z[0] \subseteq stale
    BY DEF Expected
  <2>2. Meets(e, D[0], Z[0])
    BY <1>2, <2>1, CourseShorter
  <2> PICK D1, Z1 :
        /\ Course(Tail(Waiting), D1, Z1)
        /\ D1[0] = After(D[0], e) /\ Z1[0] = Handled(e, D[0], Z[0])
        /\ D1[Len(Tail(Waiting))] = D[Len(Waiting)] /\ Z1[Len(Tail(Waiting))] = Z[Len(Waiting)]
    BY <1>2, <2>1, CourseShorter
  <2>3. D1[0] = down' /\ Z1[0] \subseteq stale'
    BY <2>1 DEF Handles, Handled
  <2>4. Expected(Waiting, D1, Z1)'
    BY <1>1, <1>2, <1>4, <2>3 DEF Expected
  <2>5. misfired = {} /\ astray = {}
    BY <1>5 DEF HooksInv
  <2>6. misfired' = {} /\ astray' = {}
    BY <2>1, <2>2, <2>5 DEF Handles, Meets
  <2> QED
    BY <2>4, <2>6 DEF UnhookedInv
<1>6. HookedInv'
  <2> SUFFICES ASSUME setting.hooked, NEW k \in Held, k \notin astray',
                      LastPressed(rawq, k) \/ (Unseen(rawq, k) /\ k \in down' \ stale')
               PROVE  k \in phys \ swallowed
    BY <1>1, <1>4, Zenon DEF HookedInv
  <2>1. Waiting = <<e>> \o rawq
    BY <1>1 DEF Handles, Waiting
  <2>2. /\ LastPressed(Waiting, k) <=> LastPressed(rawq, k) \/ (e = Down(k) /\ Unseen(rawq, k))
        /\ Unseen(Waiting, k) <=> e.key # k /\ Unseen(rawq, k)
    BY <1>2, <2>1, SeenSooner
  <2>3. Queued(k) <=> ~Unseen(rawq, k)
    BY <1>2 DEF Queued, Unseen
  <2>4. CASE k # e.key
    <3>1. k \notin astray /\ (k \in down' \ stale' => k \in down \ stale)
      BY <2>4 DEF Handles, After
    <3> QED
      BY <2>2, <2>4, <3>1 DEF TrackerInv, HookedInv
  <2>5. CASE k = e.key /\ LastPressed(rawq, k)
    <3>1. ~Unseen(rawq, k)
      BY <2>5 DEF Unseen, LastPressed, Down
    <3>2. k \notin astray
      BY <2>3, <2>5, <3>1 DEF Handles
    <3> QED
      BY <2>2, <2>5, <3>2 DEF TrackerInv, HookedInv
  <2>6. CASE k = e.key /\ ~LastPressed(rawq, k)
    <3>1. e.down
      BY <2>6 DEF Handles, After
    <3>2. e = Down(k) /\ k \notin astray
      BY <2>6, <3>1 DEF Handles, Event, Down
    <3> QED
      BY <2>2, <2>6, <3>2 DEF TrackerInv, HookedInv
  <2> QED
    BY <2>4, <2>5, <2>6
<1>7. HooksInv'
  BY <1>1, <1>5 DEF HooksInv
<1>8. UnhookedInv'
  BY <1>1, <1>5 DEF UnhookedInv
<1> QED
  BY <1>6, <1>7, <1>8 DEF TrackerInv

(* Every other step leaves it to the tracker, but may mark keys as stale.  *)
TrackerRests ==
  /\ Waiting' = Waiting /\ UNCHANGED <<setting, phys, latest, swallowed, hookMods, down>>
  /\ stale \subseteq stale' /\ astray' \subseteq astray /\ misfired' \subseteq misfired
  /\ \A k \in astray \ astray' : Unseen(Waiting, k) /\ k \notin down \ stale'

LEMMA MarksStale ==
  ASSUME TypeOK, NEW t \in Thread, mark_all_stale(t)
  PROVE  /\ astray' \subseteq astray /\ stale' = stale \cup down /\ misfired' = {}
         /\ \A k \in astray \ astray' : Unseen(Waiting, k) /\ k \notin down \ stale'
<1>1. astray' = {k \in astray : OnItsWay(k)} /\ stale' = stale \cup down /\ misfired' = {}
  BY DEF mark_all_stale
<1>2. ASSUME NEW k, ~OnItsWay(k) PROVE Unseen(Waiting, k)
  <2>1. rawq \in Seq(Event) /\ Unseen(rawq, k)
    BY <1>2 DEF OnItsWay, Queued, Unseen, TypeOK
  <2>2. CASE th["ui"].pc = "key"
    <3>1. th["ui"].event \in Event /\ Waiting = <<th["ui"].event>> \o rawq
      BY <2>2, EventStates DEF TypeOK, Thread, Waiting
    <3>2. th["ui"].event.key # k
      BY <1>2, <2>2 DEF OnItsWay
    <3> QED
      BY <2>1, <3>1, <3>2, SeenSooner
  <2>3. CASE th["ui"].pc # "key"
    BY <2>1, <2>3, WaitingType
  <2> QED
    BY <2>2, <2>3
<1> QED
  BY <1>1, <1>2

LEMMA OtherSteps ==
  ASSUME TypeOK, [Next]_vars
  PROVE  physical_event \/ on_key \/ TrackerRests
<1> USE DEF hardware, hooks, tracker, app, wire, receiver, history
<1>1. ASSUME UNCHANGED <<rawq, setting, phys, latest, swallowed, hookMods, down>>,
             \/ UNCHANGED <<stale, astray, misfired>>
             \/ \E t \in Thread : mark_all_stale(t),
             \/ th["ui"].pc # "key" /\ th'["ui"].pc # "key"
             \/ th'["ui"] = th["ui"]
      PROVE  TrackerRests
  <2>1. Waiting' = Waiting
    BY <1>1 DEF Waiting
  <2> QED
    BY <1>1, <2>1, MarksStale DEF TrackerRests
<1>2. ASSUME NEW t \in Thread, apply_target(t)
      PROVE  TrackerRests
  <2>1. /\ UNCHANGED <<rawq, setting, phys, latest, swallowed, hookMods, down>>
        /\ UNCHANGED <<stale, astray, misfired>> \/ \E i \in Thread : mark_all_stale(i)
    BY <1>2 DEF apply_target, apply_target_swap, apply_target_send, apply_target_store, mark_all_stale
  <2>2. CASE t = "net"
    <3>1. th'["ui"] = th["ui"]
      BY <1>2, <2>2 DEF apply_target, apply_target_swap, apply_target_store, mark_all_stale,
                        apply_target_send, Goto, TypeOK, Thread
    <3> QED
      BY <1>1, <2>1, <3>1
  <2>3. CASE t = "ui"
    <3>1. th["ui"] \in States /\ th["ui"].pc \in {"swap", "store", "stale", "send"}
      BY <1>2, <2>3 DEF apply_target, apply_target_swap, apply_target_store, mark_all_stale,
                        apply_target_send, TypeOK, Thread
    <3>2. \E p \in {"store", "stale", "send"} : th'["ui"] = Idle \/ th'["ui"] = [th["ui"] EXCEPT !.pc = p]
      BY <1>2, <2>3 DEF apply_target, apply_target_swap, apply_target_store, mark_all_stale,
                        apply_target_send, Goto, TypeOK, Thread
    <3>3. th'["ui"].pc \in {"idle", "store", "stale", "send"}
      BY <3>1, <3>2 DEF Idle, States
    <3> QED
      BY <1>1, <2>1, <3>1, <3>3
  <2> QED
    BY <2>2, <2>3 DEF Thread
<1>3. CASE push_off_edge
  <2>1. th'["ui"].pc \in {"idle", "swap"} /\ th["ui"].pc = "idle"
    BY <1>3 DEF push_off_edge, dispatch, Goto, TypeOK, Thread, Idle, Switch
  <2>2. UNCHANGED <<rawq, setting, phys, latest, swallowed, hookMods, down, stale, astray, misfired>>
    BY <1>3 DEF push_off_edge
  <2> QED
    BY <1>1, <2>1, <2>2
<1>4. CASE on_wm_input
  <2>1. /\ th["ui"] = Idle /\ rawq # <<>> /\ rawq' = Tail(rawq) /\ th'["ui"] = At("key", Head(rawq))
        /\ rawq \in Seq(Event)
        /\ UNCHANGED <<setting, phys, latest, swallowed, hookMods, down, stale, astray, misfired>>
    BY <1>4 DEF on_wm_input, Goto, TypeOK, Thread
  <2>2. Waiting = rawq /\ Waiting' = <<Head(rawq)>> \o Tail(rawq) /\ th'["ui"].pc = "key"
    BY <2>1, UiIdle DEF Waiting, At
  <2>3. Waiting' = Waiting
    BY <2>1, <2>2
  <2> QED
    BY <2>1, <2>3 DEF TrackerRests
<1>5. CASE handle_key_event \/ handle_key_event_send
  <2>1. /\ th["ui"].pc \in {"forward", "write"}
        /\ th'["ui"] = At("write", th["ui"].event) \/ th'["ui"] = Idle
        /\ UNCHANGED <<rawq, setting, phys, latest, swallowed, hookMods, down, stale, astray, misfired>>
    BY <1>5 DEF handle_key_event, handle_key_event_send, Goto, TypeOK, Thread
  <2> QED
    BY <1>1, <2>1 DEF Idle, At
<1>6. CASE \/ net_take \/ edge_hit \/ drop_connection \/ start_session
           \/ didReceive \/ post \/ willSleep \/ willSleep_post \/ UNCHANGED vars
  <2>1. th'["ui"] = th["ui"]
    BY <1>6 DEF net_take, edge_hit, drop_connection, start_session, didReceive, post, willSleep,
                willSleep_post, vars, Goto, TypeOK, Thread
  <2>2. UNCHANGED <<rawq, setting, phys, latest, swallowed, hookMods, down, stale, astray, misfired>>
    BY <1>6 DEF net_take, edge_hit, drop_connection, start_session, didReceive, post, willSleep,
                willSleep_post, vars
  <2> QED
    BY <1>1, <2>1, <2>2
<1> QED
  BY <1>2, <1>3, <1>4, <1>5, <1>6 DEF Next, ui_step, net_step, Thread

TrackerSide == TypeOK /\ HooksInv /\ TrackerInv

LEMMA TrackerInit == Init => TrackerSide
<1> SUFFICES ASSUME Init PROVE TrackerSide
  OBVIOUS
<1>1. TypeOK /\ Waiting = <<>>
  BY TypeInit, UiIdle DEF Init, Thread
<1>2. HooksInv
  BY <1>1, HotkeyKeys DEF Init, HooksInv, TypeOK
<1>3. HookedInv
  BY <1>1 DEF Init, HookedInv, LastPressed
<1> DEFINE D == [i \in 0..0 |-> {}]
<1>4. Expected(Waiting, D, D)
  BY <1>1, HotkeyKeys DEF Expected, Course, Init
<1> QED
  BY <1>1, <1>2, <1>3, <1>4 DEF TrackerSide, TrackerInv, UnhookedInv

LEMMA TrackerStep ==
  ASSUME TrackerSide, [Next]_vars
  PROVE  TrackerSide'
<1> USE DEF TrackerSide
<1>1. TypeOK'
  BY TypeStep
<1>2. CASE physical_event
  BY <1>1, <1>2, HooksEvent, UnhookedEvent, HookedEvent DEF TrackerInv
<1>3. CASE on_key
  BY <1>1, <1>3, TrackerKey
<1>4. CASE TrackerRests
  <2>1. HooksInv'
    BY <1>4 DEF TrackerRests, HooksInv
  <2>2. UnhookedInv'
    <3> SUFFICES ASSUME ~setting.hooked
                 PROVE  (\E D, Z : Expected(Waiting, D, Z))'
      BY <1>4 DEF TrackerRests, UnhookedInv
    <3> PICK D, Z : Expected(Waiting, D, Z)
      BY DEF TrackerInv, UnhookedInv
    <3>1. Expected(Waiting, D, Z)'
      BY <1>4 DEF TrackerRests, Expected
    <3> QED
      BY <3>1
  <2>3. HookedInv'
    BY <1>4 DEF TrackerRests, TrackerInv, HookedInv, LastPressed, Unseen, Down
  <2> QED
    BY <1>1, <2>1, <2>2, <2>3 DEF TrackerInv
<1> QED
  BY <1>2, <1>3, <1>4, OtherSteps

-----------------------------------------------------------------------------
(* The injector and macOS agree *)

LEMMA UpsOf ==
  ASSUME NEW S
  PROVE  /\ \A k : (Up(k) \in Ups(S) <=> k \in S) /\ Down(k) \notin Ups(S)
         /\ \A P : P \subseteq Ups(S) => \A k : Down(k) \notin P
         /\ S # {} => Ups(S) # {}
<1>1. \A k : Up(k) \in Ups(S) <=> k \in S
  BY DEF Ups, Up
<1>2. \A k : Down(k) \notin Ups(S)
  BY DEF Ups, Down
<1> QED
  BY <1>1, <1>2

LEMMA EventIs ==
  ASSUME NEW e \in Event
  PROVE  /\ e.key \in Held
         /\ e.down => \A k : (Down(k) = e <=> k = e.key) /\ Up(k) # e
         /\ ~e.down => \A k : (Up(k) = e <=> k = e.key) /\ Down(k) # e
BY DEF Event, Up, Down

LEMMA Posted ==
  ASSUME NEW S \in SUBSET Event, Post(S)
  PROVE  \A k \in Held : k \in macHeld' <=> Down(k) \in S \/ (k \in macHeld /\ Up(k) \notin S)
BY DEF Post, Up, Down

LEMMA MacReceives ==
  ASSUME TypeOK, MacInv, didReceive
  PROVE  MacInv'
<1>1. /\ posts = {} /\ UNCHANGED <<mainPosts, macHeld>>
      /\ raced' = (raced \/ mainPosts # {})
  BY DEF didReceive, receiver
<1>2. SUFFICES ASSUME ~raced, mainPosts = {}
               PROVE  \A k \in Held : k \in pressed' <=> Down(k) \in posts' \/ (k \in macHeld /\ Up(k) \notin posts')
  BY <1>1 DEF MacInv
<1>3. \A k \in Held : k \in pressed <=> k \in macHeld
  BY <1>1, <1>2 DEF MacInv
<1>4. CASE Head(tcp).kind = "key" /\ active
  <2> DEFINE e == Head(tcp).event
  <2>1. e \in Event
    <3>1. Head(tcp) \in Frames
      BY DEF didReceive, TypeOK
    <3> QED
      BY <1>4, <3>1 DEF Frames
  <2>2. /\ pressed' = After(pressed, e)
        /\ posts' = IF e.down \/ e.key \in pressed \cup {Modifier} THEN {e} ELSE {}
    BY <1>4 DEF didReceive, injector_key
  <2> HIDE DEF e
  <2>3. CASE e.down
    BY <1>3, <2>1, <2>2, <2>3, EventIs DEF After
  <2>4. CASE ~e.down
    BY <1>3, <2>1, <2>2, <2>4, EventIs DEF After
  <2> QED
    BY <2>3, <2>4
<1>5. CASE Head(tcp).kind = "key" /\ ~active
  BY <1>1, <1>3, <1>5 DEF didReceive
<1>6. CASE Head(tcp).kind # "key"
  <2>1. pressed' = {} /\ posts' = Ups(pressed)
    BY <1>6 DEF didReceive, releaseAll
  <2> QED
    BY <1>3, <2>1, UpsOf
<1> QED
  BY <1>4, <1>5, <1>6

LEMMA MacStep ==
  ASSUME TypeOK, MacInv, [Next]_vars
  PROVE  MacInv'
<1>1. CASE didReceive
  BY <1>1, MacReceives
<1>2. CASE post
  <2>1. /\ \A k \in Held : k \in macHeld' <=> Down(k) \in posts \/ (k \in macHeld /\ Up(k) \notin posts)
        /\ posts # {} /\ posts' = {} /\ UNCHANGED <<mainPosts, pressed, raced>>
    BY <1>2, Posted DEF post, TypeOK
  <2> QED
    BY <2>1 DEF MacInv
<1>3. CASE willSleep
  <2>1. /\ mainPosts = {} /\ mainPosts' = Ups(pressed) /\ pressed' = {} /\ pressed \subseteq Held
        /\ raced' = (raced \/ posts # {}) /\ UNCHANGED <<posts, macHeld>>
    BY <1>3 DEF willSleep, TypeOK
  <2>2. Ups(pressed) \subseteq Ups(Held)
    BY <2>1 DEF Ups
  <2>3. ASSUME ~raced, posts = {}
        PROVE  \A k \in Held : k \in pressed' <=> Down(k) \in posts' \/ (k \in macHeld' /\ Up(k) \notin posts' \cup mainPosts')
    BY <2>1, <2>3, UpsOf DEF MacInv
  <2> QED
    BY <2>1, <2>2, <2>3 DEF MacInv
<1>4. CASE willSleep_post
  <2>1. /\ \A k \in Held : k \in macHeld' <=> Down(k) \in mainPosts \/ (k \in macHeld /\ Up(k) \notin mainPosts)
        /\ mainPosts # {} /\ mainPosts' = {} /\ UNCHANGED <<posts, pressed, raced>>
    BY <1>4, Posted DEF willSleep_post, TypeOK
  <2>2. \A k : Down(k) \notin mainPosts
    BY UpsOf DEF MacInv
  <2> QED
    BY <2>1, <2>2 DEF MacInv
<1>5. CASE ~(didReceive \/ post \/ willSleep \/ willSleep_post)
  <2>1. UNCHANGED <<pressed, posts, mainPosts, macHeld, raced>>
    BY <1>5 DEF Next, vars, receiver, physical_event, push_off_edge, ui_step, net_step, apply_target,
                apply_target_swap, apply_target_store, mark_all_stale, apply_target_send, on_wm_input,
                on_key, handle_key_event, handle_key_event_send, net_take, edge_hit, drop_connection,
                start_session
  <2> QED
    BY <2>1 DEF MacInv
<1> QED
  BY <1>1, <1>2, <1>3, <1>4, <1>5

-----------------------------------------------------------------------------
(* Frames on their way *)

LEMMA ActiveLonger ==
  ASSUME NEW q \in Seq(Frames), NEW m \in Frames, NEW a \in BOOLEAN
  PROVE  /\ \A i \in 1..(Len(q) + 1) : ActiveAt(Append(q, m), a, i) <=> ActiveAt(q, a, i)
         /\ m.kind = "on" => ActiveAt(Append(q, m), a, Len(q) + 2)
         /\ m.kind \in {"off", "end"} => ~ActiveAt(Append(q, m), a, Len(q) + 2)
         /\ m.kind \in {"key", "begin"} =>
              (ActiveAt(Append(q, m), a, Len(q) + 2) <=> ActiveAt(q, a, Len(q) + 1))
<1> DEFINE q1 == Append(q, m)
           n == Len(q)
<1>1. n \in Nat /\ Len(q1) = n + 1 /\ q1[n + 1] = m /\ \A i \in 1..n : q1[i] = q[i]
  OBVIOUS
<1> HIDE DEF q1, n
<1>2. \A i \in 1..(n + 1) : ActiveAt(q1, a, i) <=> ActiveAt(q, a, i)
  BY <1>1 DEF ActiveAt
<1>3. ASSUME m.kind = "on"
      PROVE  ActiveAt(q1, a, n + 2)
  <2>1. n + 1 \in 1..((n + 2) - 1) /\ \A l \in ((n + 1) + 1)..((n + 2) - 1) : FALSE
    BY <1>1
  <2> QED
    BY <1>1, <1>3, <2>1 DEF ActiveAt
<1>4. ASSUME m.kind \in {"off", "end"}
      PROVE  ~ActiveAt(q1, a, n + 2)
  <2>1. q1[n + 1].kind \notin {"key", "begin", "on"} /\ n + 1 \in 1..((n + 2) - 1)
    BY <1>1, <1>4
  <2>2. \A j \in 1..((n + 2) - 1) : j = n + 1 \/ n + 1 \in (j + 1)..((n + 2) - 1)
    BY <1>1
  <2> QED
    BY <2>1, <2>2 DEF ActiveAt
<1>5. ASSUME m.kind \in {"key", "begin"}
      PROVE  ActiveAt(q1, a, n + 2) <=> ActiveAt(q, a, n + 1)
  <2>1. q1[n + 1].kind \in {"key", "begin"} /\ q1[n + 1].kind # "on" /\ (n + 2) - 1 = n + 1 /\ (n + 1) - 1 = n
    BY <1>1, <1>5
  <2>2. ASSUME NEW j \in 1..n
        PROVE  (\A l \in (j + 1)..(n + 1) : q1[l].kind \in {"key", "begin"})
               <=> (\A l \in (j + 1)..n : q[l].kind \in {"key", "begin"})
    <3>1. \A l : l \in (j + 1)..(n + 1) <=> l = n + 1 \/ l \in (j + 1)..n
      BY <1>1, <2>2
    <3>2. \A l \in (j + 1)..n : q1[l] = q[l]
      BY <1>1, <2>2
    <3> QED
      BY <2>1, <3>1, <3>2
  <2>3. (\A l \in 1..(n + 1) : q1[l].kind \in {"key", "begin"})
        <=> (\A l \in 1..n : q[l].kind \in {"key", "begin"})
    <3>1. \A l : l \in 1..(n + 1) <=> l = n + 1 \/ l \in 1..n
      BY <1>1
    <3> QED
      BY <1>1, <2>1, <3>1
  <2>4. \A j \in 1..(n + 1) : q1[j].kind = "on" => j \in 1..n
    BY <1>1, <2>1
  <2>5. ActiveAt(q1, a, n + 2) <=>
          \/ \E j \in 1..(n + 1) : q1[j].kind = "on" /\ \A l \in (j + 1)..(n + 1) : q1[l].kind \in {"key", "begin"}
          \/ a /\ \A l \in 1..(n + 1) : q1[l].kind \in {"key", "begin"}
    BY <2>1 DEF ActiveAt
  <2>6. ActiveAt(q, a, n + 1) <=>
          \/ \E j \in 1..n : q[j].kind = "on" /\ \A l \in (j + 1)..n : q[l].kind \in {"key", "begin"}
          \/ a /\ \A l \in 1..n : q[l].kind \in {"key", "begin"}
    BY <2>1 DEF ActiveAt
  <2>7. \A j \in 1..n : j \in 1..(n + 1) /\ q1[j] = q[j]
    BY <1>1
  <2> QED
    BY <2>2, <2>3, <2>4, <2>5, <2>6, <2>7
<1> QED
  BY <1>2, <1>3, <1>4, <1>5 DEF q1, n

LEMMA HeldLonger ==
  ASSUME NEW q \in Seq(Frames), NEW m \in Frames, NEW P, NEW a \in BOOLEAN, NEW k
  PROVE  HeldBy(Append(q, m), P, a, k) <=>
           /\ m.kind = "key"
           /\ IF m.event.key = k THEN m.event = Down(k) /\ ActiveAt(q, a, Len(q) + 1)
                                 ELSE HeldBy(q, P, a, k)
<1> DEFINE q1 == Append(q, m)
           n == Len(q)
<1>1. n \in Nat /\ Len(q1) = n + 1 /\ q1[n + 1] = m /\ \A i \in 1..n : q1[i] = q[i]
  OBVIOUS
<1>2. \A i \in 1..(n + 1) : ActiveAt(q1, a, i) <=> ActiveAt(q, a, i)
  BY ActiveLonger
<1> HIDE DEF q1, n
<1>3. ASSUME ~Ignores(m, k)
      PROVE  HeldBy(q1, P, a, k) <=> Presses(m, k) /\ ActiveAt(q, a, n + 1)
  <2>1. n + 1 \in 1..(n + 1) /\ \A j \in 1..n : n + 1 \in (j + 1)..(n + 1)
    BY <1>1
  <2>2. \A l \in ((n + 1) + 1)..(n + 1) : FALSE
    BY <1>1
  <2>3. \A j \in 1..(n + 1) : j \in 1..n \/ j = n + 1
    BY <1>1
  <2> QED
    BY <1>1, <1>2, <1>3, <2>1, <2>2, <2>3 DEF HeldBy
<1>4. ASSUME Ignores(m, k)
      PROVE  HeldBy(q1, P, a, k) <=> HeldBy(q, P, a, k)
  <2>1. ~Presses(q1[n + 1], k)
    BY <1>1, <1>4 DEF Ignores, Presses, Down
  <2>2. ASSUME NEW j \in 1..n
        PROVE  (\A l \in (j + 1)..(n + 1) : Ignores(q1[l], k)) <=> (\A l \in (j + 1)..n : Ignores(q[l], k))
    BY <1>1, <1>4
  <2>3. (\A l \in 1..(n + 1) : Ignores(q1[l], k)) <=> (\A l \in 1..n : Ignores(q[l], k))
    BY <1>1, <1>4
  <2>4. \A j \in 1..(n + 1) : j \in 1..n \/ j = n + 1
    BY <1>1
  <2>5. \A j \in 1..n : j \in 1..(n + 1) /\ q1[j] = q[j]
    BY <1>1
  <2>6. Len(q) = n /\ Len(q1) = n + 1
    BY <1>1 DEF n
  <2> QED
    BY <1>2, <2>1, <2>2, <2>3, <2>4, <2>5, <2>6 DEF HeldBy
<1>5. Ignores(m, k) <=> m.kind = "key" /\ m.event.key # k
  BY DEF Ignores
<1>6. Presses(m, k) => m.event.key = k
  BY DEF Presses, Down
<1> QED
  BY <1>3, <1>4, <1>5, <1>6 DEF q1, n, Presses

(* The receiver's state after a frame. *)
Activates(m, a) == IF m.kind \in {"key", "begin"} THEN a ELSE m.kind = "on"
Receives(m, P, a) == IF m.kind # "key" THEN {} ELSE IF a THEN After(P, m.event) ELSE P

LEMMA ActiveShorter ==
  ASSUME NEW q \in Seq(Frames), q # <<>>, NEW a \in BOOLEAN, NEW i \in 1..(Len(Tail(q)) + 1)
  PROVE  ActiveAt(Tail(q), Activates(Head(q), a), i) <=> ActiveAt(q, a, i + 1)
<1> DEFINE t == Tail(q)
           n == Len(t)
           m == Head(q)
           Passes(f) == f.kind \in {"key", "begin"}
<1>1. n \in Nat /\ Len(q) = n + 1 /\ m = q[1] /\ m \in Frames /\ \A j \in 1..n : t[j] = q[j + 1]
  OBVIOUS
<1> HIDE DEF t, n, m
<1>2. n \in Nat /\ i \in Nat /\ i - 1 \in Nat /\ i - 1 <= n /\ (i + 1) - 1 = i
  BY <1>1 DEF n, t
<1>3. ASSUME NEW j \in 1..(i - 1)
      PROVE  /\ j + 1 \in 1..i /\ t[j] = q[j + 1]
             /\ (\A l \in (j + 1)..(i - 1) : Passes(t[l])) <=> (\A l \in (j + 2)..i : Passes(q[l]))
  <2>1. j + 1 \in 1..i /\ t[j] = q[j + 1]
    BY <1>1, <1>2
  <2>2. ASSUME \A l \in (j + 1)..(i - 1) : Passes(t[l]), NEW l \in (j + 2)..i
        PROVE  Passes(q[l])
    <3>1. l - 1 \in (j + 1)..(i - 1) /\ l - 1 \in 1..n /\ (l - 1) + 1 = l
      BY <1>2
    <3> QED
      BY <1>1, <2>2, <3>1
  <2>3. ASSUME \A l \in (j + 2)..i : Passes(q[l]), NEW l \in (j + 1)..(i - 1)
        PROVE  Passes(t[l])
    <3>1. l + 1 \in (j + 2)..i /\ l \in 1..n
      BY <1>2
    <3> QED
      BY <1>1, <2>3, <3>1
  <2> QED
    BY <2>1, <2>2, <2>3
<1>4. (\A l \in 1..(i - 1) : Passes(t[l])) <=> (\A l \in 2..i : Passes(q[l]))
  <2>1. ASSUME \A l \in 1..(i - 1) : Passes(t[l]), NEW l \in 2..i
        PROVE  Passes(q[l])
    <3>1. l - 1 \in 1..(i - 1) /\ l - 1 \in 1..n /\ (l - 1) + 1 = l
      BY <1>2
    <3> QED
      BY <1>1, <2>1, <3>1
  <2>2. ASSUME \A l \in 2..i : Passes(q[l]), NEW l \in 1..(i - 1)
        PROVE  Passes(t[l])
    <3>1. l + 1 \in 2..i /\ l \in 1..n
      BY <1>2
    <3> QED
      BY <1>1, <2>2, <3>1
  <2> QED
    BY <2>1, <2>2
<1>5. ActiveAt(t, Activates(m, a), i) <=>
        \/ \E j \in 1..(i - 1) : t[j].kind = "on" /\ \A l \in (j + 1)..(i - 1) : Passes(t[l])
        \/ Activates(m, a) /\ \A l \in 1..(i - 1) : Passes(t[l])
  BY DEF ActiveAt
<1>6. ActiveAt(q, a, i + 1) <=>
        \/ \E j \in 1..i : q[j].kind = "on" /\ \A l \in (j + 1)..i : Passes(q[l])
        \/ a /\ \A l \in 1..i : Passes(q[l])
  BY <1>2 DEF ActiveAt
<1>7. (\E j \in 1..i : q[j].kind = "on" /\ \A l \in (j + 1)..i : Passes(q[l])) <=>
        \/ \E j \in 1..(i - 1) : q[j + 1].kind = "on" /\ \A l \in (j + 2)..i : Passes(q[l])
        \/ m.kind = "on" /\ \A l \in 2..i : Passes(q[l])
  <2>1. ASSUME NEW j \in 1..i, q[j].kind = "on", \A l \in (j + 1)..i : Passes(q[l])
        PROVE  \/ \E jj \in 1..(i - 1) : q[jj + 1].kind = "on" /\ \A l \in (jj + 2)..i : Passes(q[l])
               \/ m.kind = "on" /\ \A l \in 2..i : Passes(q[l])
    <3>1. CASE j = 1
      BY <1>1, <2>1, <3>1
    <3>2. CASE j # 1
      <4>1. j - 1 \in 1..(i - 1) /\ (j - 1) + 1 = j /\ (j - 1) + 2 = j + 1
        BY <1>2, <3>2
      <4> QED
        BY <2>1, <4>1
    <3> QED
      BY <3>1, <3>2
  <2>2. ASSUME NEW j \in 1..(i - 1), q[j + 1].kind = "on", \A l \in (j + 2)..i : Passes(q[l])
        PROVE  \E jj \in 1..i : q[jj].kind = "on" /\ \A l \in (jj + 1)..i : Passes(q[l])
    <3>1. j + 1 \in 1..i /\ (j + 1) + 1 = j + 2
      BY <1>2
    <3> QED
      BY <2>2, <3>1
  <2>3. ASSUME m.kind = "on", \A l \in 2..i : Passes(q[l])
        PROVE  \E jj \in 1..i : q[jj].kind = "on" /\ \A l \in (jj + 1)..i : Passes(q[l])
    <3>1. 1 \in 1..i /\ 1 + 1 = 2
      BY <1>2
    <3> QED
      BY <1>1, <2>3, <3>1
  <2> QED
    BY <2>1, <2>2, <2>3
<1>8. (\A l \in 1..i : Passes(q[l])) <=> Passes(m) /\ \A l \in 2..i : Passes(q[l])
  <2>1. \A l \in 1..i : l = 1 \/ l \in 2..i
    BY <1>2
  <2>2. 1 \in 1..i /\ \A l \in 2..i : l \in 1..i
    BY <1>2
  <2> QED
    BY <1>1, <2>1, <2>2
<1>9. Activates(m, a) <=> m.kind = "on" \/ (a /\ Passes(m))
  BY DEF Activates
<1> QED
  BY <1>3, <1>4, <1>5, <1>6, <1>7, <1>8, <1>9 DEF t, m

LEMMA HeldShorter ==
  ASSUME NEW q \in Seq(Frames), q # <<>>, NEW P, NEW a \in BOOLEAN, NEW k, ~a => P = {}
  PROVE  HeldBy(Tail(q), Receives(Head(q), P, a), Activates(Head(q), a), k) <=> HeldBy(q, P, a, k)
<1> DEFINE t == Tail(q)
           n == Len(t)
           m == Head(q)
           P1 == Receives(m, P, a)
           a1 == Activates(m, a)
<1>1. n \in Nat /\ Len(q) = n + 1 /\ m = q[1] /\ m \in Frames /\ \A j \in 1..n : t[j] = q[j + 1]
  OBVIOUS
<1>2. \A j \in 1..(n + 1) : ActiveAt(t, a1, j) <=> ActiveAt(q, a, j + 1)
  BY ActiveShorter
<1>3. ActiveAt(q, a, 1) <=> a
  BY DEF ActiveAt
<1> HIDE DEF t, n, m, a1
<1>4. ASSUME NEW j \in 1..n
      PROVE  /\ j + 1 \in 1..(n + 1) /\ t[j] = q[j + 1]
             /\ (\A l \in (j + 1)..n : Ignores(t[l], k)) <=> (\A l \in (j + 2)..(n + 1) : Ignores(q[l], k))
  <2>1. j + 1 \in 1..(n + 1) /\ t[j] = q[j + 1]
    BY <1>1
  <2>2. ASSUME \A l \in (j + 1)..n : Ignores(t[l], k), NEW l \in (j + 2)..(n + 1)
        PROVE  Ignores(q[l], k)
    <3>1. l - 1 \in (j + 1)..n /\ l - 1 \in 1..n /\ (l - 1) + 1 = l
      BY <1>1
    <3> QED
      BY <1>1, <2>2, <3>1
  <2>3. ASSUME \A l \in (j + 2)..(n + 1) : Ignores(q[l], k), NEW l \in (j + 1)..n
        PROVE  Ignores(t[l], k)
    <3>1. l + 1 \in (j + 2)..(n + 1) /\ l \in 1..n
      BY <1>1
    <3> QED
      BY <1>1, <2>3, <3>1
  <2> QED
    BY <2>1, <2>2, <2>3
<1>5. (\A l \in 1..n : Ignores(t[l], k)) <=> (\A l \in 2..(n + 1) : Ignores(q[l], k))
  <2>1. ASSUME \A l \in 1..n : Ignores(t[l], k), NEW l \in 2..(n + 1)
        PROVE  Ignores(q[l], k)
    <3>1. l - 1 \in 1..n /\ (l - 1) + 1 = l
      BY <1>1
    <3> QED
      BY <1>1, <2>1, <3>1
  <2>2. ASSUME \A l \in 2..(n + 1) : Ignores(q[l], k), NEW l \in 1..n
        PROVE  Ignores(t[l], k)
    <3>1. l + 1 \in 2..(n + 1)
      BY <1>1
    <3> QED
      BY <1>1, <2>2, <3>1
  <2> QED
    BY <2>1, <2>2
<1>6. HeldBy(t, P1, a1, k) <=>
        \/ \E j \in 1..n : /\ Presses(q[j + 1], k) /\ ActiveAt(q, a, j + 1)
                           /\ \A l \in (j + 2)..(n + 1) : Ignores(q[l], k)
        \/ k \in P1 /\ \A l \in 2..(n + 1) : Ignores(q[l], k)
  <2>1. HeldBy(t, P1, a1, k) <=>
          \/ \E j \in 1..n : Presses(t[j], k) /\ ActiveAt(t, a1, j) /\ \A l \in (j + 1)..n : Ignores(t[l], k)
          \/ k \in P1 /\ \A l \in 1..n : Ignores(t[l], k)
    BY DEF HeldBy, n
  <2>2. \A j \in 1..n : ActiveAt(t, a1, j) <=> ActiveAt(q, a, j + 1)
    BY <1>1, <1>2
  <2> HIDE DEF P1
  <2> QED
    BY <1>4, <1>5, <2>1, <2>2
<1>7. HeldBy(q, P, a, k) <=>
        \/ \E j \in 1..(n + 1) : /\ Presses(q[j], k) /\ ActiveAt(q, a, j)
                                 /\ \A l \in (j + 1)..(n + 1) : Ignores(q[l], k)
        \/ k \in P /\ \A l \in 1..(n + 1) : Ignores(q[l], k)
  BY <1>1 DEF HeldBy
<1>8. (\E j \in 1..(n + 1) : /\ Presses(q[j], k) /\ ActiveAt(q, a, j)
                             /\ \A l \in (j + 1)..(n + 1) : Ignores(q[l], k)) <=>
        \/ \E j \in 1..n : /\ Presses(q[j + 1], k) /\ ActiveAt(q, a, j + 1)
                           /\ \A l \in (j + 2)..(n + 1) : Ignores(q[l], k)
        \/ Presses(m, k) /\ a /\ \A l \in 2..(n + 1) : Ignores(q[l], k)
  <2>1. ASSUME NEW j \in 1..(n + 1), Presses(q[j], k), ActiveAt(q, a, j),
               \A l \in (j + 1)..(n + 1) : Ignores(q[l], k)
        PROVE  \/ \E jj \in 1..n : /\ Presses(q[jj + 1], k) /\ ActiveAt(q, a, jj + 1)
                                   /\ \A l \in (jj + 2)..(n + 1) : Ignores(q[l], k)
               \/ Presses(m, k) /\ a /\ \A l \in 2..(n + 1) : Ignores(q[l], k)
    <3>1. CASE j = 1
      BY <1>1, <1>3, <2>1, <3>1
    <3>2. CASE j # 1
      <4>1. j - 1 \in 1..n /\ (j - 1) + 1 = j /\ (j - 1) + 2 = j + 1
        BY <1>1, <3>2
      <4> QED
        BY <2>1, <4>1
    <3> QED
      BY <3>1, <3>2
  <2>2. ASSUME NEW j \in 1..n, Presses(q[j + 1], k), ActiveAt(q, a, j + 1),
               \A l \in (j + 2)..(n + 1) : Ignores(q[l], k)
        PROVE  \E jj \in 1..(n + 1) : /\ Presses(q[jj], k) /\ ActiveAt(q, a, jj)
                                      /\ \A l \in (jj + 1)..(n + 1) : Ignores(q[l], k)
    <3>1. j + 1 \in 1..(n + 1) /\ (j + 1) + 1 = j + 2
      BY <1>1
    <3> QED
      BY <2>2, <3>1
  <2>3. ASSUME Presses(m, k), a, \A l \in 2..(n + 1) : Ignores(q[l], k)
        PROVE  \E jj \in 1..(n + 1) : /\ Presses(q[jj], k) /\ ActiveAt(q, a, jj)
                                      /\ \A l \in (jj + 1)..(n + 1) : Ignores(q[l], k)
    <3>1. 1 \in 1..(n + 1) /\ 1 + 1 = 2
      BY <1>1
    <3> QED
      BY <1>1, <1>3, <2>3, <3>1
  <2> QED
    BY <2>1, <2>2, <2>3
<1>9. (\A l \in 1..(n + 1) : Ignores(q[l], k)) <=> Ignores(m, k) /\ \A l \in 2..(n + 1) : Ignores(q[l], k)
  <2>1. \A l \in 1..(n + 1) : l = 1 \/ l \in 2..(n + 1)
    BY <1>1
  <2>2. 1 \in 1..(n + 1) /\ \A l \in 2..(n + 1) : l \in 1..(n + 1)
    BY <1>1
  <2> QED
    BY <1>1, <2>1, <2>2
<1>10. k \in P1 <=> (Presses(m, k) /\ a) \/ (k \in P /\ Ignores(m, k))
  <2>1. CASE m.kind = "key"
    <3>1. m.event \in Event
      BY <1>1, <2>1 DEF Frames
    <3> QED
      BY <2>1, <3>1, EventIs DEF Receives, After, Presses, Ignores
  <2>2. CASE m.kind # "key"
    BY <2>2 DEF Receives, Presses, Ignores
  <2> QED
    BY <2>1, <2>2
<1> HIDE DEF P1
<1>11. HeldBy(t, P1, a1, k) <=> HeldBy(q, P, a, k)
  BY <1>6, <1>7, <1>8, <1>9, <1>10
<1> QED
  BY <1>11 DEF P1, a1, t, m

LEMMA HeldFewer ==
  ASSUME NEW q, NEW P, NEW a, NEW k, HeldBy(q, {}, a, k)
  PROVE  HeldBy(q, P, a, k)
BY DEF HeldBy

-----------------------------------------------------------------------------
(* Switches *)

LEMMA Going ==
  ASSUME TypeOK, NEW t \in Thread, NEW s, Goto(t, s)
  PROVE  th'[t] = s /\ Other(t) \in Thread /\ th'[Other(t)] = th[Other(t)] /\ Thread = {t, Other(t)}
BY DEF TypeOK, Goto, Thread, Other

(* No switch begins, goes on or ends.                                      *)
Steady ==
  /\ UNCHANGED <<target, overlapped>>
  /\ \A t \in Thread : \/ th'[t] = th[t]
                       \/ /\ ~InSwitch(t) /\ ~InSwitch(t)'
                          /\ t = "net" => th'[t] \in {Idle, Switch("Local")}

LEMMA SteadySteps ==
  ASSUME TypeOK, [Next]_vars
  PROVE  Steady \/ \E t \in Thread : apply_target(t)
<1> USE DEF Thread
<1>1. CASE physical_event \/ push_off_edge \/ on_wm_input \/ on_key \/ handle_key_event \/ handle_key_event_send
  <2>1. UNCHANGED <<target, overlapped>> /\ th'["net"] = th["net"]
    BY <1>1 DEF physical_event, keyboard_proc, mouse_proc, unhooked, push_off_edge, on_wm_input, on_key,
                handle_key_event, handle_key_event_send, dispatch, Goto, app, TypeOK
  <2>2. th["ui"].pc \in {"idle", "key", "forward", "write"}
    BY <1>1 DEF physical_event, push_off_edge, on_wm_input, on_key, handle_key_event,
                handle_key_event_send, Idle
  <2>3. th'["ui"] = th["ui"] \/ th'["ui"].pc \in {"idle", "key", "forward", "write", "swap"}
    BY <1>1 DEF physical_event, keyboard_proc, mouse_proc, unhooked, push_off_edge, on_wm_input, on_key,
                handle_key_event, handle_key_event_send, dispatch, Goto, TypeOK, Idle, At, Switch
  <2> QED
    BY <2>1, <2>2, <2>3 DEF Steady, InSwitch
<1>2. CASE edge_hit \/ drop_connection \/ start_session
  <2>1. UNCHANGED <<target, overlapped>> /\ th'["ui"] = th["ui"] /\ th["net"].pc = "idle"
    BY <1>2 DEF edge_hit, drop_connection, start_session, Goto, app, TypeOK, Idle
  <2>2. th'["net"] \in {Idle, Switch("Local")} \/ th'["net"] = th["net"]
    BY <1>2 DEF edge_hit, drop_connection, start_session, Goto, TypeOK
  <2> QED
    BY <2>1, <2>2 DEF Steady, InSwitch, Idle, Switch
<1>3. CASE net_take \/ didReceive \/ post \/ willSleep \/ willSleep_post \/ UNCHANGED vars
  BY <1>3 DEF net_take, didReceive, post, willSleep, willSleep_post, vars, app, Steady
<1> QED
  BY <1>1, <1>2, <1>3 DEF Next, ui_step, net_step

LEMMA SwitchStep ==
  ASSUME TypeOK, TypeOK', SwitchInv, [Next]_vars
  PROVE  SwitchInv'
<1>1. CASE Steady
  <2>1. \A t \in Thread : InSwitch(t)' => th'[t] = th[t]
    BY <1>1 DEF Steady
  <2>2. \A t \in Thread : InSwitch(t)' => InSwitch(t)
    BY <2>1 DEF InSwitch
  <2>3. th'["net"].pc \in {"swap", "store", "stale", "send"} => th'["net"].to = "Local"
    BY <1>1 DEF Steady, SwitchInv, Thread, Idle, Switch
  <2>4. th'["ui"].pc = "send" => down' \subseteq stale'
    <3>1. SUFFICES ASSUME th'["ui"].pc = "send" PROVE down' \subseteq stale'
      OBVIOUS
    <3>2. th'["ui"] = th["ui"]
      BY <2>1, <3>1 DEF InSwitch, Thread
    <3>3. ~physical_event /\ ~on_key
      BY <3>1, <3>2 DEF physical_event, on_key, Idle
    <3>4. UNCHANGED down /\ stale \subseteq stale'
      BY <3>3, OtherSteps DEF TrackerRests
    <3> QED
      BY <3>1, <3>2, <3>4 DEF SwitchInv
  <2> QED
    BY <1>1, <2>1, <2>2, <2>3, <2>4 DEF SwitchInv, Steady, Thread
<1>2. ASSUME NEW t \in Thread, apply_target(t)
      PROVE  SwitchInv'
  <2> DEFINE o == Other(t)
  <2>1. th[t] \in States /\ o \in Thread /\ Thread = {t, o}
    BY DEF TypeOK, Thread, Other
  <2>2. th[t].pc \in {"swap", "store", "stale", "send"}
    BY <1>2 DEF apply_target, apply_target_swap, apply_target_store, mark_all_stale, apply_target_send
  <2>3. ASSUME NEW p \in {"store", "stale", "send"}
        PROVE  [th[t] EXCEPT !.pc = p].pc = p /\ [th[t] EXCEPT !.pc = p].to = th[t].to
    BY <2>1, <2>2 DEF States
  <2>4. CASE apply_target_swap(t) \/ apply_target_send(t)
    <3> DEFINE next == IF apply_target_send(t) \/ target = th[t].to THEN Idle ELSE [th[t] EXCEPT !.pc = "store"]
    <3>1. th'[t] = next /\ th'[o] = th[o] /\ UNCHANGED <<down, stale>>
      BY <2>4, Going DEF apply_target_swap, apply_target_send, tracker
    <3>2. next.pc \in {"idle", "store"} /\ (next.pc = "store" => next.to = th[t].to)
      BY <2>3 DEF Idle
    <3>3. CASE next.pc = "idle"
      <4>1. UNCHANGED <<target, overlapped>>
        <5>1. CASE apply_target_send(t)
          BY <5>1 DEF apply_target_send, app
        <5>2. CASE apply_target_swap(t) /\ target = th[t].to
          <6>1. overlapped' = overlapped
            BY <5>2 DEF apply_target_swap, TypeOK
          <6> QED
            BY <5>2, <6>1 DEF apply_target_swap
        <5> QED
          BY <2>3, <2>4, <3>3, <5>1, <5>2
      <4> QED
        BY <2>1, <2>2, <3>1, <3>3, <4>1 DEF SwitchInv, InSwitch, Thread
    <3>4. CASE next.pc = "store"
      <4>1. /\ target' = th[t].to
            /\ overlapped' = (overlapped \/ InSwitch(o))
        BY <2>4, <3>4 DEF apply_target_swap, Idle
      <4> QED
        BY <2>1, <2>2, <3>1, <3>2, <3>4, <4>1 DEF SwitchInv, InSwitch, Thread
    <3> QED
      BY <3>2, <3>3, <3>4
  <2>5. CASE apply_target_store(t) \/ mark_all_stale(t)
    <3> DEFINE p == IF apply_target_store(t) THEN "stale" ELSE "send"
    <3>1. th'[t] = [th[t] EXCEPT !.pc = p] /\ th'[o] = th[o] /\ UNCHANGED <<target, overlapped, down>>
      BY <2>5, Going DEF apply_target_store, mark_all_stale, tracker, app
    <3>2. th'[t].pc = p /\ th'[t].to = th[t].to /\ InSwitch(t)
      BY <2>3, <2>5, <3>1 DEF apply_target_store, mark_all_stale, InSwitch
    <3>3. stale \subseteq stale' /\ (p = "send" => down \subseteq stale')
      BY <2>5 DEF apply_target_store, mark_all_stale, tracker
    <3> QED
      BY <2>1, <2>2, <3>1, <3>2, <3>3 DEF SwitchInv, InSwitch, Thread
  <2> QED
    BY <1>2, <2>4, <2>5 DEF apply_target
<1> QED
  BY <1>1, <1>2, SteadySteps

-----------------------------------------------------------------------------
(* What is on its way to the Mac *)

WireShape ==
  /\ tcp \in Seq(Frames) /\ chan \in Seq(Frames) /\ Sent \in Seq(Frames)
  /\ InHand \in Seq(Frames) /\ Coming \in Seq(Frames)
  /\ active \in BOOLEAN /\ sleeps \in Nat /\ down \subseteq Held
  /\ th["ui"].pc \in {"forward", "write"} =>
       /\ th["ui"].event \in Event /\ InHand = <<Input(th["ui"].event)>>
       /\ Coming = Append(Sent, Input(th["ui"].event))
  /\ th["ui"].pc \notin {"forward", "write"} => InHand = <<>> /\ Coming = Sent

LEMMA WireTypes == TypeOK => WireShape
<1> SUFFICES ASSUME TypeOK PROVE WireShape
  OBVIOUS
<1>1. tcp \in Seq(Frames) /\ chan \in Seq(Frames) /\ th["ui"] \in States
  BY DEF TypeOK, Thread
<1>2. Sent \in Seq(Frames)
  BY <1>1 DEF Sent
<1>3. CASE th["ui"].pc \in {"forward", "write"}
  <2>1. th["ui"].event \in Event /\ Input(th["ui"].event) \in Frames
    BY <1>1, <1>3, EventStates, FramesMade
  <2>2. InHand = <<Input(th["ui"].event)>>
    BY <1>3 DEF InHand
  <2>3. Coming = Append(Sent, Input(th["ui"].event))
    BY <1>2, <2>1, <2>2 DEF Coming
  <2> QED
    BY <1>1, <1>2, <1>3, <2>1, <2>2, <2>3 DEF TypeOK, WireShape
<1>4. CASE th["ui"].pc \notin {"forward", "write"}
  <2>1. InHand = <<>>
    BY <1>4 DEF InHand
  <2>2. Coming = Sent
    BY <1>2, <2>1 DEF Coming
  <2> QED
    BY <1>1, <1>2, <1>4, <2>1, <2>2 DEF TypeOK, WireShape
<1> QED
  BY <1>3, <1>4

LEMMA WireTypesNext == TypeOK' => WireShape'
BY WireTypes, PTL

LEMMA Joined ==
  ASSUME NEW p \in Seq(Frames), NEW q \in Seq(Frames), p # <<>>
  PROVE  p \o q # <<>> /\ Head(p \o q) = Head(p) /\ Tail(p \o q) = Tail(p) \o q
OBVIOUS

LEMMA InputIs ==
  ASSUME NEW e
  PROVE  Input(e).kind = "key" /\ Input(e).event = e
BY DEF Input

WireInv == ReleasedInv /\ PressedInv

(* Steps that change nothing of it, or only of what is not yet to be held. *)
LEMMA WireKept ==
  ASSUME WireInv,
         UNCHANGED <<tcp, chan, conn, active, pressed, sleeps, target, overlapped>>,
         Settled' => Settled, Settled' => UNCHANGED <<InHand, down, stale, misfired>>
  PROVE  WireInv'
<1>1. ReleasedInv'
  <2>1. Settled' => Coming' = Coming
    BY DEF Coming, Sent
  <2> QED
    BY <2>1 DEF WireInv, ReleasedInv
<1>2. PressedInv'
  <2>1. Settled' => Coming' = Coming
    BY DEF Coming, Sent
  <2>2. Sent' = Sent
    BY DEF Sent
  <2> QED
    BY <2>1, <2>2 DEF WireInv, PressedInv
<1> QED
  BY <1>1, <1>2 DEF WireInv

LEMMA SteadySettled ==
  ASSUME Steady
  PROVE  Settled' <=> Settled
BY DEF Steady, Settled, InSwitch

LEMMA WireSwitches ==
  ASSUME TypeOK, WireInv, NEW t \in Thread,
         apply_target_swap(t) \/ apply_target_store(t) \/ mark_all_stale(t)
  PROVE  WireInv'
<1>1. UNCHANGED <<tcp, chan, conn, active, pressed, sleeps>>
  BY DEF apply_target_swap, apply_target_store, mark_all_stale, wire, receiver
<1>2. CASE ~Settled'
  <2>1. ReleasedInv'
    BY <1>1, <1>2 DEF WireInv, ReleasedInv
  <2>2. PressedInv'
    BY <1>2 DEF PressedInv
  <2> QED
    BY <2>1, <2>2 DEF WireInv
<1>3. CASE Settled'
  <2>1. th[t] \in States /\ Thread = {t, Other(t)} /\ ~InSwitch(t)' /\ ~InSwitch(Other(t))'
    BY <1>3 DEF TypeOK, Settled, Thread, Other
  <2>2. ASSUME NEW p \in {"store", "stale", "send"}, Goto(t, [th[t] EXCEPT !.pc = p]),
               th[t].pc \in {"swap", "store", "stale", "send"}
        PROVE  FALSE
    <3>1. [th[t] EXCEPT !.pc = p].pc = p
      BY <2>1, <2>2 DEF States
    <3> QED
      BY <2>1, <2>2, <3>1, Going DEF InSwitch
  <2>3. apply_target_swap(t) /\ target = th[t].to
    BY <2>2 DEF apply_target_swap, apply_target_store, mark_all_stale
  <2>4. Goto(t, Idle) /\ th[t].pc = "swap" /\ UNCHANGED <<target, down, stale, misfired>>
    BY <2>3 DEF apply_target_swap, tracker, history
  <2>5. overlapped' = overlapped
    BY <2>3 DEF apply_target_swap, TypeOK
  <2>6. th'[t] = Idle /\ th'[Other(t)] = th[Other(t)]
    BY <2>4, Going
  <2>7. Settled
    BY <2>1, <2>4, <2>6 DEF Settled, InSwitch
  <2>8. InHand' = InHand
    BY <2>1, <2>4, <2>6 DEF InHand, Idle, Thread
  <2> QED
    BY <1>1, <2>4, <2>5, <2>7, <2>8, WireKept
<1> QED
  BY <1>2, <1>3

LEMMA WireSends ==
  ASSUME TypeOK, TypeOK', SwitchInv, WireInv, NEW t \in Thread, apply_target_send(t)
  PROVE  WireInv'
<1> DEFINE m == TargetChanged(th[t].to)
           s == Append(Sent, m)
<1>1. /\ th[t].pc = "send" /\ InSwitch(t) /\ chan' = Append(chan, m) /\ th'[t] = Idle
      /\ th'[Other(t)] = th[Other(t)] /\ Thread = {t, Other(t)}
      /\ UNCHANGED <<tcp, conn, active, pressed, sleeps, target, overlapped, down, stale, misfired>>
  BY Going DEF apply_target_send, InSwitch, wire, receiver, app, tracker, history
<1>2. /\ th[t].to \in {"Local", "Mac"} /\ m \in Frames /\ m.kind = IF th[t].to = "Mac" THEN "on" ELSE "off"
      /\ t = "net" => m.kind = "off"
  <2>1. th[t] \in States
    BY DEF TypeOK
  <2> QED
    BY <1>1, <2>1, EventStates, FramesMade DEF SwitchInv, TargetChanged, Frame
<1> HIDE DEF m
<1>3. Sent' = s /\ s \in Seq(Frames) /\ Len(s) = Len(Sent) + 1 /\ Len(Sent) \in Nat
  BY <1>1, <1>2, WireTypes DEF Sent, WireShape
<1>4. \A k : ~HeldBy(s, pressed, active, k)
  BY <1>2, WireTypes, HeldLonger DEF WireShape
<1>5. /\ m.kind = "on" => ActiveAt(s, active, Len(s) + 1)
      /\ m.kind = "off" => ~ActiveAt(s, active, Len(s) + 1)
  BY <1>2, <1>3, WireTypes, ActiveLonger DEF WireShape
<1>6. \A k : ~HeldBy(Coming', pressed, active, k)
  <2>1. CASE th'["ui"].pc \in {"forward", "write"}
    <3> DEFINE e == th'["ui"].event
    <3>1. t = "net"
      BY <1>1, <2>1 DEF Idle, Thread
    <3>2. Coming' = Append(s, Input(e)) /\ e \in Event /\ Input(e) \in Frames
      BY <1>3, <2>1, WireTypesNext, FramesMade DEF WireShape
    <3>3. ~ActiveAt(s, active, Len(s) + 1)
      BY <1>2, <1>5, <3>1
    <3> HIDE DEF e, s
    <3> QED
      BY <1>3, <1>4, <3>2, <3>3, WireTypes, HeldLonger DEF WireShape
  <2>2. CASE th'["ui"].pc \notin {"forward", "write"}
    <3>1. Coming' = s
      BY <1>3, <2>2, WireTypesNext DEF WireShape
    <3> QED
      BY <1>4, <3>1
  <2> QED
    BY <2>1, <2>2
<1>7. ReleasedInv'
  <2>1. \E i \in 1..Len(chan') : chan'[i].kind # "key"
    <3>1. chan \in Seq(Frames)
      BY WireTypes DEF WireShape
    <3>2. Len(chan) + 1 \in 1..Len(chan') /\ chan'[Len(chan) + 1] = m
      BY <1>1, <1>2, <3>1
    <3> QED
      BY <1>2, <3>2
  <2> QED
    BY <1>1, <1>6, <2>1 DEF WireInv, ReleasedInv
<1>8. PressedInv'
  <2>1. SUFFICES ASSUME target = "Mac", ~overlapped
                 PROVE  m.kind = "on" /\ down \subseteq stale
    <3>1. CASE target = "Mac" /\ ~overlapped
      BY <1>1, <1>3, <1>5, <2>1, <3>1 DEF PressedInv
    <3>2. CASE ~(target = "Mac" /\ ~overlapped)
      BY <1>1, <3>2 DEF PressedInv
    <3> QED
      BY <3>1, <3>2
  <2>2. th[t].to = "Mac"
    BY <1>1, <2>1 DEF SwitchInv
  <2>3. t = "ui"
    BY <1>2, <2>2 DEF Thread
  <2> QED
    BY <1>1, <1>2, <2>2, <2>3 DEF SwitchInv
<1> QED
  BY <1>7, <1>8 DEF WireInv

LEMMA WireKey ==
  ASSUME TypeOK, TypeOK', WireInv, on_key, Steady
  PROVE  WireInv'
<1> PICK e \in Event : Handles(e)
  BY TrackerHandles
<1>1. /\ th["ui"].pc = "key" /\ UNCHANGED <<tcp, chan, conn, active, pressed, sleeps, target, overlapped>>
      /\ (Settled' <=> Settled) /\ Sent' = Sent
  BY SteadySettled DEF on_key, wire, receiver, app, Sent
<1>2. Coming = Sent /\ Sent \in Seq(Frames) /\ active \in BOOLEAN /\ Input(e) \in Frames
  BY <1>1, WireTypes, FramesMade DEF WireShape
<1> DEFINE k == e.key
           Held1 == down \ stale
<1>3. \A i \in Held \ {k} : /\ i \in down' \ stale' <=> i \in Held1
                            /\ i \in misfired' <=> i \in misfired
  BY DEF Handles, After
<1>4. CASE th'["ui"] = At("forward", e)
  <2>1. Coming' = Append(Sent, Input(e))
    BY <1>1, <1>4, WireTypesNext DEF At, WireShape
  <2>2. /\ down' = After(down, e) /\ k \notin stale
        /\ stale' = IF e.down THEN stale ELSE stale \ {k}
    BY <1>4 DEF Handles, At, Idle
  <2>3. \A i : HeldBy(Coming', pressed, active, i) <=>
                 IF k = i THEN e = Down(i) /\ ActiveAt(Sent, active, Len(Sent) + 1)
                          ELSE HeldBy(Sent, pressed, active, i)
    BY <1>2, <2>1, InputIs, HeldLonger
  <2>4. \A i \in Held : e = Down(i) <=> e.down /\ i = k
    BY EventIs
  <2>5. k \in down' \ stale' <=> e.down
    BY <2>2 DEF After, Event
  <2>6. k \in Held /\ down' \subseteq Held
    BY EventIs, WireTypesNext DEF WireShape
  <2>7. ReleasedInv'
    <3>1. \A i \in Held : i \in Held1 \cup misfired /\ i # k => i \in (down' \ stale') \cup misfired'
      BY <1>3
    <3>2. \A i \in Held : HeldBy(Coming', pressed, active, i) =>
            IF i = k THEN i \in down' \ stale' ELSE HeldBy(Sent, pressed, active, i)
      BY <2>3, <2>4, <2>5
    <3> QED
      BY <1>1, <1>2, <3>1, <3>2 DEF WireInv, ReleasedInv
  <2>8. PressedInv'
    BY <1>1, <1>2, <1>3, <2>3, <2>4, <2>5, <2>6 DEF WireInv, PressedInv
  <2> QED
    BY <2>7, <2>8 DEF WireInv
<1>5. CASE th'["ui"] # At("forward", e)
  <2>1. th'["ui"].pc \in {"idle", "swap"}
    BY <1>5 DEF Handles, Idle
  <2>2. Coming' = Sent
    BY <1>1, <2>1, WireTypesNext DEF WireShape
  <2>3. /\ k \in down' \ stale' => k \in Held1
        /\ k \in Held1 \cup misfired => k \in (down' \ stale') \cup misfired'
    <3>1. down' = After(down, e)
      BY DEF Handles
    <3>2. CASE Fires(e, Modifier \in down)
      BY <3>1, <3>2 DEF Handles, After, Fires
    <3>3. CASE ~Fires(e, Modifier \in down)
      <4>1. k \in stale /\ misfired' = misfired
        BY <1>5, <3>3 DEF Handles
      <4>2. e.down => stale' = stale
        BY <3>3 DEF Handles
      <4> QED
        BY <3>1, <4>1, <4>2 DEF After
    <3> QED
      BY <3>2, <3>3
  <2>4. \A i \in Held : /\ i \in down' \ stale' => i \in Held1
                        /\ i \in Held1 \cup misfired => i \in (down' \ stale') \cup misfired'
    BY <1>3, <2>3
  <2>5. down' \subseteq Held /\ down \subseteq Held
    BY WireTypes, WireTypesNext DEF WireShape
  <2>6. ReleasedInv'
    BY <1>1, <1>2, <2>2, <2>4 DEF WireInv, ReleasedInv
  <2>7. PressedInv'
    BY <1>1, <1>2, <2>2, <2>4, <2>5 DEF WireInv, PressedInv
  <2> QED
    BY <2>6, <2>7 DEF WireInv
<1> QED
  BY <1>4, <1>5

(* The UI thread writes what it has in hand. *)
LEMMA WireHandle ==
  ASSUME TypeOK, TypeOK', WireInv, Steady, handle_key_event
  PROVE  WireInv'
<1> DEFINE e == th["ui"].event
<1>1. /\ th["ui"].pc = "forward" /\ th'["ui"] = IF target = "Mac" THEN At("write", e) ELSE Idle
      /\ UNCHANGED <<tcp, chan, conn, active, pressed, sleeps, target, overlapped, down, stale, misfired>>
      /\ (Settled' <=> Settled) /\ Sent' = Sent
  BY SteadySettled DEF handle_key_event, Goto, TypeOK, Thread, wire, receiver, app, tracker, history, Sent
<1>2. CASE target = "Mac"
  <2>1. InHand' = InHand
    BY <1>1, <1>2 DEF InHand, At
  <2> QED
    BY <1>1, <2>1, WireKept
<1>3. CASE target # "Mac"
  <2>1. ReleasedInv'
    BY <1>1, <1>3 DEF WireInv, ReleasedInv
  <2>2. PressedInv'
    BY <1>1, <1>3 DEF PressedInv
  <2> QED
    BY <2>1, <2>2 DEF WireInv
<1> QED
  BY <1>2, <1>3

LEMMA WireWrites ==
  ASSUME TypeOK, TypeOK', WireInv, Steady, handle_key_event_send
  PROVE  WireInv'
<1> DEFINE e == th["ui"].event
           m == Input(e)
<1>1. /\ th["ui"].pc = "write" /\ th'["ui"] = Idle /\ chan' = Append(chan, m)
      /\ UNCHANGED <<tcp, conn, active, pressed, sleeps, target, overlapped, down, stale, misfired>>
      /\ (Settled' <=> Settled)
  BY SteadySettled DEF handle_key_event_send, Goto, TypeOK, Thread, wire, receiver, app, tracker, history
<1>2. /\ m \in Frames /\ m.kind = "key" /\ chan \in Seq(Frames) /\ Sent \in Seq(Frames) /\ tcp \in Seq(Frames)
      /\ active \in BOOLEAN /\ Coming = Append(Sent, m)
  BY <1>1, WireTypes, InputIs, FramesMade DEF WireShape
<1> HIDE DEF m
<1>3. Sent' = Append(Sent, m)
  BY <1>1, <1>2 DEF Sent
<1>4. Coming' = Coming
  BY <1>1, <1>2, <1>3, WireTypesNext DEF WireShape, Idle
<1>5. ActiveAt(Sent', active, Len(Sent') + 1) <=> ActiveAt(Sent, active, Len(Sent) + 1)
  <2>1. Len(Sent') + 1 = Len(Sent) + 2
    BY <1>2, <1>3
  <2> QED
    BY <1>2, <1>3, <2>1, ActiveLonger
<1>6. (\A i \in 1..Len(chan') : chan'[i].kind = "key") => \A i \in 1..Len(chan) : chan[i].kind = "key"
  BY <1>1, <1>2
<1>7. ReleasedInv'
  BY <1>1, <1>4, <1>6 DEF WireInv, ReleasedInv
<1>8. PressedInv'
  BY <1>1, <1>4, <1>5 DEF WireInv, PressedInv
<1> QED
  BY <1>7, <1>8 DEF WireInv

LEMMA WireTakes ==
  ASSUME TypeOK, TypeOK', WireInv, Steady, net_take
  PROVE  WireInv'
<1> DEFINE m == Head(chan)
<1>1. /\ chan # <<>> /\ chan' = Tail(chan) /\ tcp' = IF Accepted(m) THEN Append(tcp, m) ELSE tcp
      /\ UNCHANGED <<conn, active, pressed, sleeps, target, overlapped, down, stale, misfired, th>>
      /\ (Settled' <=> Settled)
  BY SteadySettled DEF net_take, receiver, app, tracker, history
<1>2. /\ chan \in Seq(Frames) /\ tcp \in Seq(Frames) /\ m \in Frames /\ m = chan[1]
      /\ 1 \in 1..Len(chan) /\ active \in BOOLEAN
      /\ \A i \in 1..Len(chan) : i = 1 \/ (i - 1 \in 1..Len(chan') /\ chan[i] = chan'[i - 1])
  BY <1>1, WireTypes DEF WireShape
<1>3. CASE Accepted(m)
  <2>1. Sent' = Sent
    <3>1. Append(tcp, m) \o Tail(chan) = tcp \o chan
      BY <1>1, <1>2
    <3> QED
      BY <1>1, <1>3, <3>1 DEF Sent
  <2>2. Coming' = Coming
    BY <1>1, <2>1 DEF Coming, InHand
  <2>3. conn /\ (m.kind = "key" => target = "Mac")
    BY <1>3 DEF Accepted
  <2>4. m.kind # "key" => \A k : ~HeldBy(tcp', pressed, active, k)
    BY <1>1, <1>2, <1>3, HeldLonger
  <2>5. ReleasedInv'
    BY <1>1, <2>2, <2>3, <2>4 DEF WireInv, ReleasedInv
  <2>6. PressedInv'
    BY <1>1, <2>1, <2>2 DEF WireInv, PressedInv
  <2> QED
    BY <2>5, <2>6 DEF WireInv
<1>4. CASE ~Accepted(m)
  <2>1. ~conn \/ (m.kind = "key" /\ target # "Mac")
    BY <1>4 DEF Accepted
  <2>2. m.kind = "key" /\ (\A i \in 1..Len(chan') : chan'[i].kind = "key")
          => \A i \in 1..Len(chan) : chan[i].kind = "key"
    BY <1>2
  <2>3. ReleasedInv'
    BY <1>1, <1>4, <2>1, <2>2 DEF WireInv, ReleasedInv
  <2>4. PressedInv'
    BY <1>1, <2>1 DEF PressedInv
  <2> QED
    BY <2>3, <2>4 DEF WireInv
<1> QED
  BY <1>3, <1>4

LEMMA WireConnection ==
  ASSUME TypeOK, TypeOK', WireInv, Steady, drop_connection \/ start_session
  PROVE  WireInv'
<1>1. /\ UNCHANGED <<chan, active, pressed, sleeps, target, overlapped, down, stale, misfired>>
      /\ (Settled' <=> Settled) /\ th'["ui"] = th["ui"]
      /\ tcp \in Seq(Frames) /\ active \in BOOLEAN
  BY SteadySettled, WireTypes DEF drop_connection, start_session, receiver, app, tracker, history, Goto, TypeOK,
                                  Thread, WireShape
<1>2. CASE drop_connection
  <2>1. PICK n \in 0..Len(tcp) : tcp' = Append(SubSeq(tcp, 1, n), Frame("end"))
    BY <1>2 DEF drop_connection
  <2> DEFINE left == SubSeq(tcp, 1, n)
  <2>2. left \in Seq(Frames) /\ Frame("end") \in Frames /\ Frame("end").kind = "end"
    BY <1>1, <2>1, FramesMade DEF Frame
  <2>3. tcp' = Append(left, Frame("end"))
    BY <2>1
  <2> HIDE DEF left
  <2>4. \A k : ~HeldBy(tcp', pressed, active, k)
    BY <1>1, <2>2, <2>3, HeldLonger
  <2>5. ~conn'
    BY <1>2 DEF drop_connection
  <2>6. ReleasedInv'
    BY <1>1, <2>4, <2>5 DEF WireInv, ReleasedInv
  <2>7. PressedInv'
    BY <2>5 DEF PressedInv
  <2> QED
    BY <2>6, <2>7 DEF WireInv
<1>3. CASE start_session /\ target = "Mac"
  <2>1. UNCHANGED <<tcp, conn>>
    BY <1>3 DEF start_session
  <2>2. InHand' = InHand
    BY <1>1 DEF InHand
  <2> QED
    BY <1>1, <2>1, <2>2, WireKept
<1>4. CASE start_session /\ target # "Mac"
  <2>1. PICK unheard \in {0, 1} :
          /\ unheard <= Len(tcp)
          /\ tcp' = SubSeq(tcp, 1, Len(tcp) - unheard) \o <<Frame("begin"), Frame("off")>>
    BY <1>4 DEF start_session
  <2> DEFINE kept == SubSeq(tcp, 1, Len(tcp) - unheard)
  <2>2. kept \in Seq(Frames) /\ tcp' = kept \o <<Frame("begin"), Frame("off")>>
    BY <1>1, <2>1
  <2> HIDE DEF kept
  <2>3. Frame("begin") \in Frames /\ Frame("off") \in Frames /\ Frame("off").kind = "off"
    BY FramesMade DEF Frame
  <2> DEFINE begun == Append(kept, Frame("begin"))
  <2>4. begun \in Seq(Frames) /\ tcp' = Append(begun, Frame("off"))
    BY <2>2, <2>3
  <2> HIDE DEF begun
  <2>5. \A k : ~HeldBy(tcp', pressed, active, k)
    BY <1>1, <2>3, <2>4, HeldLonger
  <2>6. ReleasedInv'
    BY <1>1, <1>4, <2>5 DEF WireInv, ReleasedInv
  <2>7. PressedInv'
    BY <1>1, <1>4 DEF PressedInv
  <2> QED
    BY <2>6, <2>7 DEF WireInv
<1> QED
  BY <1>2, <1>3, <1>4

LEMMA WireReceives ==
  ASSUME TypeOK, TypeOK', WireInv, Steady, didReceive
  PROVE  WireInv'
<1> DEFINE m == Head(tcp)
<1>1. /\ tcp # <<>> /\ tcp' = Tail(tcp)
      /\ UNCHANGED <<chan, conn, sleeps, target, overlapped, down, stale, misfired, th>>
      /\ (Settled' <=> Settled)
  BY SteadySettled DEF didReceive, app, tracker, history
<1>2. /\ tcp \in Seq(Frames) /\ Sent \in Seq(Frames) /\ Coming \in Seq(Frames) /\ chan \in Seq(Frames)
      /\ InHand \in Seq(Frames) /\ m \in Frames /\ active \in BOOLEAN
  BY <1>1, WireTypes DEF WireShape
<1>3. /\ Sent # <<>> /\ Head(Sent) = m /\ Sent' = Tail(Sent)
  BY <1>1, <1>2, Joined DEF Sent
<1>4. /\ Coming # <<>> /\ Head(Coming) = m /\ Coming' = Tail(Coming)
  <2>1. InHand' = InHand
    BY <1>1 DEF InHand
  <2> QED
    BY <1>2, <1>3, <2>1, Joined DEF Coming
<1>5. active' = Activates(m, active) /\ pressed' = Receives(m, pressed, active)
  <2>1. CASE m.kind = "key"
    BY <2>1 DEF didReceive, injector_key, Activates, Receives
  <2>2. CASE m.kind # "key"
    BY <2>2 DEF didReceive, releaseAll, Activates, Receives
  <2> QED
    BY <2>1, <2>2
<1>6. ~active => pressed = {}
  BY DEF WireInv, ReleasedInv
<1> HIDE DEF m
<1>7. \A k : /\ HeldBy(tcp', pressed', active', k) <=> HeldBy(tcp, pressed, active, k)
             /\ HeldBy(Coming', pressed', active', k) <=> HeldBy(Coming, pressed, active, k)
  BY <1>1, <1>2, <1>4, <1>5, <1>6, HeldShorter DEF m
<1>8. ActiveAt(Sent', active', Len(Sent') + 1) <=> ActiveAt(Sent, active, Len(Sent) + 1)
  <2>1. Len(Sent') + 1 = Len(Sent) /\ Len(Sent') + 1 \in 1..(Len(Tail(Sent)) + 1)
    BY <1>2, <1>3
  <2> QED
    BY <1>2, <1>3, <1>5, <2>1, ActiveShorter
<1>9. ~active' => pressed' = {}
  BY <1>5, <1>6 DEF Activates, Receives
<1>10. ReleasedInv'
  BY <1>1, <1>7, <1>9 DEF WireInv, ReleasedInv
<1>11. PressedInv'
  BY <1>1, <1>7, <1>8 DEF WireInv, PressedInv
<1> QED
  BY <1>10, <1>11 DEF WireInv

LEMMA WireSleeps ==
  ASSUME TypeOK, WireInv, Steady, willSleep
  PROVE  WireInv'
<1>1. /\ pressed' = {} /\ sleeps' = sleeps + 1 /\ sleeps \in Nat
      /\ UNCHANGED <<tcp, chan, conn, active, target, overlapped, down, stale, misfired, th>>
      /\ (Settled' <=> Settled)
  BY SteadySettled DEF willSleep, wire, app, tracker, history, TypeOK
<1>2. Sent' = Sent /\ Coming' = Coming
  BY <1>1 DEF Sent, Coming, InHand
<1>3. \A q, k : HeldBy(q, pressed', active, k) => HeldBy(q, pressed, active, k)
  BY <1>1, HeldFewer
<1>4. ReleasedInv'
  BY <1>1, <1>2, <1>3 DEF WireInv, ReleasedInv
<1>5. PressedInv'
  BY <1>1, <1>2 DEF WireInv, PressedInv
<1> QED
  BY <1>4, <1>5 DEF WireInv

LEMMA WireStep ==
  ASSUME TypeOK, TypeOK', SwitchInv, WireInv, [Next]_vars
  PROVE  WireInv'
<1>1. ASSUME NEW t \in Thread, apply_target(t)
      PROVE  WireInv'
  BY <1>1, WireSwitches, WireSends DEF apply_target
<1>2. ASSUME Steady, physical_event \/ push_off_edge \/ on_wm_input
      PROVE  WireInv'
  <2>1. UNCHANGED <<tcp, chan, conn, active, pressed, sleeps, target, overlapped, down, stale, misfired>>
    BY <1>2 DEF physical_event, push_off_edge, on_wm_input, wire, receiver, app, tracker, history
  <2>2. th["ui"].pc = "idle" /\ th'["ui"].pc \notin {"forward", "write"}
    BY <1>2 DEF physical_event, keyboard_proc, mouse_proc, unhooked, push_off_edge, on_wm_input,
                dispatch, Goto, TypeOK, Thread, Idle, At, Switch
  <2>3. InHand' = InHand
    BY <2>2 DEF InHand
  <2> QED
    BY <1>2, <2>1, <2>3, SteadySettled, WireKept
<1>3. ASSUME Steady, edge_hit \/ post \/ willSleep_post \/ UNCHANGED vars
      PROVE  WireInv'
  <2>1. UNCHANGED <<tcp, chan, conn, active, pressed, sleeps, target, overlapped, down, stale, misfired>>
    BY <1>3 DEF edge_hit, post, willSleep_post, vars, wire, receiver, app, tracker, history
  <2>2. th'["ui"] = th["ui"]
    BY <1>3 DEF edge_hit, post, willSleep_post, vars, Goto, TypeOK, Thread
  <2>3. InHand' = InHand
    BY <2>2 DEF InHand
  <2> QED
    BY <1>3, <2>1, <2>3, SteadySettled, WireKept
<1> QED
  BY <1>1, <1>2, <1>3, SteadySteps, WireKey, WireHandle, WireWrites, WireTakes, WireConnection,
     WireReceives, WireSleeps
  DEF Next, ui_step, net_step, Thread

-----------------------------------------------------------------------------
(* Nothing is stuck *)

IInv == TrackerSide /\ MacInv /\ SwitchInv /\ WireInv

LEMMA IInvInit == Init => IInv
<1> SUFFICES ASSUME Init PROVE IInv
  OBVIOUS
<1>1. TrackerSide
  BY TrackerInit
<1>2. MacInv
  BY DEF Init, MacInv
<1>3. SwitchInv
  BY DEF Init, SwitchInv, InSwitch, Idle, Thread
<1>4. ReleasedInv
  BY DEF Init, ReleasedInv, HeldBy
<1>5. PressedInv
  BY DEF Init, PressedInv
<1> QED
  BY <1>1, <1>2, <1>3, <1>4, <1>5 DEF IInv, WireInv

LEMMA IInvStep ==
  ASSUME IInv, [Next]_vars
  PROVE  IInv'
BY TrackerStep, MacStep, SwitchStep, WireStep DEF IInv, TrackerSide

(* Once all has arrived, what the Mac holds is what it was sent. *)
LEMMA WhenQuiet ==
  ASSUME IInv, Quiet, ~raced
  PROVE  /\ macHeld = pressed
         /\ \A k : HeldBy(tcp, pressed, active, k) <=> k \in pressed
         /\ \A k : HeldBy(Coming, pressed, active, k) <=> k \in pressed
         /\ Settled /\ chan = <<>>
<1>1. posts = {} /\ mainPosts = {} /\ tcp = <<>> /\ chan = <<>> /\ \A t \in Thread : th[t] = Idle
  BY DEF Quiet
<1>2. pressed \subseteq Held /\ macHeld \subseteq Held
  BY DEF IInv, TrackerSide, TypeOK
<1>3. macHeld = pressed
  BY <1>1, <1>2 DEF IInv, MacInv
<1>4. \A k : HeldBy(<<>>, pressed, active, k) <=> k \in pressed
  BY DEF HeldBy
<1>5. Coming = <<>>
  <2>1. InHand = <<>> /\ Sent = <<>>
    BY <1>1 DEF InHand, Sent, Idle, Thread
  <2> QED
    BY <2>1 DEF Coming
<1> QED
  BY <1>1, <1>3, <1>4, <1>5 DEF Settled, InSwitch, Idle

LEMMA QuietTracker ==
  ASSUME IInv, Quiet
  PROVE  down \ stale \subseteq phys \cup (IF setting.hooked THEN astray ELSE {})
<1>1. TypeOK /\ HooksInv /\ TrackerInv /\ Waiting = <<>>
  BY UiIdle DEF IInv, TrackerSide, Quiet, Thread
<1>2. CASE setting.hooked
  <2>1. \A k : Unseen(Waiting, k)
    BY <1>1 DEF Unseen
  <2> QED
    BY <1>1, <1>2, <2>1 DEF TrackerInv, HookedInv, TypeOK
<1>3. CASE ~setting.hooked
  <2> PICK D, Z : Expected(Waiting, D, Z)
    BY <1>1, <1>3 DEF TrackerInv, UnhookedInv
  <2> QED
    BY <1>1 DEF Expected
<1> QED
  BY <1>2, <1>3

LEMMA QuietHolds ==
  ASSUME IInv, Quiet, ~raced
  PROVE  macHeld \subseteq (IF target = "Mac" /\ conn THEN down \ stale ELSE {})
                          \cup (IF setting.hooked THEN misfired ELSE {})
<1>1. /\ macHeld = pressed /\ pressed \subseteq Held /\ target \in {"Local", "Mac"} /\ Settled
      /\ \A i \in 1..Len(chan) : chan[i].kind = "key"
      /\ ~setting.hooked => misfired = {}
  BY WhenQuiet DEF IInv, TrackerSide, TypeOK, HooksInv
<1>2. CASE ~conn
  BY <1>1, <1>2, WhenQuiet DEF IInv, WireInv, ReleasedInv
<1>3. CASE conn /\ target = "Local"
  BY <1>1, <1>3, WhenQuiet DEF IInv, WireInv, ReleasedInv
<1>4. CASE conn /\ target = "Mac"
  <2>1. \A k \in Held : k \in pressed => k \in (down \ stale) \cup misfired
    BY <1>1, <1>4, WhenQuiet DEF IInv, WireInv, ReleasedInv
  <2> QED
    BY <1>1, <1>4, <2>1
<1> QED
  BY <1>1, <1>2, <1>3, <1>4

(* Once all has arrived, what the Mac holds is held on the keyboard,       *)
(* whatever was lost with a connection and however switches of two threads *)
(* overlapped; except, with the hook, keys astray or misfired (hooks.rs:   *)
(* 250-267), and where a sleep raced.                                      *)
THEOREM NothingIsStuck == Spec => []NothingStuck
<1>1. Init => IInv
  BY IInvInit
<1>2. IInv /\ [Next]_vars => IInv'
  BY IInvStep
<1>3. IInv => NothingStuck
  BY QuietHolds, QuietTracker DEF NothingStuck, Excepted
<1> QED
  BY <1>1, <1>2, <1>3, PTL DEF Spec

(* The Mac holds exactly what the tracker saw pressed and not released     *)
(* since it got the input, but for what a sleep released and, with the     *)
(* hook, keys misfired, and nothing else while Windows has it; except once *)
(* two switches overlapped, or a sleep raced.                              *)
THEOREM MacHolds == Spec => []MacHoldsWhatWasPressed
<1>1. Init => IInv
  BY IInvInit
<1>2. IInv /\ [Next]_vars => IInv'
  BY IInvStep
<1>3. IInv => MacHoldsWhatWasPressed
  <2>1. ASSUME IInv, Quiet, ~raced, ~overlapped, sleeps = 0
        PROVE  (IF target = "Mac" /\ conn THEN down \ stale ELSE {}) \subseteq macHeld
    BY <2>1, WhenQuiet DEF IInv, WireInv, PressedInv
  <2> QED
    BY <2>1, QuietHolds DEF MacHoldsWhatWasPressed
<1> QED
  BY <1>1, <1>2, <1>3, PTL DEF Spec

=============================================================================
