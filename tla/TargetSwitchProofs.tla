------------------------- MODULE TargetSwitchProofs -------------------------
(***************************************************************************)
(* The safety properties of TargetSwitch, proved for every value of the    *)
(* constants.  None of them is inductive: each says something only of the  *)
(* states in which no switch is in progress, so IInv adds what holds in    *)
(* the middle of one. The two exceptions of TargetSwitch stay: overlapped, *)
(* the last switch began between two writes of the other thread's, and     *)
(* lateSave, it came between the halves of save_settings. Neither is for   *)
(* good: SwapStep shows that a switch that begins alone restores all of    *)
(* IInv whatever was there before it.                                      *)
(***************************************************************************)
EXTENDS TargetSwitch, SequenceTheorems, TLAPS

UiPC   == {"idle", "swap", "store", "clip", "post", "send", "savesuppress",
           "savepref", "reconnect", "shutdown", "done"}
NetPC  == {"idle", "swap", "store", "clip", "post", "send", "check", "auth",
           "shake", "recv", "beat", "done"}

(* Where the threads can be; the network thread only ever switches back.   *)
ThreadInv ==
  /\ pc["ui"] \in UiPC /\ pc["net"] \in NetPC
  /\ ret["ui"]  \in {"idle", "reconnect", "shutdown"}
  /\ ret["net"] \in {"idle", "auth", "shake", "recv", "beat", "done"}
  /\ arg["net"] = "Local"

NoSwitch == ~InSwitch("ui") /\ ~InSwitch("net")

(* What a switch in progress has done so far, at each of its steps.        *)
FlightInv ==
  /\ ~(InSwitch("ui") /\ InSwitch("net"))
  /\ \A t \in Thread :
       /\ InSwitch(t) => target = arg[t]
       /\ pc[t] \in {"post", "send"} /\ arg[t] = "Local" => ~clip

(* The suppress flag in the course of a switch and between switches,       *)
(* save_settings half done included.                                       *)
SuppressInv ==
  /\ \A t \in Thread :
       pc[t] \in {"clip", "post", "send"} => (suppress <=> (arg[t] = "Mac" /\ pref))
  /\ pc["ui"] = "savesuppress" => target = "Mac" /\ ~InSwitch("net")
  /\ NoSwitch => (suppress <=> (target = "Mac" /\ (IF pc["ui"] = "savepref" THEN newPref ELSE pref)))

(* The last post not handled, or the banner itself, says Windows is shown. *)
Shown == IF Len(uiq) = 0 THEN ~banner ELSE ~uiq[Len(uiq)]

DesktopInv ==
  /\ NoSwitch /\ target = "Local" => ~clip /\ Shown
  /\ \A t \in Thread : pc[t] = "send" /\ arg[t] = "Local" => Shown

IsChange(m) == m.type \in {"ToMac", "ToLocal"}
LastChange(q, tgt) ==
  \E i \in 1..Len(q) : /\ q[i].type = TargetChanged(tgt)
                       /\ \A j \in 1..Len(q) : j > i => ~IsChange(q[j])
NoChange(q) == \A j \in 1..Len(q) : ~IsChange(q[j])

(* The last target change queued names the target; with none queued the    *)
(* live session has been told, and a session about to start finds the      *)
(* target Local.                                                           *)
ToldInv ==
  NoSwitch => \/ LastChange(chan, target)
              \/ /\ NoChange(chan)
                 /\ conn => (told <=> target = "Mac")
                 /\ pc["net"] \in {"auth", "shake"} => target = "Local"

IInv ==
  /\ TypeOK
  /\ ThreadInv
  /\ ~overlapped => FlightInv /\ DesktopInv /\ ToldInv
  /\ ~overlapped /\ ~lateSave => SuppressInv

-----------------------------------------------------------------------------
(* Sequences of messages.                                                  *)

LEMMA AllStaleType ==
  ASSUME NEW q \in Seq(Msg)
  PROVE  /\ AllStale(q) \in Seq(Msg) /\ Len(AllStale(q)) = Len(q)
         /\ \A i \in 1..Len(q) : AllStale(q)[i].type = q[i].type
<1>1. AllStale(q) = [i \in 1..Len(q) |-> [q[i] EXCEPT !.live = FALSE]]
  BY DEF AllStale
<1>2. \A i \in 1..Len(q) : q[i] \in Msg
  OBVIOUS
<1>3. \A i \in 1..Len(q) : /\ [q[i] EXCEPT !.live = FALSE] \in Msg
                            /\ [q[i] EXCEPT !.live = FALSE].type = q[i].type
  BY <1>2 DEF Msg
<1>4. AllStale(q) \in [1..Len(q) -> Msg] /\ Len(q) \in Nat
  BY <1>1, <1>3
<1>5. AllStale(q) \in Seq(Msg) /\ Len(AllStale(q)) = Len(q)
  BY <1>4
<1>6. QED
  BY <1>1, <1>3, <1>5

LEMMA LastOfAppend ==
  ASSUME NEW q \in Seq(Msg), NEW m \in Msg
  PROVE  /\ ~IsChange(m) => /\ NoChange(q) => NoChange(Append(q, m))
                            /\ \A tgt \in Target : LastChange(q, tgt) => LastChange(Append(q, m), tgt)
         /\ \A tgt \in Target : m.type = TargetChanged(tgt) => LastChange(Append(q, m), tgt)
  BY DEF IsChange, NoChange, LastChange

LEMMA LastOfTail ==
  ASSUME NEW q \in Seq(Msg), q # <<>>
  PROVE  /\ Tail(q) \in Seq(Msg)
         /\ NoChange(q) => NoChange(Tail(q))
         /\ \A tgt \in Target : LastChange(q, tgt) =>
              \/ LastChange(Tail(q), tgt)
              \/ Head(q).type = TargetChanged(tgt) /\ NoChange(Tail(q))
<1>1. /\ Tail(q) \in Seq(Msg) /\ Len(Tail(q)) = Len(q) - 1 /\ Len(q) \in Nat \ {0}
      /\ \A i \in 1..Len(Tail(q)) : Tail(q)[i] = q[i + 1] /\ i + 1 \in 1..Len(q)
  OBVIOUS
<1>2. NoChange(q) => NoChange(Tail(q))
  BY <1>1 DEF NoChange
<1>3. ASSUME NEW tgt \in Target, LastChange(q, tgt)
      PROVE  LastChange(Tail(q), tgt) \/ (Head(q).type = TargetChanged(tgt) /\ NoChange(Tail(q)))
  <2>1. PICK i \in 1..Len(q) : /\ q[i].type = TargetChanged(tgt)
                               /\ \A j \in 1..Len(q) : j > i => ~IsChange(q[j])
    BY <1>3 DEF LastChange
  <2>2. CASE i = 1
    BY <2>1, <2>2, <1>1 DEF NoChange
  <2>3. CASE i # 1
    <3>1. i - 1 \in 1..Len(Tail(q)) /\ Tail(q)[i - 1] = q[i]
      BY <2>3, <1>1
    <3>2. \A j \in 1..Len(Tail(q)) : j > i - 1 => ~IsChange(Tail(q)[j])
      BY <2>1, <1>1
    <3>3. QED
      BY <3>1, <3>2, <2>1 DEF LastChange
  <2>4. QED
    BY <2>2, <2>3
<1>4. QED
  BY <1>1, <1>2, <1>3

LEMMA LastOfStale ==
  ASSUME NEW q \in Seq(Msg)
  PROVE  /\ NoChange(q) => NoChange(AllStale(q))
         /\ \A tgt \in Target : LastChange(q, tgt) => LastChange(AllStale(q), tgt)
  BY AllStaleType DEF NoChange, LastChange, IsChange

-----------------------------------------------------------------------------
(* Types and places.                                                       *)

LEMMA TypeInit == Init => TypeOK /\ ThreadInv
<1>1. <<>> \in Seq(BOOLEAN) /\ <<>> \in Seq(Msg)
  OBVIOUS
<1>2. Init => TypeOK
  BY <1>1 DEF Init, TypeOK, Target, Link, PC
<1>3. Init => ThreadInv
  BY DEF Init, ThreadInv, UiPC, NetPC, Thread
<1>4. QED
  BY <1>2, <1>3

(* Every action, by name: what [Next]_vars can be.                         *)
Steps ==
  \/ \E t \in Thread : \/ apply_target_swap(t) \/ apply_target_store(t)
                        \/ apply_target_clip(t) \/ apply_target_post(t)
                        \/ apply_target_send(t)
  \/ set_link_check \/ request_target_mac \/ ui_force_local \/ ui_resume \/ ui_quit
  \/ ui_send \/ save_settings \/ save_settings_suppress \/ save_settings_config
  \/ ui_handle_post \/ net_connect \/ net_authenticating \/ start_session
  \/ connect_failed \/ net_target_changed \/ net_edge_hit \/ net_bye
  \/ net_link_lost \/ net_reconnect \/ net_config_changed \/ net_shutdown
  \/ net_recv_times_out \/ net_heartbeat \/ reader_incoming
  \/ reader_of_closed_connection \/ backoff_elapses

LEMMA StepsOfNext == Next => Steps
  BY DEF Next, Steps, ui_continues, ui_user, net_runs, net_connects, net_receives,
         environment, apply_target_step, Thread

LEMMA ChanStep ==
  ASSUME TypeOK, [Next]_vars
  PROVE  chan' \in Seq(Msg)
<1>1. chan \in Seq(Msg)
  BY DEF TypeOK
<1>2. \A type \in MsgType : Append(chan, Fresh(type)) \in Seq(Msg)
  <2>1. \A type \in MsgType : Fresh(type) \in Msg
    BY DEF Fresh, Msg
  <2>2. QED
    BY <2>1, <1>1
<1>3. chan # <<>> => Tail(chan) \in Seq(Msg)
  BY <1>1
<1>4. AllStale(chan) \in Seq(Msg)
  BY <1>1, AllStaleType
<1>5. chan # <<>> => AllStale(Tail(chan)) \in Seq(Msg)
  BY <1>3, AllStaleType
<1>6. Append(chan, [type |-> "LinkLost", live |-> FALSE]) \in Seq(Msg)
  <2>1. [type |-> "LinkLost", live |-> FALSE] \in Msg
    BY DEF Msg, MsgType
  <2>2. QED
    BY <2>1, <1>1
<1>7. CASE chan' = chan
  BY <1>7, <1>1
<1>8. ASSUME NEW type \in MsgType, Send(type) PROVE chan' \in Seq(Msg)
  BY <1>8, <1>2 DEF Send
<1>9. CASE chan # <<>> /\ (chan' = Tail(chan) \/ chan' = AllStale(Tail(chan)))
  BY <1>9, <1>3, <1>5
<1>10. CASE chan' = AllStale(chan)
  BY <1>10, <1>4
<1>11. ASSUME NEW t \in Thread, apply_target_send(t) PROVE chan' \in Seq(Msg)
  <2>1. TargetChanged(arg[t]) \in MsgType
    BY DEF TargetChanged, MsgType
  <2>2. QED
    BY <1>11, <1>8, <2>1 DEF apply_target_send
<1>12. CASE ui_send \/ save_settings_config \/ reader_incoming
  BY <1>12, <1>8 DEF ui_send, save_settings_config, reader_incoming, MsgType
<1>13. CASE reader_of_closed_connection
  BY <1>13, <1>6 DEF reader_of_closed_connection
<1>14. CASE net_target_changed \/ net_bye \/ net_link_lost \/ net_reconnect \/ net_config_changed
  BY <1>14, <1>9 DEF net_target_changed, net_bye, net_link_lost, net_reconnect, net_config_changed,
                     Receives, EndsConnection, Consume, close_connection
<1>15. CASE net_edge_hit \/ net_shutdown
  BY <1>15, <1>9 DEF net_edge_hit, net_shutdown, Receives, Consume
<1>16. CASE net_heartbeat
  BY <1>16, <1>7, <1>10 DEF net_heartbeat, close_connection
<1>17. ASSUME NEW t \in Thread,
              \/ apply_target_swap(t) \/ apply_target_store(t)
              \/ apply_target_clip(t) \/ apply_target_post(t)
       PROVE  chan' = chan
  BY <1>17 DEF apply_target_swap, apply_target_store, apply_target_clip, apply_target_post
<1>18. CASE \/ set_link_check \/ request_target_mac \/ ui_force_local \/ ui_resume \/ ui_quit
            \/ save_settings \/ save_settings_suppress \/ ui_handle_post \/ net_connect
            \/ net_authenticating \/ start_session \/ connect_failed \/ net_recv_times_out
            \/ backoff_elapses
  BY <1>18, <1>7
     DEF set_link_check, request_target_mac, ui_force_local, ui_resume, ui_quit, force_local,
         save_settings, save_settings_suppress, ui_handle_post, net_connect,
         net_authenticating, start_session, connect_failed, net_recv_times_out, backoff_elapses
<1>19. CASE UNCHANGED vars
  BY <1>19, <1>7 DEF vars
<1>20. QED
  BY StepsOfNext, <1>7, <1>11, <1>12, <1>13, <1>14, <1>15, <1>16, <1>17, <1>18, <1>19 DEF Steps

(* Where the threads are; TypeOK without its three functions is the rest.  *)
ControlOK ==
  /\ pc \in [Thread -> PC] /\ arg \in [Thread -> Target] /\ ret \in [Thread -> PC]
  /\ ThreadInv

Places   == target \in Target /\ link \in Link /\ uiq \in Seq(BOOLEAN)
UiFlags  == suppress \in BOOLEAN /\ pref \in BOOLEAN /\ clip \in BOOLEAN /\ newPref \in BOOLEAN
NetFlags == conn \in BOOLEAN /\ told \in BOOLEAN /\ oldReader \in BOOLEAN /\ manual \in BOOLEAN
DataOK ==
  /\ Places /\ UiFlags /\ NetFlags
  /\ banner \in BOOLEAN /\ cooldown \in BOOLEAN
  /\ overlapped \in BOOLEAN /\ lateSave \in BOOLEAN

LEMMA ControlStep ==
  ASSUME ControlOK, [Next]_vars
  PROVE  ControlOK'
<1> USE DEF ControlOK, ThreadInv, Thread, Target, PC, UiPC, NetPC, apply_target, return, set_link
<1>1. CASE UNCHANGED vars
  BY <1>1 DEF vars
<1>2. ASSUME NEW t \in Thread, apply_target_swap(t) PROVE ControlOK'
  BY <1>2 DEF apply_target_swap
<1>3. ASSUME NEW t \in Thread, apply_target_store(t) \/ apply_target_clip(t) PROVE ControlOK'
  BY <1>3 DEF apply_target_store, apply_target_clip
<1>4. ASSUME NEW t \in Thread, apply_target_post(t) \/ apply_target_send(t) PROVE ControlOK'
  BY <1>4 DEF apply_target_post, apply_target_send
<1>5. CASE set_link_check \/ request_target_mac \/ ui_force_local \/ ui_resume \/ ui_quit
  BY <1>5 DEF set_link_check, request_target_mac, force_local, ui_force_local, ui_resume,
              ui_quit, UiIdle
<1>6. CASE ui_send
  BY <1>6 DEF ui_send, UiIdle
<1>7. CASE save_settings \/ save_settings_suppress \/ save_settings_config \/ ui_handle_post
  BY <1>7 DEF save_settings, save_settings_suppress, save_settings_config, ui_handle_post, UiIdle
<1>8. CASE net_connect \/ net_authenticating \/ start_session \/ connect_failed
  BY <1>8 DEF net_connect, net_authenticating, start_session, connect_failed
<1>9. CASE net_target_changed \/ net_edge_hit \/ net_bye
  BY <1>9 DEF net_target_changed, net_edge_hit, net_bye, EndsConnection, Consume, close_connection
<1>10. CASE net_link_lost \/ net_reconnect \/ net_config_changed
  BY <1>10 DEF net_link_lost, net_reconnect, net_config_changed, EndsConnection, Consume, close_connection
<1>11. CASE net_shutdown \/ net_heartbeat \/ net_recv_times_out
  <2>1. CASE net_shutdown
    BY <2>1 DEF net_shutdown
  <2>2. CASE net_heartbeat
    <3>1. CASE pc' = [pc EXCEPT !["net"] = "idle"] /\ UNCHANGED <<arg, ret>>
      BY <2>2, <3>1
    <3>2. CASE set_link("Disconnected", "idle")
      BY <2>2, <3>2
    <3> QED
      BY <2>2, <3>1, <3>2 DEF net_heartbeat, close_connection
  <2>3. CASE net_recv_times_out
    BY <2>3 DEF net_recv_times_out
  <2> QED
    BY <1>11, <2>1, <2>2, <2>3
<1>12. CASE reader_incoming \/ reader_of_closed_connection \/ backoff_elapses
  BY <1>12 DEF reader_incoming, reader_of_closed_connection, backoff_elapses
<1>13. QED
  BY StepsOfNext, <1>1, <1>2, <1>3, <1>4, <1>5, <1>6, <1>7, <1>8, <1>9, <1>10, <1>11, <1>12 DEF Steps

LEMMA PlacesStep ==
  ASSUME Places, ControlOK, banner \in BOOLEAN, [Next]_vars
  PROVE  Places' /\ banner' \in BOOLEAN
<1> USE DEF Places, Target, uiVars
<1>1. ASSUME NEW t \in Thread, apply_target_swap(t) PROVE Places' /\ banner' \in BOOLEAN
  BY <1>1 DEF apply_target_swap, ControlOK
<1>2. ASSUME NEW t \in Thread, apply_target_post(t) PROVE Places' /\ banner' \in BOOLEAN
  BY <1>2 DEF apply_target_post
<1>3. CASE ui_handle_post
  BY <1>3 DEF ui_handle_post
<1>4. UNCHANGED <<target, uiVars>> /\ link' \in Link => Places' /\ banner' \in BOOLEAN
  OBVIOUS
<1>5. ASSUME NEW t \in Thread,
             apply_target_store(t) \/ apply_target_clip(t) \/ apply_target_send(t)
      PROVE  UNCHANGED <<target, link, uiVars>>
  BY <1>5 DEF apply_target_store, apply_target_clip, apply_target_send
<1>6. CASE \/ set_link_check \/ request_target_mac \/ ui_force_local \/ ui_resume \/ ui_quit \/ ui_send
           \/ save_settings \/ save_settings_suppress \/ save_settings_config
  <2> UNCHANGED <<target, link, uiVars>>
    BY <1>6 DEF set_link_check, request_target_mac, ui_force_local, ui_resume, ui_quit, force_local,
                ui_send, save_settings, save_settings_suppress, save_settings_config
  <2> QED
    BY <1>4
<1>7. CASE net_connect \/ net_authenticating \/ start_session \/ connect_failed \/ net_shutdown
  <2>1. link' \in Link
    BY <1>7 DEF net_connect, net_authenticating, start_session, connect_failed, net_shutdown,
                set_link, Link
  <2>2. UNCHANGED <<target, uiVars>>
    BY <1>7 DEF net_connect, net_authenticating, start_session, connect_failed, net_shutdown
  <2> QED
    BY <1>4, <2>1, <2>2
<1>8. CASE \/ net_target_changed \/ net_edge_hit \/ net_bye \/ net_link_lost \/ net_reconnect
           \/ net_config_changed \/ net_heartbeat
  <2>1. link' = link \/ link' = "Disconnected"
    BY <1>8 DEF net_target_changed, net_edge_hit, net_bye, net_link_lost, net_reconnect,
                net_config_changed, net_heartbeat, EndsConnection, Consume, close_connection, set_link
  <2>2. UNCHANGED <<target, uiVars>>
    BY <1>8 DEF net_target_changed, net_edge_hit, net_bye, net_link_lost, net_reconnect,
                net_config_changed, net_heartbeat
  <2>3. link' \in Link
    BY <2>1 DEF Link
  <2> QED
    BY <1>4, <2>2, <2>3
<1>9. CASE net_recv_times_out \/ reader_incoming \/ reader_of_closed_connection \/ backoff_elapses
  <2> UNCHANGED <<target, link, uiVars>>
    BY <1>9 DEF net_recv_times_out, reader_incoming, reader_of_closed_connection, backoff_elapses
  <2> QED
    BY <1>4
<1>10. CASE UNCHANGED vars
  BY <1>4, <1>10 DEF vars
<1> QED
  BY StepsOfNext, <1>1, <1>2, <1>3, <1>4, <1>5, <1>6, <1>7, <1>8, <1>9, <1>10 DEF Steps

HistoryOK == overlapped \in BOOLEAN /\ lateSave \in BOOLEAN

LEMMA UiFlagsStep ==
  ASSUME UiFlags, HistoryOK, [Next]_vars
  PROVE  UiFlags' /\ HistoryOK'
<1> USE DEF UiFlags, HistoryOK, history
<1>1. ASSUME NEW t \in Thread, apply_target_swap(t) PROVE UiFlags' /\ HistoryOK'
  <2>1. UNCHANGED <<suppress, pref, clip, newPref>>
    BY <1>1 DEF apply_target_swap
  <2>2. CASE target = arg[t]
    BY <1>1, <2>1, <2>2 DEF apply_target_swap
  <2>3. CASE target # arg[t]
    <3>1. overlapped' = InSwitch(Other(t)) /\ lateSave' = (t = "net" /\ pc["ui"] = "savesuppress")
      BY <1>1, <2>3 DEF apply_target_swap
    <3>2. InSwitch(Other(t)) \in BOOLEAN /\ (t = "net" /\ pc["ui"] = "savesuppress") \in BOOLEAN
      BY DEF InSwitch
    <3>3. HistoryOK'
      BY <3>1, <3>2
    <3> QED
      BY <2>1, <3>3
  <2> QED
    BY <2>2, <2>3
<1>2. ASSUME NEW t \in Thread, apply_target_store(t) PROVE UiFlags' /\ HistoryOK'
  BY <1>2 DEF apply_target_store
<1>3. ASSUME NEW t \in Thread, apply_target_clip(t) PROVE UiFlags' /\ HistoryOK'
  BY <1>3 DEF apply_target_clip
<1>4. CASE save_settings
  BY <1>4 DEF save_settings
<1>5. CASE save_settings_suppress
  BY <1>5 DEF save_settings_suppress
<1>6. CASE save_settings_config
  BY <1>6 DEF save_settings_config
<1>7. UNCHANGED <<suppress, pref, clip, newPref, history>> => UiFlags' /\ HistoryOK'
  OBVIOUS
<1>8. ASSUME NEW t \in Thread, apply_target_post(t) \/ apply_target_send(t)
      PROVE  UNCHANGED <<suppress, pref, clip, newPref, history>>
  BY <1>8 DEF apply_target_post, apply_target_send
<1>9. CASE \/ set_link_check \/ request_target_mac \/ ui_force_local \/ ui_resume \/ ui_quit \/ ui_send
           \/ ui_handle_post \/ net_connect \/ net_authenticating \/ start_session \/ connect_failed
  <2> UNCHANGED <<suppress, pref, clip, newPref, history>>
    BY <1>9 DEF set_link_check, request_target_mac, ui_force_local, ui_resume, ui_quit, force_local,
                ui_send, ui_handle_post, net_connect, net_authenticating, start_session, connect_failed
  <2> QED
    BY <1>7
<1>10. CASE \/ net_target_changed \/ net_edge_hit \/ net_bye \/ net_link_lost \/ net_reconnect
            \/ net_config_changed \/ net_shutdown \/ net_recv_times_out \/ net_heartbeat
            \/ reader_incoming \/ reader_of_closed_connection \/ backoff_elapses
  <2> UNCHANGED <<suppress, pref, clip, newPref, history>>
    BY <1>10 DEF net_target_changed, net_edge_hit, net_bye, net_link_lost, net_reconnect,
                 net_config_changed, net_shutdown, net_recv_times_out, net_heartbeat,
                 reader_incoming, reader_of_closed_connection, backoff_elapses
  <2> QED
    BY <1>7
<1>11. CASE UNCHANGED vars
  BY <1>7, <1>11 DEF vars
<1> QED
  BY StepsOfNext, <1>1, <1>2, <1>3, <1>4, <1>5, <1>6, <1>7, <1>8, <1>9, <1>10, <1>11 DEF Steps

LEMMA NetFlagsStep ==
  ASSUME NetFlags, cooldown \in BOOLEAN, [Next]_vars
  PROVE  NetFlags' /\ cooldown' \in BOOLEAN
<1> USE DEF netVars
<1>1. UNCHANGED netVars => NetFlags' /\ cooldown' \in BOOLEAN
  BY DEF NetFlags
<1>2. ASSUME NEW t \in Thread, apply_target_step(t)
      PROVE  UNCHANGED netVars
  BY <1>2 DEF apply_target_step, apply_target_swap, apply_target_store, apply_target_clip,
              apply_target_post, apply_target_send
<1>3. CASE \/ set_link_check \/ request_target_mac \/ ui_force_local \/ ui_resume \/ ui_quit \/ ui_send
           \/ save_settings \/ save_settings_suppress \/ save_settings_config \/ ui_handle_post
           \/ net_authenticating \/ reader_incoming
  <2> UNCHANGED netVars
    BY <1>3 DEF set_link_check, request_target_mac, ui_force_local, ui_resume, ui_quit, force_local,
                ui_send, save_settings, save_settings_suppress, save_settings_config, ui_handle_post,
                net_authenticating, reader_incoming
  <2> QED
    BY <1>1
<1>4. CASE net_connect \/ connect_failed \/ net_recv_times_out \/ reader_of_closed_connection
           \/ backoff_elapses \/ start_session
  BY <1>4 DEF NetFlags, net_connect, connect_failed, net_recv_times_out,
              reader_of_closed_connection, backoff_elapses, start_session
<1>5. conn' \in BOOLEAN /\ oldReader' \in BOOLEAN /\ told' \in BOOLEAN /\ manual' = manual
        => NetFlags'
  BY DEF NetFlags
<1>6. \A q, n : close_connection(q, n) => conn' = FALSE /\ told' = FALSE /\ oldReader' = TRUE
  BY DEF close_connection
<1>7. Consume => conn' = conn /\ oldReader' = oldReader
  BY DEF Consume
<1>8. CASE net_target_changed
  <2>1. manual' = manual /\ cooldown' = cooldown
    BY <1>8 DEF net_target_changed
  <2>2. CASE close_connection(Tail(chan), "beat")
    BY <1>5, <1>6, <2>1, <2>2
  <2>3. CASE Consume /\ told' = IF conn THEN Head(chan).type = "ToMac" ELSE told
    <3>1. told' \in BOOLEAN
      BY <2>3 DEF NetFlags
    <3> QED
      BY <1>5, <1>7, <2>1, <2>3, <3>1 DEF NetFlags
  <2> QED
    BY <1>8, <2>2, <2>3 DEF net_target_changed
<1>9. EndsConnection => conn' \in BOOLEAN /\ oldReader' \in BOOLEAN /\ told' \in BOOLEAN
  BY <1>6, <1>7 DEF EndsConnection, NetFlags
<1>10. CASE net_edge_hit
  <2> UNCHANGED netVars
    BY <1>10, <1>7 DEF net_edge_hit
  <2> QED
    BY <1>1
<1>11. CASE net_bye \/ net_link_lost
  BY <1>5, <1>6, <1>7, <1>9, <1>11 DEF net_bye, net_link_lost, NetFlags
<1>12. CASE net_reconnect
  BY <1>9, <1>12 DEF net_reconnect, NetFlags
<1>13. CASE net_config_changed
  BY <1>5, <1>7, <1>9, <1>13 DEF net_config_changed, NetFlags
<1>14. CASE net_shutdown
  BY <1>14 DEF net_shutdown, NetFlags
<1>15. CASE net_heartbeat
  BY <1>5, <1>6, <1>15 DEF net_heartbeat, NetFlags
<1>16. CASE UNCHANGED vars
  BY <1>1, <1>16 DEF vars
<1> QED
  BY StepsOfNext, <1>1, <1>2, <1>3, <1>4, <1>8, <1>10, <1>11, <1>12, <1>13, <1>14, <1>15, <1>16
     DEF Steps, apply_target_step

LEMMA DataStep ==
  ASSUME DataOK, ControlOK, [Next]_vars
  PROVE  DataOK'
BY PlacesStep, UiFlagsStep, NetFlagsStep DEF DataOK, HistoryOK

LEMMA TypeStep ==
  ASSUME TypeOK, ThreadInv, [Next]_vars
  PROVE  TypeOK' /\ ThreadInv'
<1>1. DataOK /\ ControlOK
  BY DEF TypeOK, DataOK, Places, UiFlags, NetFlags, ControlOK
<1>2. DataOK' /\ ControlOK' /\ chan' \in Seq(Msg)
  BY <1>1, DataStep, ControlStep, ChanStep
<1>3. QED
  BY <1>2 DEF TypeOK, DataOK, Places, UiFlags, NetFlags, ControlOK

(* Every variable of the sender keeps its type.                            *)
THEOREM TypeCorrect == Spec => [](TypeOK /\ ThreadInv)
<1>1. Init => TypeOK /\ ThreadInv
  BY TypeInit
<1>2. TypeOK /\ ThreadInv /\ [Next]_vars => TypeOK' /\ ThreadInv'
  BY TypeStep
<1>3. QED
  BY <1>1, <1>2, PTL DEF Spec

-----------------------------------------------------------------------------
(* Switches.                                                               *)

SwitchInv == FlightInv /\ DesktopInv /\ (~lateSave => SuppressInv)

Busy == {"store", "clip", "post", "send", "savesuppress", "savepref"}

(* A step that neither is part of a switch nor touches what a switch does. *)
Quiet ==
  /\ UNCHANGED <<target, suppress, pref, clip, banner, uiq, newPref, history>>
  /\ \A t \in Thread : \/ pc'[t] = pc[t] /\ arg'[t] = arg[t]
                       \/ pc[t] \notin Busy /\ pc'[t] \notin Busy

LEMMA QuietStep ==
  ASSUME SwitchInv, Quiet
  PROVE  SwitchInv'
<1> USE DEF Quiet, Busy, InSwitch, Thread, history
<1>1. FlightInv'
  BY DEF SwitchInv, FlightInv
<1>2. NoSwitch' = NoSwitch /\ (pc'["ui"] = "savepref") = (pc["ui"] = "savepref")
  BY DEF NoSwitch
<1>3. ~lateSave' => SuppressInv'
  BY <1>2 DEF SwitchInv, SuppressInv
<1>4. Shown' = Shown
  BY DEF Shown
<1>5. DesktopInv'
  BY <1>2, <1>4 DEF SwitchInv, DesktopInv
<1>6. QED
  BY <1>1, <1>3, <1>5 DEF SwitchInv

LEMMA QuietActions ==
  ASSUME TypeOK, ThreadInv
  PROVE  /\ set_link_check \/ request_target_mac \/ ui_force_local \/ ui_resume \/ ui_quit
              \/ ui_send => Quiet
         /\ net_connect \/ net_authenticating \/ start_session \/ connect_failed => Quiet
         /\ net_target_changed \/ net_edge_hit \/ net_bye \/ net_link_lost => Quiet
         /\ net_reconnect \/ net_config_changed \/ net_shutdown \/ net_recv_times_out
              \/ net_heartbeat => Quiet
         /\ reader_incoming \/ reader_of_closed_connection \/ backoff_elapses => Quiet
<1> USE DEF TypeOK, ThreadInv, Quiet, Busy, Thread, PC, UiPC, NetPC, uiVars, history, apply_target, return, set_link
<1>1. set_link_check \/ request_target_mac \/ ui_force_local \/ ui_resume \/ ui_quit => Quiet
  BY DEF set_link_check, request_target_mac, ui_force_local, ui_resume, ui_quit, force_local, UiIdle
<1>2. ui_send => Quiet
  BY DEF ui_send, UiIdle
<1>3. net_connect \/ net_authenticating \/ start_session \/ connect_failed => Quiet
  BY DEF net_connect, net_authenticating, start_session, connect_failed
<1>4. net_target_changed \/ net_edge_hit => Quiet
  BY DEF net_target_changed, net_edge_hit, Receives, AtReceive, Consume, close_connection
<1>5. net_bye \/ net_link_lost => Quiet
  BY DEF net_bye, net_link_lost, Receives, AtReceive, EndsConnection, Consume, close_connection
<1>6. net_reconnect \/ net_config_changed => Quiet
  BY DEF net_reconnect, net_config_changed, Receives, AtReceive, EndsConnection, Consume, close_connection
<1>7. net_shutdown \/ net_recv_times_out \/ net_heartbeat => Quiet
  BY DEF net_shutdown, net_recv_times_out, net_heartbeat, Receives, AtReceive, close_connection
<1>8. reader_incoming \/ reader_of_closed_connection \/ backoff_elapses => Quiet
  BY DEF reader_incoming, reader_of_closed_connection, backoff_elapses
<1>9. QED
  BY <1>1, <1>2, <1>3, <1>4, <1>5, <1>6, <1>7, <1>8

LEMMA HistoryStep ==
  ASSUME TypeOK, ThreadInv, [Next]_vars
  PROVE  UNCHANGED history \/ \E t \in Thread : apply_target_swap(t) /\ target # arg[t]
<1>1. UNCHANGED history \/ \E t \in Thread : apply_target_swap(t)
  BY StepsOfNext, QuietActions DEF Steps, vars, history, Quiet, apply_target_store, apply_target_clip,
     apply_target_post, apply_target_send, save_settings, save_settings_suppress,
     save_settings_config, ui_handle_post
<1>2. ASSUME NEW t \in Thread, apply_target_swap(t), target = arg[t] PROVE UNCHANGED history
  BY <1>2 DEF apply_target_swap
<1>3. QED
  BY <1>1, <1>2

(* A switch that begins alone owes nothing to what was there before it.    *)
LEMMA SwapStep ==
  ASSUME TypeOK, ThreadInv, NEW t \in Thread, apply_target_swap(t), target # arg[t], ~overlapped'
  PROVE  SwitchInv' /\ InSwitch(t)'
<1> USE DEF TypeOK, ThreadInv, SwitchInv, Thread, Target, PC, InSwitch, apply_target_swap, return, uiVars
<1>1. /\ ~InSwitch(Other(t)) /\ pc[t] = "swap"
      /\ pc' = [pc EXCEPT ![t] = "store"] /\ target' = arg[t] /\ arg' = arg
      /\ UNCHANGED <<suppress, pref, clip, banner, uiq, newPref>>
  OBVIOUS
<1>2. ~lateSave' /\ t = "net" => pc["ui"] # "savesuppress"
  OBVIOUS
<1>3. FlightInv'
  BY <1>1 DEF FlightInv, Other
<1>4. InSwitch(t)'
  BY <1>1
<1>5. ~lateSave' => SuppressInv'
  BY <1>1, <1>2, <1>4 DEF SuppressInv, NoSwitch, Other
<1>6. DesktopInv'
  BY <1>1, <1>4 DEF DesktopInv, NoSwitch, Other, Shown
<1>7. QED
  BY <1>3, <1>4, <1>5, <1>6

LEMMA SwapNothing ==
  ASSUME TypeOK, ThreadInv, NEW t \in Thread, apply_target_swap(t), target = arg[t]
  PROVE  Quiet
  BY DEF TypeOK, ThreadInv, Thread, Target, PC, apply_target_swap, return, uiVars, Quiet, Busy, history

LEMMA StoreStep ==
  ASSUME TypeOK, ThreadInv, SwitchInv, NEW t \in Thread, apply_target_store(t)
  PROVE  SwitchInv'
<1> USE DEF TypeOK, ThreadInv, SwitchInv, Thread, Target, PC, InSwitch, apply_target_store, uiVars, history
<1>1. /\ pc[t] = "store" /\ pc' = [pc EXCEPT ![t] = "clip"] /\ (suppress' <=> (arg[t] = "Mac" /\ pref))
      /\ UNCHANGED <<target, pref, clip, banner, uiq, arg, newPref, lateSave>>
  OBVIOUS
<1>2. FlightInv'
  BY <1>1 DEF FlightInv
<1>3. InSwitch(t)' /\ InSwitch(t)
  BY <1>1
<1>4. ~lateSave' => SuppressInv'
  BY <1>1, <1>2, <1>3 DEF SuppressInv, FlightInv, NoSwitch
<1>5. DesktopInv'
  BY <1>1, <1>3 DEF DesktopInv, NoSwitch, Shown
<1>6. QED
  BY <1>2, <1>4, <1>5

LEMMA ClipStep ==
  ASSUME TypeOK, ThreadInv, SwitchInv, NEW t \in Thread, apply_target_clip(t)
  PROVE  SwitchInv'
<1> USE DEF TypeOK, ThreadInv, SwitchInv, Thread, Target, PC, InSwitch, apply_target_clip, uiVars, history
<1>1. /\ pc[t] = "clip" /\ pc' = [pc EXCEPT ![t] = "post"] /\ (clip' <=> (arg[t] = "Mac" /\ suppress))
      /\ UNCHANGED <<target, pref, suppress, banner, uiq, arg, newPref, lateSave>>
  OBVIOUS
<1>2. FlightInv'
  BY <1>1 DEF FlightInv
<1>3. InSwitch(t)' /\ InSwitch(t)
  BY <1>1
<1>4. ~lateSave' => SuppressInv'
  BY <1>1, <1>2, <1>3 DEF SuppressInv, FlightInv, NoSwitch
<1>5. DesktopInv'
  BY <1>1, <1>3 DEF DesktopInv, NoSwitch, Shown
<1>6. QED
  BY <1>2, <1>4, <1>5

LEMMA ShownAfterPost ==
  ASSUME uiq \in Seq(BOOLEAN), uiq' = Append(uiq, FALSE)
  PROVE  Shown'
<1>1. Len(uiq') = Len(uiq) + 1 /\ uiq'[Len(uiq) + 1] = FALSE /\ Len(uiq) \in Nat
  OBVIOUS
<1>2. Len(uiq') # 0 /\ uiq'[Len(uiq')] = FALSE
  BY <1>1
<1>3. QED
  BY <1>2 DEF Shown

LEMMA PostStep ==
  ASSUME TypeOK, ThreadInv, SwitchInv, NEW t \in Thread, apply_target_post(t)
  PROVE  SwitchInv'
<1> USE DEF TypeOK, ThreadInv, SwitchInv, Thread, Target, PC, InSwitch, apply_target_post, history
<1>1. /\ pc[t] = "post" /\ pc' = [pc EXCEPT ![t] = "send"]
      /\ uiq' = Append(uiq, arg[t] = "Mac" /\ pref)
      /\ UNCHANGED <<target, pref, suppress, clip, banner, arg, newPref, lateSave>>
  OBVIOUS
<1>2. FlightInv'
  BY <1>1 DEF FlightInv
<1>3. InSwitch(t)' /\ InSwitch(t)
  BY <1>1
<1>4. ~lateSave' => SuppressInv'
  BY <1>1, <1>2, <1>3 DEF SuppressInv, FlightInv, NoSwitch
<1>5. arg[t] = "Local" => Shown'
  <2>1. arg[t] = "Local" => uiq' = Append(uiq, FALSE)
    BY <1>1
  <2>2. QED
    BY <2>1, ShownAfterPost
<1>6. \A u \in Thread : pc'[u] = "send" => u = t
  BY <1>1, <1>3 DEF FlightInv
<1>7. DesktopInv'
  BY <1>1, <1>3, <1>5, <1>6 DEF DesktopInv, NoSwitch
<1>8. QED
  BY <1>2, <1>4, <1>7

LEMMA SendStep ==
  ASSUME TypeOK, ThreadInv, SwitchInv, NEW t \in Thread, apply_target_send(t)
  PROVE  SwitchInv'
<1> USE DEF TypeOK, ThreadInv, SwitchInv, Thread, Target, PC, InSwitch, apply_target_send, return, uiVars, history
<1>1. /\ pc[t] = "send" /\ pc' = [pc EXCEPT ![t] = ret[t]]
      /\ UNCHANGED <<target, pref, suppress, clip, banner, uiq, newPref, lateSave>>
      /\ arg' = [arg EXCEPT ![t] = "Local"]
      /\ ret[t] \notin Busy
  BY DEF Busy
<1>2. FlightInv'
  BY <1>1 DEF FlightInv, Busy
<1>3. /\ target = arg[t] /\ (arg[t] = "Local" => ~clip)
      /\ ~lateSave => (suppress <=> (arg[t] = "Mac" /\ pref))
  BY <1>1 DEF FlightInv, SuppressInv
<1>4. pc'["ui"] # "savepref" \/ t = "net"
  BY <1>1 DEF Busy
<1>5. ~lateSave' => SuppressInv'
  BY <1>1, <1>2, <1>3, <1>4 DEF SuppressInv, NoSwitch
<1>6. arg[t] = "Local" => Shown
  BY <1>1 DEF DesktopInv
<1>7. \A u \in Thread : pc'[u] # "send"
  BY <1>1 DEF FlightInv, Busy
<1>8. DesktopInv'
  BY <1>1, <1>3, <1>6, <1>7 DEF DesktopInv, NoSwitch, Shown
<1>9. QED
  BY <1>2, <1>5, <1>8

LEMMA SaveStep ==
  ASSUME TypeOK, ThreadInv, SwitchInv,
         save_settings \/ save_settings_suppress \/ save_settings_config
  PROVE  SwitchInv'
<1> USE DEF TypeOK, ThreadInv, SwitchInv, Thread, Target, PC, InSwitch, uiVars, history
<1>1. UNCHANGED <<target, clip, banner, uiq, arg, history>> /\ pc' = [pc EXCEPT !["ui"] = pc'["ui"]]
  BY DEF save_settings, save_settings_suppress, save_settings_config
<1>2. ~InSwitch("ui") /\ ~InSwitch("ui")' /\ pc'["net"] = pc["net"]
  BY DEF save_settings, save_settings_suppress, save_settings_config, UiIdle
<1>3. DesktopInv'
  BY <1>1, <1>2 DEF DesktopInv, NoSwitch, Shown
<1>4. CASE save_settings
  <2>1. /\ UNCHANGED <<suppress, pref>> /\ pc["ui"] = "idle"
        /\ pc'["ui"] = IF target = "Mac" THEN "savesuppress" ELSE "savepref"
    BY <1>4 DEF save_settings, UiIdle
  <2>2. target = "Mac" => ~InSwitch("net")
    BY DEF FlightInv
  <2>3. FlightInv'
    BY <1>1, <1>2, <2>1, <2>2 DEF FlightInv
  <2>4. ~lateSave' => SuppressInv'
    BY <1>1, <1>2, <2>1, <2>2 DEF SuppressInv, NoSwitch
  <2>5. QED
    BY <1>3, <2>3, <2>4
<1>5. CASE save_settings_suppress
  <2>1. /\ pc["ui"] = "savesuppress" /\ pc'["ui"] = "savepref" /\ suppress' = newPref
        /\ UNCHANGED <<pref, newPref>>
        /\ ~lateSave => target = "Mac" /\ ~InSwitch("net")
    BY <1>5 DEF save_settings_suppress, SuppressInv
  <2>2. FlightInv'
    BY <1>1, <1>2, <2>1 DEF FlightInv
  <2>3. ~lateSave' => SuppressInv'
    BY <1>1, <1>2, <2>1 DEF SuppressInv, NoSwitch
  <2>4. QED
    BY <1>3, <2>2, <2>3
<1>6. CASE save_settings_config
  <2>1. /\ pc["ui"] = "savepref" /\ pc'["ui"] = "idle" /\ pref' = newPref /\ suppress' = suppress
    BY <1>6 DEF save_settings_config
  <2>2. FlightInv'
    BY <1>1, <1>2, <2>1 DEF FlightInv
  <2>3. ~lateSave' => SuppressInv'
    BY <1>1, <1>2, <2>1 DEF SuppressInv, NoSwitch
  <2>4. QED
    BY <1>3, <2>2, <2>3
<1>7. QED
  BY <1>4, <1>5, <1>6

LEMMA HandlePostStep ==
  ASSUME TypeOK, ThreadInv, SwitchInv, ui_handle_post
  PROVE  SwitchInv'
<1> USE DEF ui_handle_post, history
<1>1. /\ UNCHANGED <<target, suppress, pref, clip, pc, arg, newPref, lateSave>>
      /\ uiq \in Seq(BOOLEAN) /\ uiq # <<>> /\ uiq' = Tail(uiq) /\ banner' = Head(uiq)
  BY DEF TypeOK
<1>2. FlightInv' /\ (~lateSave' => SuppressInv')
  BY <1>1 DEF SwitchInv, FlightInv, SuppressInv, NoSwitch, InSwitch
<1>3. Shown => Shown'
  <2>1. CASE Len(uiq) = 1
    <3>1. Len(uiq') = 0 /\ Head(uiq) = uiq[Len(uiq)] /\ Len(uiq) # 0
      BY <1>1, <2>1
    <3>2. QED
      BY <1>1, <3>1 DEF Shown
  <2>2. CASE Len(uiq) # 1
    <3>1. Len(Tail(uiq)) = Len(uiq) - 1 /\ Len(uiq) \in Nat \ {0, 1}
      BY <1>1, <2>2
    <3>2. \A i \in 1..Len(Tail(uiq)) : Tail(uiq)[i] = uiq[i + 1]
      BY <1>1
    <3>3. Tail(uiq)[Len(uiq) - 1] = uiq[Len(uiq) - 1 + 1]
      BY <3>1, <3>2
    <3>4. Len(uiq') # 0 /\ uiq'[Len(uiq')] = uiq[Len(uiq)]
      BY <1>1, <3>1, <3>3
    <3>5. QED
      BY <1>1, <3>1, <3>4 DEF Shown
  <2>3. QED
    BY <2>1, <2>2
<1>4. DesktopInv'
  BY <1>1, <1>3 DEF SwitchInv, DesktopInv, NoSwitch, InSwitch
<1>5. QED
  BY <1>2, <1>4 DEF SwitchInv

LEMMA SwitchStep ==
  ASSUME TypeOK, ThreadInv, ~overlapped => SwitchInv, [Next]_vars, ~overlapped'
  PROVE  SwitchInv'
<1>1. CASE \E t \in Thread : apply_target_swap(t) /\ target # arg[t]
  BY <1>1, SwapStep
<1>2. CASE ~\E t \in Thread : apply_target_swap(t) /\ target # arg[t]
  <2>1. SwitchInv
    BY <1>2, HistoryStep DEF history
  <2>2. CASE UNCHANGED vars
    <3>1. Quiet
      BY <2>2 DEF Quiet, vars, history
    <3>2. QED
      BY <2>1, <3>1, QuietStep
  <2>3. CASE \E t \in Thread : \/ apply_target_store(t) \/ apply_target_clip(t)
                              \/ apply_target_post(t) \/ apply_target_send(t)
    BY <2>1, <2>3, StoreStep, ClipStep, PostStep, SendStep
  <2>4. CASE save_settings \/ save_settings_suppress \/ save_settings_config
    BY <2>1, <2>4, SaveStep
  <2>5. CASE ui_handle_post
    BY <2>1, <2>5, HandlePostStep
  <2>6. CASE Quiet
    BY <2>1, <2>6, QuietStep
  <2>7. CASE \E t \in Thread : apply_target_swap(t)
    BY <1>2, <2>6, <2>7, SwapNothing
  <2>8. QED
    BY StepsOfNext, QuietActions, <2>2, <2>3, <2>4, <2>5, <2>6, <2>7 DEF Steps
<1>3. QED
  BY <1>1, <1>2

-----------------------------------------------------------------------------
(* What the receiver has been told.                                        *)

(* A step between switches that may take a message or end the session.     *)
SameTarget == target' = target /\ NoSwitch' = NoSwitch

(* The channel only gained messages that are no target change, or went     *)
(* stale; the session, and where the network thread connects, stay.        *)
LEMMA ToldKept ==
  ASSUME TypeOK, ToldInv, SameTarget, conn' = conn, told' = told,
         pc'["net"] \in {"auth", "shake"} => pc["net"] \in {"auth", "shake"} \/ target = "Local",
         \/ chan' = chan
         \/ \E m \in Msg : ~IsChange(m) /\ chan' = Append(chan, m)
  PROVE  ToldInv'
<1>1. chan \in Seq(Msg) /\ target \in Target
  BY DEF TypeOK
<1>2. /\ NoChange(chan) => NoChange(chan')
      /\ LastChange(chan, target) => LastChange(chan', target)
  <2>1. CASE chan' = chan
    BY <2>1
  <2>2. ASSUME NEW m \in Msg, ~IsChange(m), chan' = Append(chan, m)
        PROVE  /\ NoChange(chan) => NoChange(Append(chan, m))
               /\ LastChange(chan, target) => LastChange(Append(chan, m), target)
    BY <1>1, <2>2, LastOfAppend
  <2> QED
    BY <2>1, <2>2
<1>3. QED
  BY <1>2 DEF ToldInv, SameTarget

(* A session ends, or none was there: what is in the channel still counts. *)
LEMMA ToldClosed ==
  ASSUME TypeOK, ToldInv, SameTarget, ~conn', pc'["net"] \notin {"auth", "shake"},
         NEW q \in Seq(Msg), chan' \in {q, AllStale(q)},
         q = chan \/ (chan # <<>> /\ q = Tail(chan))
  PROVE  ToldInv'
<1>1. chan \in Seq(Msg) /\ target \in Target
  BY DEF TypeOK
<1>2. NoChange(q) => NoChange(chan')
  BY LastOfStale
<1>3. LastChange(q, target) => LastChange(chan', target)
  BY <1>1, LastOfStale
<1>4. NoChange(chan) => NoChange(q)
  BY <1>1, LastOfTail
<1>5. LastChange(chan, target) => LastChange(q, target) \/ NoChange(q)
  BY <1>1, LastOfTail
<1>6. NoSwitch => LastChange(chan', target) \/ NoChange(chan')
  BY <1>2, <1>3, <1>4, <1>5 DEF ToldInv
<1>7. QED
  BY <1>6 DEF ToldInv, SameTarget

(* A message that is no target change is taken and the session stays.      *)
LEMMA ToldConsume ==
  ASSUME TypeOK, ToldInv, SameTarget, conn' = conn, told' = told,
         pc'["net"] \notin {"auth", "shake"},
         chan # <<>>, ~IsChange(Head(chan)), chan' = Tail(chan)
  PROVE  ToldInv'
<1>1. chan \in Seq(Msg) /\ target \in Target
  BY DEF TypeOK
<1>2. NoChange(chan) => NoChange(chan')
  BY <1>1, LastOfTail
<1>3. Head(chan).type # TargetChanged(target)
  BY DEF IsChange, TargetChanged
<1>4. LastChange(chan, target) => LastChange(chan', target')
  BY <1>1, <1>3, LastOfTail DEF SameTarget
<1>5. QED
  BY <1>2, <1>4 DEF ToldInv, SameTarget

(* The steps of a switch: the last of them queues the target change.       *)
LEMMA ToldSwitchStep ==
  ASSUME TypeOK, ThreadInv, FlightInv, ToldInv, NEW t \in Thread,
         \/ apply_target_swap(t) \/ apply_target_store(t) \/ apply_target_clip(t)
         \/ apply_target_post(t) \/ apply_target_send(t)
  PROVE  ToldInv'
<1> USE DEF Thread, InSwitch
<1>0. pc \in [Thread -> PC] /\ ret \in [Thread -> PC] /\ chan \in Seq(Msg) /\ target \in Target
  BY DEF TypeOK
<1>1. CASE pc'[t] \in {"store", "clip", "post", "send"}
  BY <1>1 DEF ToldInv, NoSwitch
<1>2. CASE apply_target_swap(t) /\ target = arg[t]
  <2>1. /\ UNCHANGED <<target, chan, conn, told>> /\ pc' = [pc EXCEPT ![t] = ret[t]] /\ pc[t] = "swap"
        /\ ~InSwitch(t)'
    BY <1>2, <1>0 DEF apply_target_swap, return, netVars, ThreadInv
  <2>2. NoSwitch' = NoSwitch
    BY <1>0, <2>1 DEF NoSwitch
  <2>3. pc'["net"] \in {"auth", "shake"} => pc["net"] \in {"auth", "shake"} \/ target = "Local"
    BY <1>0, <1>2, <2>1 DEF ThreadInv
  <2>4. QED
    BY <2>1, <2>2, <2>3, ToldKept DEF SameTarget
<1>3. CASE apply_target_send(t)
  <2>1. chan' = Append(chan, Fresh(TargetChanged(arg[t]))) /\ target' = target /\ target = arg[t]
    BY <1>3 DEF apply_target_send, Send, FlightInv
  <2>2. Fresh(TargetChanged(target)) \in Msg /\ Fresh(TargetChanged(target)).type = TargetChanged(target)
    BY <1>0 DEF Fresh, Msg, MsgType, TargetChanged
  <2>3. LastChange(chan', target')
    BY <1>0, <2>1, <2>2, LastOfAppend
  <2>4. QED
    BY <2>3 DEF ToldInv
<1>4. QED
  BY <1>0, <1>1, <1>2, <1>3
     DEF apply_target_swap, apply_target_store, apply_target_clip, apply_target_post

(* The UI thread outside of switches, readers and time.                    *)
LEMMA ToldUiStep ==
  ASSUME TypeOK, ThreadInv, ToldInv,
         \/ request_target_mac \/ ui_force_local \/ ui_resume \/ ui_quit \/ ui_send
         \/ save_settings \/ save_settings_suppress \/ save_settings_config \/ ui_handle_post
         \/ reader_incoming \/ reader_of_closed_connection \/ backoff_elapses
  PROVE  ToldInv'
<1>1. /\ UNCHANGED <<target, conn, told>> /\ pc'["net"] = pc["net"]
      /\ (~InSwitch("ui") /\ ~InSwitch("ui")') \/ pc' = pc
  <2> USE DEF TypeOK, Thread, InSwitch, netVars, apply_target, UiIdle
  <2>1. CASE request_target_mac \/ ui_force_local \/ ui_resume \/ ui_quit \/ ui_send
    BY <2>1 DEF request_target_mac, ui_force_local, ui_resume, ui_quit, force_local, ui_send
  <2>2. CASE save_settings \/ save_settings_suppress \/ save_settings_config \/ ui_handle_post
    BY <2>2 DEF save_settings, save_settings_suppress, save_settings_config, ui_handle_post
  <2>3. CASE reader_incoming \/ reader_of_closed_connection \/ backoff_elapses
    BY <2>3 DEF reader_incoming, reader_of_closed_connection, backoff_elapses
  <2>4. QED
    BY <2>1, <2>2, <2>3
<1>2. SameTarget
  BY <1>1 DEF SameTarget, NoSwitch, InSwitch
<1>3. chan' = chan \/ \E m \in Msg : ~IsChange(m) /\ chan' = Append(chan, m)
  <2>1. ASSUME NEW type \in MsgType \ {"ToMac", "ToLocal"}
        PROVE  /\ Fresh(type) \in Msg /\ ~IsChange(Fresh(type))
               /\ Send(type) => \E m \in Msg : ~IsChange(m) /\ chan' = Append(chan, m)
    BY DEF Fresh, Msg, IsChange, Send
  <2>2. CASE ui_send \/ save_settings_config
    BY <2>1, <2>2 DEF ui_send, save_settings_config, MsgType
  <2>3. CASE reader_incoming
    BY <2>1, <2>3 DEF reader_incoming, MsgType
  <2>4. CASE reader_of_closed_connection
    <3>1. [type |-> "LinkLost", live |-> FALSE] \in Msg /\ ~IsChange([type |-> "LinkLost", live |-> FALSE])
      BY DEF Msg, MsgType, IsChange
    <3>2. QED
      BY <2>4, <3>1 DEF reader_of_closed_connection
  <2>5. QED
    BY <2>2, <2>3, <2>4
       DEF request_target_mac, ui_force_local, ui_resume, ui_quit, force_local, save_settings,
           save_settings_suppress, ui_handle_post, backoff_elapses
<1>4. QED
  BY <1>1, <1>2, <1>3, ToldKept

NetSteps ==
  \/ set_link_check \/ net_connect \/ net_authenticating \/ start_session \/ connect_failed
  \/ net_target_changed \/ net_edge_hit \/ net_bye \/ net_link_lost \/ net_reconnect
  \/ net_config_changed \/ net_shutdown \/ net_recv_times_out \/ net_heartbeat

(* No step of the network thread outside of switches enters one.           *)
LEMMA NetSameTarget ==
  ASSUME TypeOK, ThreadInv, NetSteps
  PROVE  SameTarget
<1>1. target' = target /\ pc'["ui"] = pc["ui"] /\ ~InSwitch("net") /\ ~InSwitch("net")'
  <2> USE DEF TypeOK, ThreadInv, Thread, InSwitch, apply_target, return, set_link
  <2>1. CASE set_link_check \/ net_connect \/ net_authenticating \/ start_session \/ connect_failed
    BY <2>1 DEF set_link_check, net_connect, net_authenticating, start_session, connect_failed
  <2>2. CASE net_target_changed \/ net_edge_hit \/ net_bye \/ net_link_lost
    BY <2>2 DEF net_target_changed, net_edge_hit, net_bye, net_link_lost, Receives, AtReceive,
                EndsConnection, Consume, close_connection
  <2>3. CASE net_reconnect \/ net_config_changed
    BY <2>3 DEF net_reconnect, net_config_changed, Receives, AtReceive, EndsConnection, Consume, close_connection
  <2>4. CASE net_shutdown \/ net_recv_times_out \/ net_heartbeat
    BY <2>4 DEF net_shutdown, net_recv_times_out, net_heartbeat, Receives, AtReceive, close_connection
  <2>5. QED
    BY <2>1, <2>2, <2>3, <2>4 DEF NetSteps
<1>2. QED
  BY <1>1 DEF SameTarget, NoSwitch, InSwitch

(* What a received message that is no target change can do to the session. *)
LEMMA ToldReceive ==
  ASSUME TypeOK, ThreadInv, ToldInv, SameTarget, chan # <<>>, ~IsChange(Head(chan)),
         pc'["net"] \notin {"auth", "shake"},
         \/ chan' = Tail(chan) /\ conn' = conn /\ told' = told
         \/ chan' = AllStale(Tail(chan)) /\ ~conn'
  PROVE  ToldInv'
<1>1. chan \in Seq(Msg) /\ Tail(chan) \in Seq(Msg)
  BY DEF TypeOK
<1>2. CASE chan' = Tail(chan) /\ conn' = conn /\ told' = told
  BY <1>2, ToldConsume
<1>3. CASE chan' = AllStale(Tail(chan)) /\ ~conn'
  BY <1>1, <1>3, ToldClosed
<1>4. QED
  BY <1>2, <1>3

LEMMA ToldNetStep ==
  ASSUME TypeOK, ThreadInv, ToldInv, NetSteps
  PROVE  ToldInv'
<1> USE DEF set_link, Thread
<1>0. /\ SameTarget /\ chan \in Seq(Msg) /\ target \in Target
      /\ pc \in [Thread -> PC] /\ ret \in [Thread -> PC]
  BY NetSameTarget DEF TypeOK
<1>1. CASE set_link_check
  <2>1. UNCHANGED <<chan, conn, told>>
    BY <1>1 DEF set_link_check, netVars
  <2>2. pc'["net"] \in {"auth", "shake"} => target = "Local"
    BY <1>0, <1>1 DEF set_link_check, apply_target, return, Target
  <2>3. QED
    BY <1>0, <2>1, <2>2, ToldKept
<1>2. CASE net_connect \/ net_authenticating \/ connect_failed \/ net_recv_times_out
  <2>1. UNCHANGED <<chan, conn, told>>
    BY <1>2 DEF net_connect, net_authenticating, connect_failed, net_recv_times_out, netVars
  <2>2. pc'["net"] \notin {"auth", "shake"}
    BY <1>0, <1>2 DEF net_connect, net_authenticating, connect_failed, net_recv_times_out
  <2>3. QED
    BY <1>0, <2>1, <2>2, ToldKept
<1>3. CASE start_session
  <2>1. /\ chan' = chan /\ conn' /\ ~told' /\ pc["net"] = "shake" /\ pc'["net"] = "recv"
    BY <1>0, <1>3 DEF start_session
  <2>2. QED
    BY <1>0, <2>1 DEF ToldInv, SameTarget
<1>4. CASE net_target_changed
  <2>1. /\ chan # <<>> /\ Head(chan).type \in {"ToMac", "ToLocal"}
        /\ \/ chan' = Tail(chan) /\ conn' = conn /\ told' = (IF conn THEN Head(chan).type = "ToMac" ELSE told)
           \/ chan' = AllStale(Tail(chan)) /\ ~conn'
    BY <1>4 DEF net_target_changed, Receives, Consume, close_connection
  <2>2. pc'["net"] \notin {"auth", "shake"}
    BY <1>0, <1>4 DEF net_target_changed, Consume, close_connection
  <2>3. Tail(chan) \in Seq(Msg)
    BY <1>0, <2>1
  <2>4. CASE chan' = AllStale(Tail(chan)) /\ ~conn'
    BY <1>0, <2>1, <2>2, <2>3, <2>4, ToldClosed
  <2>5. CASE chan' = Tail(chan) /\ conn' = conn /\ told' = (IF conn THEN Head(chan).type = "ToMac" ELSE told)
    <3>1. ~NoChange(chan)
      <4>1. Len(chan) \in Nat \ {0} /\ Head(chan) = chan[1]
        BY <1>0, <2>1
      <4>2. QED
        BY <2>1, <4>1 DEF NoChange, IsChange
    <3>2. NoSwitch => \/ LastChange(Tail(chan), target)
                      \/ Head(chan).type = TargetChanged(target) /\ NoChange(Tail(chan))
      BY <1>0, <2>1, <3>1, LastOfTail DEF ToldInv
    <3>3. Head(chan).type = TargetChanged(target) => (conn => (told' <=> target = "Mac"))
      BY <1>0, <2>5 DEF TargetChanged, Target
    <3>4. QED
      BY <1>0, <2>2, <2>5, <3>2, <3>3 DEF ToldInv, SameTarget
  <2>6. QED
    BY <2>1, <2>4, <2>5
<1>5. ASSUME net_edge_hit \/ net_bye \/ net_link_lost \/ net_reconnect \/ net_config_changed \/ net_shutdown
      PROVE  ToldInv'
  <2> USE DEF EndsConnection, Consume, close_connection
  <2>1. chan # <<>> /\ ~IsChange(Head(chan))
    BY <1>5 DEF net_edge_hit, net_bye, net_link_lost, net_reconnect, net_config_changed, net_shutdown,
                Receives, IsChange
  <2>2. pc'["net"] \notin {"auth", "shake"}
    BY <1>0, <1>5 DEF net_edge_hit, net_bye, net_link_lost, net_reconnect, net_config_changed, net_shutdown,
                      apply_target
  <2>3. \/ chan' = Tail(chan) /\ conn' = conn /\ told' = told
        \/ chan' = AllStale(Tail(chan)) /\ ~conn'
    BY <1>5 DEF net_edge_hit, net_bye, net_link_lost, net_reconnect, net_config_changed, net_shutdown
  <2>4. QED
    BY <1>0, <2>1, <2>2, <2>3, ToldReceive
<1>6. CASE net_heartbeat
  <2>1. pc'["net"] \notin {"auth", "shake"}
    BY <1>0, <1>6 DEF net_heartbeat, close_connection
  <2>2. CASE UNCHANGED <<chan, conn, told>>
    BY <1>0, <2>1, <2>2, ToldKept
  <2>3. CASE chan' = AllStale(chan) /\ ~conn'
    BY <1>0, <2>1, <2>3, ToldClosed
  <2>4. QED
    BY <1>6, <2>2, <2>3 DEF net_heartbeat, close_connection
<1>7. QED
  BY <1>1, <1>2, <1>3, <1>4, <1>5, <1>6 DEF NetSteps

-----------------------------------------------------------------------------
LEMMA InductiveInit == Init => IInv
<1>1. Init => TypeOK /\ ThreadInv
  BY TypeInit
<1>2. Init => FlightInv /\ SuppressInv /\ DesktopInv
  BY DEF Init, FlightInv, SuppressInv, DesktopInv, Shown, InSwitch, NoSwitch, Thread
<1>3. Init => ToldInv
  BY DEF Init, ToldInv, NoChange
<1>4. QED
  BY <1>1, <1>2, <1>3 DEF IInv

LEMMA InductiveStep == IInv /\ [Next]_vars => IInv'
<1> SUFFICES ASSUME IInv, [Next]_vars PROVE IInv'
  OBVIOUS
<1>1. TypeOK /\ ThreadInv /\ (~overlapped => SwitchInv /\ ToldInv)
  BY DEF IInv, SwitchInv
<1>2. TypeOK' /\ ThreadInv'
  BY <1>1, TypeStep
<1>3. SUFFICES ASSUME ~overlapped' PROVE SwitchInv' /\ ToldInv'
  BY <1>2 DEF IInv, SwitchInv
<1>4. SwitchInv'
  BY <1>1, <1>3, SwitchStep
<1>5. CASE \E t \in Thread : apply_target_swap(t) /\ target # arg[t]
  <2>1. PICK t \in Thread : InSwitch(t)'
    BY <1>1, <1>3, <1>5, SwapStep
  <2>2. QED
    BY <1>4, <2>1 DEF ToldInv, NoSwitch, Thread
<1> SUFFICES ASSUME ~\E t \in Thread : apply_target_swap(t) /\ target # arg[t] PROVE ToldInv'
  BY <1>4, <1>5
<1>6. FlightInv /\ ToldInv
  BY <1>1, <1>3, HistoryStep DEF SwitchInv, history
<1>7. CASE UNCHANGED vars
  <2>1. SameTarget /\ chan' = chan /\ conn' = conn /\ told' = told /\ pc'["net"] = pc["net"]
    BY <1>7 DEF vars, SameTarget, NoSwitch, InSwitch
  <2>2. QED
    BY <1>1, <1>4, <1>6, <2>1, ToldKept
<1>8. CASE Steps
  <2>1. CASE NetSteps
    BY <1>1, <1>4, <1>6, <2>1, ToldNetStep
  <2>2. CASE \E t \in Thread : \/ apply_target_swap(t) \/ apply_target_store(t) \/ apply_target_clip(t)
                              \/ apply_target_post(t) \/ apply_target_send(t)
    BY <1>1, <1>4, <1>6, <2>2, ToldSwitchStep
  <2>3. CASE \/ request_target_mac \/ ui_force_local \/ ui_resume \/ ui_quit \/ ui_send
             \/ save_settings \/ save_settings_suppress \/ save_settings_config \/ ui_handle_post
             \/ reader_incoming \/ reader_of_closed_connection \/ backoff_elapses
    BY <1>1, <1>4, <1>6, <2>3, ToldUiStep
  <2>4. QED
    BY <1>8, <2>1, <2>2, <2>3 DEF Steps, NetSteps
<1>9. QED
  BY <1>4, <1>7, <1>8, StepsOfNext

LEMMA Inductive == Spec => []IInv
  BY InductiveInit, InductiveStep, PTL DEF Spec

(* Local input is swallowed exactly while the Mac has it and the user      *)
(* asked for it, for every configuration and any length of the queues,     *)
(* when the last switch neither overlapped another (state.rs:199) nor came *)
(* between save_settings reading the target and storing suppress           *)
(* (window.rs:688-689), which leaves the keyboard swallowed although       *)
(* Windows is the target.                                                  *)
(* These excuses end with the next switch that begins alone.               *)
THEOREM SuppressionCorrect == Spec => []SuppressionFollowsTarget
<1>1. IInv => SuppressionFollowsTarget
  BY DEF IInv, SuppressInv, SuppressionFollowsTarget, Settled, NoSwitch, InSwitch
<1>2. QED
  BY <1>1, Inductive, PTL

(* Windows as the target has its pointer and desktop back, when the last   *)
(* switch did not overlap another.                                         *)
THEOREM DesktopCorrect == Spec => []DesktopGivenBack
<1>1. IInv /\ uiq = <<>> => Len(uiq) = 0
  BY DEF IInv, TypeOK
<1>2. IInv => DesktopGivenBack
  BY <1>1 DEF IInv, DesktopInv, DesktopGivenBack, Settled, NoSwitch, InSwitch, Shown
<1>3. QED
  BY <1>2, Inductive, PTL

(* Whatever sessions, stale messages and losses came before, the receiver  *)
(* of the live session agrees with the sender about who has the input,     *)
(* when the last switch did not overlap another and no change is queued.   *)
THEOREM ReceiverAgrees == Spec => []MacFollowsTarget
<1>1. IInv /\ NoTargetChange => ~LastChange(chan, target)
  <2>1. IInv => DOMAIN chan = 1..Len(chan) /\ target \in Target
    BY DEF IInv, TypeOK
  <2>2. QED
    BY <2>1 DEF NoTargetChange, LastChange, TargetChanged
<1>2. IInv => MacFollowsTarget
  BY <1>1 DEF IInv, ToldInv, MacFollowsTarget, Settled, NoSwitch, InSwitch
<1>3. QED
  BY <1>2, Inductive, PTL

-----------------------------------------------------------------------------
(* The Mac that still has the input is about to be told.                   *)

LEMMA ToldInit == Init => (told => conn)
BY DEF Init

LEMMA ToldOnlyConnected ==
  ASSUME told => conn, [Next]_vars
  PROVE  told' => conn'
<1> USE DEF netVars
<1>1. CASE UNCHANGED vars
  BY <1>1 DEF vars
<1>2. ASSUME NEW t \in Thread, apply_target_swap(t) \/ apply_target_store(t) \/ apply_target_clip(t)
                               \/ apply_target_post(t) \/ apply_target_send(t)
      PROVE  told' => conn'
  BY <1>2 DEF apply_target_swap, apply_target_store, apply_target_clip, apply_target_post, apply_target_send
<1>3. CASE set_link_check \/ request_target_mac \/ ui_force_local \/ ui_resume \/ ui_quit \/ ui_send
  BY <1>3 DEF set_link_check, request_target_mac, ui_force_local, ui_resume, ui_quit, force_local, ui_send
<1>4. CASE save_settings \/ save_settings_suppress \/ save_settings_config \/ ui_handle_post
  BY <1>4 DEF save_settings, save_settings_suppress, save_settings_config, ui_handle_post
<1>5. CASE net_connect \/ net_authenticating \/ start_session \/ connect_failed
  BY <1>5 DEF net_connect, net_authenticating, start_session, connect_failed
<1>6. CASE net_target_changed
  <2>1. CASE Consume /\ told' = IF conn THEN Head(chan).type = "ToMac" ELSE told
    <3>1. conn' = conn
      BY <2>1 DEF Consume
    <3>2. ~conn => ~told'
      BY <2>1
    <3> QED
      BY <3>1, <3>2
  <2>2. CASE close_connection(Tail(chan), "beat")
    BY <2>2 DEF close_connection
  <2> QED
    BY <1>6, <2>1, <2>2 DEF net_target_changed
<1>7. CASE net_edge_hit \/ net_bye \/ net_link_lost
  BY <1>7 DEF net_edge_hit, net_bye, net_link_lost, EndsConnection, Consume, close_connection
<1>8. CASE net_reconnect \/ net_config_changed
  BY <1>8 DEF net_reconnect, net_config_changed, EndsConnection, Consume, close_connection
<1>9. CASE net_shutdown \/ net_recv_times_out \/ net_heartbeat
  BY <1>9 DEF net_shutdown, net_recv_times_out, net_heartbeat, close_connection
<1>10. CASE reader_incoming \/ reader_of_closed_connection \/ backoff_elapses
  BY <1>10 DEF reader_incoming, reader_of_closed_connection, backoff_elapses
<1> QED
  BY StepsOfNext, <1>1, <1>2, <1>3, <1>4, <1>5, <1>6, <1>7, <1>8, <1>9, <1>10 DEF Steps

(* The session was told that the Mac is the target and Windows is, and the *)
(* last switch began alone: the last target change in the channel says so, *)
(* or the switch that will put it there is in progress.                    *)
ReleaseOnItsWay ==
  told /\ target = "Local" /\ ~overlapped =>
    LastChange(chan, "Local") \/ \E t \in Thread : InSwitch(t) /\ arg[t] = "Local"

(* When the last switch did not overlap another, the receiver is not left  *)
(* with the input: as long as it has been told that it has it and Windows  *)
(* is the target, the message that takes it back is queued with no other   *)
(* after it, or about to be (state.rs apply_target, net/mod.rs             *)
(* TargetChanged). After two switches that overlap (state.rs:199) changes  *)
(* may be queued in the other order and the theorem says nothing until the *)
(* next switch that begins alone. What is left of MacEventuallyReleased is *)
(* that the network thread runs.                                           *)
THEOREM ReleaseIsQueued == Spec => []ReleaseOnItsWay
<1>1. ASSUME IInv, told => conn, told, target = "Local", ~overlapped
      PROVE  LastChange(chan, "Local") \/ \E t \in Thread : InSwitch(t) /\ arg[t] = "Local"
  <2>1. CASE NoSwitch
    BY <1>1, <2>1 DEF IInv, ToldInv
  <2>2. CASE ~NoSwitch
    BY <1>1, <2>2 DEF IInv, FlightInv, NoSwitch, Thread
  <2> QED
    BY <2>1, <2>2
<1>2. IInv /\ (told => conn) => ReleaseOnItsWay
  BY <1>1 DEF ReleaseOnItsWay
<1> QED
  BY <1>2, ToldInit, ToldOnlyConnected, Inductive, PTL DEF Spec

-----------------------------------------------------------------------------
(* Quitting.                                                               *)

Calls == {"check", "swap", "store", "clip", "post", "send"}
Queued(q) == \E i \in 1..Len(q) : q[i].type = "Shutdown"

(* The network thread has ended, or ends when the call it is in returns.   *)
Ending == pc["net"] = "done" \/ ret["net"] = "done"

(* The network thread has taken Shutdown or has it in its channel if the   *)
(* program has quit, and not otherwise.                                    *)
EndsOnQuit == pc["ui"] = "done" <=> Queued(chan) \/ Ending

QuitInv ==
  /\ EndsOnQuit
  /\ pc["net"] \notin Calls => ret["net"] = "idle"

LEMMA QueuedOfAppend ==
  ASSUME NEW q \in Seq(Msg), NEW m \in Msg
  PROVE  Queued(Append(q, m)) <=> Queued(q) \/ m.type = "Shutdown"
<1>1. /\ Len(Append(q, m)) = Len(q) + 1 /\ Len(q) \in Nat
      /\ Append(q, m)[Len(q) + 1] = m
      /\ \A i \in 1..Len(q) : Append(q, m)[i] = q[i]
  OBVIOUS
<1>2. 1..(Len(q) + 1) = 1..Len(q) \union {Len(q) + 1}
  BY <1>1
<1> QED
  BY <1>1, <1>2 DEF Queued

LEMMA QueuedOfTail ==
  ASSUME NEW q \in Seq(Msg), q # <<>>
  PROVE  Queued(q) <=> Queued(Tail(q)) \/ Head(q).type = "Shutdown"
<1>1. /\ Len(Tail(q)) = Len(q) - 1 /\ Len(q) \in Nat \ {0} /\ Head(q) = q[1]
      /\ \A i \in 1..Len(Tail(q)) : Tail(q)[i] = q[i + 1] /\ i + 1 \in 1..Len(q)
  OBVIOUS
<1>2. \A i \in 1..Len(q) : i = 1 \/ (i - 1 \in 1..Len(Tail(q)) /\ Tail(q)[i - 1] = q[i])
  BY <1>1
<1>3. 1 \in 1..Len(q)
  BY <1>1
<1> QED
  BY <1>1, <1>2, <1>3 DEF Queued

LEMMA QueuedOfStale ==
  ASSUME NEW q \in Seq(Msg)
  PROVE  Queued(AllStale(q)) <=> Queued(q)
BY AllStaleType DEF Queued

(* A step that is not about quitting.                                      *)
LEMMA QuitKept ==
  ASSUME TypeOK, QuitInv, pc'["ui"] = "done" <=> pc["ui"] = "done", Ending' <=> Ending,
         pc'["net"] \notin Calls => ret'["net"] = "idle",
         \/ chan' \in {chan, AllStale(chan)}
         \/ \E m \in Msg : m.type # "Shutdown" /\ chan' = Append(chan, m)
         \/ chan # <<>> /\ Head(chan).type # "Shutdown" /\ chan' \in {Tail(chan), AllStale(Tail(chan))}
  PROVE  QuitInv'
<1>1. chan \in Seq(Msg)
  BY DEF TypeOK
<1>2. Queued(chan') <=> Queued(chan)
  <2>1. CASE chan' \in {chan, AllStale(chan)}
    BY <1>1, <2>1, QueuedOfStale
  <2>2. CASE \E m \in Msg : m.type # "Shutdown" /\ chan' = Append(chan, m)
    BY <1>1, <2>2, QueuedOfAppend
  <2>3. CASE chan # <<>> /\ Head(chan).type # "Shutdown" /\ chan' \in {Tail(chan), AllStale(Tail(chan))}
    <3>1. Tail(chan) \in Seq(Msg)
      BY <1>1, <2>3
    <3> QED
      BY <1>1, <2>3, <3>1, QueuedOfTail, QueuedOfStale
  <2> QED
    BY <2>1, <2>2, <2>3
<1> QED
  BY <1>2 DEF QuitInv, EndsOnQuit

LEMMA QuitSwitchStep ==
  ASSUME TypeOK, ThreadInv, QuitInv, NEW t \in Thread,
         \/ apply_target_swap(t) \/ apply_target_store(t) \/ apply_target_clip(t)
         \/ apply_target_post(t) \/ apply_target_send(t)
  PROVE  QuitInv'
<1>1. pc \in [Thread -> PC] /\ ret \in [Thread -> PC] /\ chan \in Seq(Msg)
  BY DEF TypeOK
<1>2. /\ pc'["ui"] = "done" <=> pc["ui"] = "done"
      /\ Ending' <=> Ending
      /\ pc'["net"] \notin Calls => ret'["net"] = "idle"
  <2> USE <1>1 DEF Thread, Calls, Ending, QuitInv, ThreadInv, return
  <2>1. CASE apply_target_swap(t)
    BY <2>1 DEF apply_target_swap
  <2>2. CASE apply_target_store(t) \/ apply_target_clip(t) \/ apply_target_post(t)
    BY <2>2 DEF apply_target_store, apply_target_clip, apply_target_post
  <2>3. CASE apply_target_send(t)
    BY <2>3 DEF apply_target_send
  <2> QED
    BY <2>1, <2>2, <2>3
<1>3. chan' = chan \/ \E m \in Msg : m.type # "Shutdown" /\ chan' = Append(chan, m)
  <2>1. LET m == Fresh(TargetChanged(arg[t])) IN m \in Msg /\ m.type # "Shutdown"
    BY DEF Fresh, Msg, MsgType, TargetChanged
  <2> QED
    BY <2>1 DEF apply_target_swap, apply_target_store, apply_target_clip, apply_target_post,
                apply_target_send, Send
<1> QED
  BY <1>2, <1>3, QuitKept

LEMMA QuitUiStep ==
  ASSUME TypeOK, ThreadInv, QuitInv,
         \/ request_target_mac \/ ui_force_local \/ ui_resume \/ ui_quit
         \/ save_settings \/ save_settings_suppress \/ save_settings_config \/ ui_handle_post
         \/ reader_incoming \/ reader_of_closed_connection \/ backoff_elapses
         \/ (ui_send /\ pc["ui"] # "shutdown")
  PROVE  QuitInv'
<1>1. pc \in [Thread -> PC] /\ ret \in [Thread -> PC] /\ chan \in Seq(Msg)
  BY DEF TypeOK
<1>2. /\ pc'["ui"] = "done" <=> pc["ui"] = "done"
      /\ pc'["net"] = pc["net"] /\ ret'["net"] = ret["net"]
  <2> USE <1>1 DEF Thread, UiIdle, apply_target
  <2>1. CASE request_target_mac \/ ui_force_local \/ ui_resume \/ ui_quit
    BY <2>1 DEF request_target_mac, ui_force_local, ui_resume, ui_quit, force_local
  <2>2. CASE save_settings \/ save_settings_suppress \/ save_settings_config \/ ui_handle_post
    BY <2>2 DEF save_settings, save_settings_suppress, save_settings_config, ui_handle_post
  <2>3. CASE reader_incoming \/ reader_of_closed_connection \/ backoff_elapses
    BY <2>3 DEF reader_incoming, reader_of_closed_connection, backoff_elapses
  <2>4. CASE ui_send /\ pc["ui"] # "shutdown"
    BY <2>4 DEF ui_send
  <2> QED
    BY <2>1, <2>2, <2>3, <2>4
<1>3. chan' = chan \/ \E m \in Msg : m.type # "Shutdown" /\ chan' = Append(chan, m)
  <2>1. ASSUME NEW type \in MsgType \ {"Shutdown"}
        PROVE  Send(type) => \E m \in Msg : m.type # "Shutdown" /\ chan' = Append(chan, m)
    BY DEF Fresh, Msg, Send
  <2>2. CASE (ui_send /\ pc["ui"] # "shutdown") \/ save_settings_config
    BY <2>1, <2>2 DEF ui_send, save_settings_config, MsgType
  <2>3. CASE reader_incoming
    BY <2>1, <2>3 DEF reader_incoming, MsgType
  <2>4. CASE reader_of_closed_connection
    <3>1. [type |-> "LinkLost", live |-> FALSE] \in Msg
      BY DEF Msg, MsgType
    <3> QED
      BY <2>4, <3>1 DEF reader_of_closed_connection
  <2> QED
    BY <2>2, <2>3, <2>4
       DEF request_target_mac, ui_force_local, ui_resume, ui_quit, force_local, save_settings,
           save_settings_suppress, ui_handle_post, backoff_elapses
<1> QED
  BY <1>2, <1>3, QuitKept DEF QuitInv, Ending

LEMMA QuitSends ==
  ASSUME TypeOK, QuitInv, ui_send, pc["ui"] = "shutdown"
  PROVE  QuitInv'
<1>1. pc \in [Thread -> PC] /\ chan \in Seq(Msg)
  BY DEF TypeOK
<1>2. Fresh("Shutdown") \in Msg /\ Fresh("Shutdown").type = "Shutdown"
  BY DEF Fresh, Msg, MsgType
<1>3. /\ chan' = Append(chan, Fresh("Shutdown")) /\ pc'["ui"] = "done"
      /\ pc'["net"] = pc["net"] /\ ret' = ret
  BY <1>1 DEF ui_send, UiIdle, Send, Thread
<1>4. Queued(chan')
  BY <1>1, <1>2, <1>3, QueuedOfAppend
<1> QED
  BY <1>3, <1>4 DEF QuitInv, EndsOnQuit

LEMMA QuitTaken ==
  ASSUME TypeOK, QuitInv, net_shutdown
  PROVE  QuitInv'
<1>1. pc \in [Thread -> PC] /\ ret \in [Thread -> PC] /\ chan \in Seq(Msg)
  BY DEF TypeOK
<1>2. Queued(chan)
  BY <1>1, QueuedOfTail DEF net_shutdown, Receives
<1>3. pc["ui"] = "done" /\ pc'["ui"] = "done"
  BY <1>1, <1>2 DEF QuitInv, EndsOnQuit, net_shutdown, set_link, Thread
<1>4. ret'["net"] = "done" /\ pc'["net"] = "check"
  BY <1>1 DEF net_shutdown, set_link, Thread
<1> QED
  BY <1>3, <1>4 DEF QuitInv, EndsOnQuit, Ending, Calls

LEMMA QuitNetStep ==
  ASSUME TypeOK, ThreadInv, QuitInv, NetSteps, ~net_shutdown
  PROVE  QuitInv'
<1>1. pc \in [Thread -> PC] /\ ret \in [Thread -> PC] /\ chan \in Seq(Msg)
  BY DEF TypeOK
<1>2. pc["net"] # "done" /\ (pc["net"] = "check" \/ (pc["net"] \notin Calls /\ ret["net"] = "idle"))
  BY <1>1 DEF NetSteps, set_link_check, net_connect, net_authenticating, start_session, connect_failed,
              net_target_changed, net_edge_hit, net_bye, net_link_lost, net_reconnect,
              net_config_changed, net_recv_times_out, net_heartbeat, Receives, AtReceive, QuitInv, Calls
<1>3. /\ pc'["ui"] = pc["ui"]
      /\ Ending' <=> Ending
      /\ pc'["net"] \notin Calls => ret'["net"] = "idle"
  <2> USE <1>1, <1>2 DEF Thread, Calls, Ending, set_link, apply_target, return
  <2>1. CASE set_link_check
    BY <2>1 DEF set_link_check
  <2>2. CASE net_connect \/ net_authenticating \/ start_session \/ connect_failed
    BY <2>2 DEF net_connect, net_authenticating, start_session, connect_failed
  <2>3. CASE net_target_changed \/ net_edge_hit \/ net_bye \/ net_link_lost
    BY <2>3 DEF net_target_changed, net_edge_hit, net_bye, net_link_lost, Receives, AtReceive,
                EndsConnection, Consume, close_connection
  <2>4. CASE net_reconnect \/ net_config_changed
    BY <2>4 DEF net_reconnect, net_config_changed, Receives, AtReceive, EndsConnection, Consume, close_connection
  <2>5. CASE net_recv_times_out \/ net_heartbeat
    BY <2>5 DEF net_recv_times_out, net_heartbeat, AtReceive, close_connection
  <2> QED
    BY <2>1, <2>2, <2>3, <2>4, <2>5 DEF NetSteps
<1>4. \/ chan' \in {chan, AllStale(chan)}
      \/ chan # <<>> /\ Head(chan).type # "Shutdown" /\ chan' \in {Tail(chan), AllStale(Tail(chan))}
  <2>1. CASE set_link_check \/ net_connect \/ net_authenticating \/ start_session \/ connect_failed
    BY <2>1 DEF set_link_check, net_connect, net_authenticating, start_session, connect_failed
  <2>2. CASE net_target_changed \/ net_edge_hit \/ net_bye \/ net_link_lost
    BY <2>2 DEF net_target_changed, net_edge_hit, net_bye, net_link_lost, Receives,
                EndsConnection, Consume, close_connection
  <2>3. CASE net_reconnect \/ net_config_changed
    BY <2>3 DEF net_reconnect, net_config_changed, Receives, EndsConnection, Consume, close_connection
  <2>4. CASE net_recv_times_out \/ net_heartbeat
    BY <2>4 DEF net_recv_times_out, net_heartbeat, close_connection
  <2> QED
    BY <2>1, <2>2, <2>3, <2>4 DEF NetSteps
<1> QED
  BY <1>3, <1>4, QuitKept

LEMMA QuitSteps == IInv /\ QuitInv /\ [Next]_vars => QuitInv'
<1> SUFFICES ASSUME IInv, QuitInv, [Next]_vars PROVE QuitInv'
  OBVIOUS
<1>1. TypeOK /\ ThreadInv
  BY DEF IInv
<1>2. CASE UNCHANGED vars
  BY <1>2 DEF vars, QuitInv, EndsOnQuit, Ending
<1>3. CASE \E t \in Thread : \/ apply_target_swap(t) \/ apply_target_store(t) \/ apply_target_clip(t)
                            \/ apply_target_post(t) \/ apply_target_send(t)
  BY <1>1, <1>3, QuitSwitchStep
<1>4. CASE NetSteps
  BY <1>1, <1>4, QuitNetStep, QuitTaken
<1>5. CASE \/ request_target_mac \/ ui_force_local \/ ui_resume \/ ui_quit \/ ui_send
           \/ save_settings \/ save_settings_suppress \/ save_settings_config \/ ui_handle_post
           \/ reader_incoming \/ reader_of_closed_connection \/ backoff_elapses
  BY <1>1, <1>5, QuitUiStep, QuitSends
<1> QED
  BY StepsOfNext, <1>2, <1>3, <1>4, <1>5 DEF Steps, NetSteps

(* Shutdown is never lost, whatever closes the connection or is queued     *)
(* before or after it, and nothing else ends the network thread: once the  *)
(* UI thread is done Shutdown is in the channel, or taken and about to end *)
(* the thread that main joins (main.rs, net/mod.rs Shutdown); until then   *)
(* the thread runs. What is left of QuitCompletes is that it is scheduled. *)
THEOREM ShutdownIsKept == Spec => []EndsOnQuit
<1>1. Init => QuitInv
  BY DEF Init, QuitInv, EndsOnQuit, Ending, Queued, Thread
<1>2. QuitInv => EndsOnQuit
  BY DEF QuitInv
<1> QED
  BY <1>1, <1>2, QuitSteps, Inductive, PTL DEF Spec
=============================================================================
