---------------------------- MODULE TargetSwitch ----------------------------
(***************************************************************************)
(* Who owns the keyboard and mouse on the Windows sender.                  *)
(*                                                                         *)
(* AppState (windows-sender/src/state.rs) is a set of atomics that two     *)
(* threads write without a lock: the UI thread (hotkeys, tray, settings,   *)
(* power events) and the network thread (windows-sender/src/net/mod.rs).   *)
(* Every step below is one access to shared state, so the model has the    *)
(* interleavings the program has.  The network thread also owns the        *)
(* connection and is the only reader of the NetMsg channel.                *)
(***************************************************************************)
EXTENDS Naturals, Sequences

CONSTANTS
  AutoConnect,  \* Config.auto_connect
  EdgeSwitch,   \* Config.edge_switch
  MaxBacklog    \* bound: users and readers add to a queue shorter than this

ASSUME ConstantsAssumption ==
  /\ AutoConnect \in BOOLEAN
  /\ EdgeSwitch  \in BOOLEAN
  /\ MaxBacklog  \in Nat \ {0}

VARIABLES
  target,     \* AppState.target
  link,       \* AppState.link
  suppress,   \* AppState.suppress: the hooks swallow local input
  pref,       \* AppState.suppress_preference
  clip,       \* CLIP_ACTIVE: the local pointer is pinned
  banner,     \* the "input is on the Mac" banner covers the desktop
  uiq,        \* WM_APP_INPUT_HIDDEN posts not yet handled by the UI thread
  chan,       \* NetMsg channel into the network thread
  conn,       \* conn.is_some()
  told,       \* the last TARGET_ACTIVE written to the live session
  oldReader,  \* a reader thread of a closed connection still runs
  manual,     \* manual_request, or a pairing code waiting to be tried
  cooldown,   \* now < next_attempt
  pc,         \* where each thread is
  arg,        \* apply_target's argument, per thread
  ret,        \* where a thread goes on when its call returns
  newPref,    \* save_settings: the suppress checkbox being saved
  overlapped, \* history: the last switch began while another was in progress
  lateSave    \* history: ... while save_settings was about to store suppress
              \* for the target that it replaced

uiVars  == <<banner, uiq>>
netVars == <<conn, told, oldReader, manual, cooldown>>
history == <<overlapped, lateSave>>
vars    == <<target, link, suppress, pref, clip, banner, uiq, chan, conn, told,
             oldReader, manual, cooldown, pc, arg, ret, newPref, overlapped, lateSave>>

Thread  == {"ui", "net"}
Target  == {"Local", "Mac"}
Link    == {"Disconnected", "Connecting", "Authenticating", "Connected"}
MsgType == {"ToLocal", "ToMac", "EdgeHit", "Bye", "LinkLost", "Reconnect",
            "ConfigChanged", "Shutdown"}
(* live is history: the connection in use when the message was queued, if  *)
(* any, has not been closed since.  The code has it, as the generation,    *)
(* only for messages from a reader thread.                                 *)
Msg     == [type : MsgType, live : BOOLEAN]
PC      == {"idle", "swap", "store", "clip", "post", "send", "savesuppress",
            "savepref", "reconnect", "shutdown", "check", "auth", "shake", "recv", "beat", "done"}

Other(t) == IF t = "ui" THEN "net" ELSE "ui"
TargetChanged_untagged(tgt) == tgt \* mutant: the target goes into the channel as it is
TargetChanged(tgt) == IF tgt = "Mac" THEN "ToMac" ELSE "ToLocal"
Fresh(type)   == [type |-> type, live |-> TRUE]
AllStale(q)   == [i \in DOMAIN q |-> [q[i] EXCEPT !.live = FALSE]]
Send(type)    == chan' = Append(chan, Fresh(type))
HasRoom       == Len(chan) < MaxBacklog /\ Len(uiq) < MaxBacklog

(* Between the swap and the last effect of apply_target.                   *)
InSwitch(t) == pc[t] \in {"store", "clip", "post", "send"}
Settled     == pc["ui"] \in {"idle", "done"} /\ pc["net"] \in {"idle", "recv", "beat", "done"}

-----------------------------------------------------------------------------
Init ==
  /\ target = "Local" /\ link = "Disconnected"
  /\ suppress = FALSE /\ pref \in BOOLEAN /\ clip = FALSE
  /\ banner = FALSE /\ uiq = <<>> /\ chan = <<>>
  /\ conn = FALSE /\ told = FALSE /\ oldReader = FALSE
  /\ manual = FALSE /\ cooldown = FALSE
  /\ pc  = [t \in Thread |-> "idle"]
  /\ arg = [t \in Thread |-> "Local"]
  /\ ret = [t \in Thread |-> "idle"]
  /\ newPref = FALSE /\ overlapped = FALSE /\ lateSave = FALSE

-----------------------------------------------------------------------------
(* AppState, one shared access at a time.                                  *)

(* A thread calls apply_target(tgt) and goes on at `next` afterwards.      *)
apply_target(t, tgt, next) ==
  /\ pc'  = [pc  EXCEPT ![t] = "swap"]
  /\ arg' = [arg EXCEPT ![t] = tgt]
  /\ ret' = [ret EXCEPT ![t] = next]

return(t) ==
  /\ pc'  = [pc  EXCEPT ![t] = ret[t]]
  /\ arg' = [arg EXCEPT ![t] = "Local"]
  /\ ret' = [ret EXCEPT ![t] = "idle"]

(* self.target.swap; nothing else happens when the target was that already *)
apply_target_swap(t) ==
  /\ pc[t] = "swap"
  /\ target' = arg[t]
  /\ IF target = arg[t]
     THEN return(t) /\ UNCHANGED history
     ELSE /\ pc' = [pc EXCEPT ![t] = "store"] /\ UNCHANGED <<arg, ret>>
          /\ overlapped' = InSwitch(Other(t))
          /\ lateSave' = (t = "net" /\ pc["ui"] = "savesuppress")
  /\ UNCHANGED <<link, suppress, pref, clip, uiVars, chan, netVars, newPref>>

apply_target_store(t) ==
  /\ pc[t] = "store"
  /\ suppress' = (arg[t] = "Mac" /\ pref)
  /\ pc' = [pc EXCEPT ![t] = "clip"]
  /\ UNCHANGED <<target, link, pref, clip, uiVars, chan, netVars, arg, ret, newPref, history>>

(* hooks::on_target_changed: pin the pointer, or let it go                 *)
apply_target_clip(t) ==
  /\ pc[t] = "clip"
  /\ clip' = (arg[t] = "Mac" /\ suppress)
  /\ pc' = [pc EXCEPT ![t] = "post"]
  /\ UNCHANGED <<target, link, suppress, pref, uiVars, chan, netVars, arg, ret, newPref, history>>

(* mutant: posts only when there is something to hide                      *)
apply_target_post_hidden_only(t) ==
  /\ pc[t] = "post"
  /\ uiq' = IF arg[t] = "Mac" /\ pref THEN Append(uiq, TRUE) ELSE uiq
  /\ pc' = [pc EXCEPT ![t] = "send"]
  /\ UNCHANGED <<target, link, suppress, pref, clip, banner, chan, netVars, arg, ret, newPref, history>>

(* ui::input_hidden_from_windows posts the value computed at the store     *)
apply_target_post(t) ==
  /\ pc[t] = "post"
  /\ uiq' = Append(uiq, arg[t] = "Mac" /\ pref)
  /\ pc' = [pc EXCEPT ![t] = "send"]
  /\ UNCHANGED <<target, link, suppress, pref, clip, banner, chan, netVars, arg, ret, newPref, history>>

(* mutant: the network thread hears only of switches to the Mac            *)
apply_target_send_to_mac_only(t) ==
  /\ pc[t] = "send"
  /\ IF arg[t] = "Mac" THEN Send(TargetChanged(arg[t])) ELSE UNCHANGED chan
  /\ return(t)
  /\ UNCHANGED <<target, link, suppress, pref, clip, uiVars, netVars, newPref, history>>

apply_target_send(t) ==
  /\ pc[t] = "send"
  /\ Send(TargetChanged(arg[t]))
  /\ return(t)
  /\ UNCHANGED <<target, link, suppress, pref, clip, uiVars, netVars, newPref, history>>

(* mutant: a link that is not connected leaves the target alone            *)
set_link_store_only(l, next) ==
  /\ link' = l
  /\ pc' = [pc EXCEPT !["net"] = next] /\ UNCHANGED <<arg, ret>>

(* set_link, its first half: the store.  Only the network thread calls it. *)
set_link(l, next) ==
  /\ link' = l
  /\ IF l = "Connected"
     THEN pc' = [pc EXCEPT !["net"] = next] /\ UNCHANGED <<arg, ret>>
     ELSE /\ pc'  = [pc  EXCEPT !["net"] = "check"]
          /\ ret' = [ret EXCEPT !["net"] = next]
          /\ UNCHANGED arg

(* ... and its second half: if the Mac is the target, force_local          *)
set_link_check ==
  /\ pc["net"] = "check"
  /\ IF target = "Mac"
     THEN apply_target("net", "Local", ret["net"])
     ELSE return("net")
  /\ UNCHANGED <<target, link, suppress, pref, clip, uiVars, chan, netVars, newPref, history>>

-----------------------------------------------------------------------------
(* The UI thread.                                                          *)

UiIdle == pc["ui"] = "idle"

(* hotkey, tray, command button, or the pointer pushed off the left edge   *)
request_target_mac ==
  /\ UiIdle /\ HasRoom
  /\ link = "Connected"
  /\ apply_target("ui", "Mac", "idle")
  /\ UNCHANGED <<target, link, suppress, pref, clip, uiVars, chan, netVars, newPref, history>>

(* switch-to-Windows, emergency hotkey, the tray's force-local             *)
force_local(next) ==
  /\ UiIdle /\ HasRoom
  /\ apply_target("ui", "Local", next)
  /\ UNCHANGED <<target, link, suppress, pref, clip, uiVars, chan, netVars, newPref, history>>

ui_force_local == force_local("idle")
ui_resume      == force_local("reconnect")   \* PBT_APMRESUMEAUTOMATIC
ui_quit        == force_local("shutdown")    \* main, after the message loop

(* the second statement of the resume handler and of the exit path; the    *)
(* tray's Reconnect and a pairing code reach the channel the same way      *)
ui_send ==
  \/ /\ pc["ui"] = "reconnect" /\ Send("Reconnect")
     /\ pc' = [pc EXCEPT !["ui"] = "idle"]
     /\ UNCHANGED <<target, link, suppress, pref, clip, uiVars, netVars, arg, ret, newPref, history>>
  \/ /\ pc["ui"] = "shutdown" /\ Send("Shutdown")
     /\ pc' = [pc EXCEPT !["ui"] = "done"]
     /\ UNCHANGED <<target, link, suppress, pref, clip, uiVars, netVars, arg, ret, newPref, history>>
  \/ /\ UiIdle /\ HasRoom /\ Send("Reconnect")
     /\ UNCHANGED <<target, link, suppress, pref, clip, uiVars, netVars, pc, arg, ret, newPref, history>>

(* mutant: the suppress checkbox takes effect whatever the target          *)
save_settings_unguarded ==
  /\ UiIdle /\ HasRoom
  /\ newPref' \in BOOLEAN
  /\ pc' = [pc EXCEPT !["ui"] = "savesuppress"]
  /\ UNCHANGED <<target, link, suppress, pref, clip, uiVars, chan, netVars, arg, ret, history>>

(* save_settings: read the target, store suppress, then replace the config *)
save_settings ==
  /\ UiIdle /\ HasRoom
  /\ newPref' \in BOOLEAN
  /\ pc' = [pc EXCEPT !["ui"] = IF target = "Mac" THEN "savesuppress" ELSE "savepref"]
  /\ UNCHANGED <<target, link, suppress, pref, clip, uiVars, chan, netVars, arg, ret, history>>

save_settings_suppress ==
  /\ pc["ui"] = "savesuppress"
  /\ suppress' = newPref
  /\ pc' = [pc EXCEPT !["ui"] = "savepref"]
  /\ UNCHANGED <<target, link, pref, clip, uiVars, chan, netVars, arg, ret, newPref, history>>

save_settings_config ==
  /\ pc["ui"] = "savepref"
  /\ pref' = newPref /\ newPref' = FALSE
  /\ Send("ConfigChanged")
  /\ pc' = [pc EXCEPT !["ui"] = "idle"]
  /\ UNCHANGED <<target, link, suppress, clip, uiVars, netVars, arg, ret, history>>

(* wnd_proc on WM_APP_INPUT_HIDDEN                                         *)
ui_handle_post ==
  /\ UiIdle /\ uiq # <<>>
  /\ banner' = Head(uiq)
  /\ uiq' = Tail(uiq)
  /\ UNCHANGED <<target, link, suppress, pref, clip, chan, netVars, pc, arg, ret, newPref, history>>

-----------------------------------------------------------------------------
(* The network thread.                                                     *)

Want        == AutoConnect \/ manual
MustConnect == ~conn /\ Want /\ ~cooldown

(* The connect block at the top of the loop: three calls of set_link.      *)
net_connect ==
  /\ pc["net"] = "idle" /\ MustConnect
  /\ manual' = FALSE
  /\ set_link("Connecting", "auth")
  /\ UNCHANGED <<target, suppress, pref, clip, uiVars, chan, conn, told, oldReader, cooldown, newPref, history>>

net_authenticating ==
  /\ pc["net"] = "auth"
  /\ set_link("Authenticating", "shake")
  /\ UNCHANGED <<target, suppress, pref, clip, uiVars, chan, netVars, newPref, history>>

(* control::connect succeeded; start_session sends TARGET_ACTIVE(0) first  *)
start_session ==
  /\ pc["net"] = "shake"
  /\ conn' = TRUE /\ told' = FALSE
  /\ set_link("Connected", "recv")
  /\ UNCHANGED <<target, suppress, pref, clip, uiVars, chan, oldReader, manual, cooldown, newPref, history>>

connect_failed ==
  /\ pc["net"] = "shake"
  /\ cooldown' = TRUE
  /\ set_link("Disconnected", "recv")
  /\ UNCHANGED <<target, suppress, pref, clip, uiVars, chan, conn, told, oldReader, manual, newPref, history>>

(* conn.take(), Connection::close and set_link(Disconnected); q is what is *)
(* left in the channel.  The realtime thread is joined here.               *)
close_connection(q, next) ==
  /\ conn' = FALSE /\ told' = FALSE /\ oldReader' = TRUE
  /\ chan' = AllStale(q)
  /\ set_link("Disconnected", next)

(* recv_timeout took a message that leaves the connection as it is         *)
Consume ==
  /\ chan' = Tail(chan)
  /\ pc' = [pc EXCEPT !["net"] = "beat"]
  /\ UNCHANGED <<conn, oldReader, link, arg, ret>>

(* A message whose handling ends the connection, or finds none.            *)
EndsConnection ==
  IF conn THEN close_connection(Tail(chan), "beat") ELSE (Consume /\ UNCHANGED told)

(* An iteration receives once, after its connection attempt if it made one *)
AtReceive       == pc["net"] = "recv" \/ (pc["net"] = "idle" /\ ~MustConnect)
Receives(types) == AtReceive /\ chan # <<>> /\ Head(chan).type \in types

(* NetMsg::TargetChanged: write the three messages, or fail writing them   *)
net_target_changed ==
  /\ Receives({"ToMac", "ToLocal"})
  /\ \/ Consume /\ told' = IF conn THEN Head(chan).type = "ToMac" ELSE told
     \/ conn /\ close_connection(Tail(chan), "beat")
  /\ UNCHANGED <<target, suppress, pref, clip, uiVars, manual, cooldown, newPref, history>>

(* NetMsg::Incoming: EDGE_HIT and BYE, ignored from an old generation      *)
net_edge_hit ==
  /\ Receives({"EdgeHit"})
  /\ IF Head(chan).live /\ conn /\ EdgeSwitch
     THEN /\ chan' = Tail(chan) /\ UNCHANGED <<link, conn, oldReader>>
          /\ apply_target("net", "Local", "beat")
     ELSE Consume
  /\ UNCHANGED <<target, suppress, pref, clip, uiVars, told, manual, cooldown, newPref, history>>

net_bye ==
  /\ Receives({"Bye"})
  /\ IF Head(chan).live THEN EndsConnection ELSE (Consume /\ UNCHANGED told)
  /\ UNCHANGED <<target, suppress, pref, clip, uiVars, manual, cooldown, newPref, history>>

(* NetMsg::LinkLost: unlike BYE, waits BACKOFF_MS[0] before reconnecting   *)
net_link_lost ==
  /\ Receives({"LinkLost"})
  /\ IF Head(chan).live /\ conn
     THEN close_connection(Tail(chan), "beat") /\ cooldown' = TRUE
     ELSE Consume /\ UNCHANGED <<told, cooldown>>
  /\ UNCHANGED <<target, suppress, pref, clip, uiVars, manual, newPref, history>>

(* NetMsg::Reconnect and NetMsg::Pair                                      *)
net_reconnect ==
  /\ Receives({"Reconnect"})
  /\ manual' = TRUE /\ cooldown' = FALSE
  /\ EndsConnection
  /\ UNCHANGED <<target, suppress, pref, clip, uiVars, newPref, history>>

(* NetMsg::ConfigChanged: nothing, unless a transport setting is different *)
net_config_changed ==
  /\ Receives({"ConfigChanged"})
  /\ \/ Consume /\ UNCHANGED <<told, cooldown>>
     \/ EndsConnection /\ cooldown' = FALSE
  /\ UNCHANGED <<target, suppress, pref, clip, uiVars, manual, newPref, history>>

(* mutant: the loop goes on after closing the connection                   *)
net_shutdown_without_break ==
  /\ Receives({"Shutdown"})
  /\ conn' = FALSE /\ told' = FALSE /\ oldReader' = (oldReader \/ conn)
  /\ chan' = AllStale(Tail(chan))
  /\ set_link("Disconnected", "beat")
  /\ UNCHANGED <<target, suppress, pref, clip, uiVars, manual, cooldown, newPref, history>>

net_shutdown ==
  /\ Receives({"Shutdown"})
  /\ conn' = FALSE /\ told' = FALSE /\ oldReader' = (oldReader \/ conn)
  /\ chan' = AllStale(Tail(chan))
  /\ set_link("Disconnected", "done")
  /\ UNCHANGED <<target, suppress, pref, clip, uiVars, manual, cooldown, newPref, history>>

net_recv_times_out ==
  /\ AtReceive /\ chan = <<>>
  /\ pc' = [pc EXCEPT !["net"] = "beat"]
  /\ UNCHANGED <<target, link, suppress, pref, clip, uiVars, chan, netVars, arg, ret, newPref, history>>

(* The heartbeat block ends every iteration.  It may find no PONG in time  *)
(* and wait before reconnecting, or fail to write and not wait.            *)
net_heartbeat ==
  /\ pc["net"] = "beat"
  /\ \/ /\ pc' = [pc EXCEPT !["net"] = "idle"]
        /\ UNCHANGED <<chan, conn, told, oldReader, link, arg, ret, cooldown>>
     \/ /\ conn /\ close_connection(chan, "idle")
        /\ cooldown' \in {cooldown, TRUE}
  /\ UNCHANGED <<target, suppress, pref, clip, uiVars, manual, newPref, history>>

-----------------------------------------------------------------------------
(* Reader threads, and time.                                               *)

reader_incoming ==
  /\ conn /\ HasRoom
  /\ \E type \in {"EdgeHit", "Bye", "LinkLost"} : Send(type)
  /\ UNCHANGED <<target, link, suppress, pref, clip, uiVars, netVars, pc, arg, ret, newPref, history>>

(* its socket was shut down under it: one LinkLost of an old generation    *)
reader_of_closed_connection ==
  /\ oldReader /\ HasRoom
  /\ oldReader' = FALSE
  /\ chan' = Append(chan, [type |-> "LinkLost", live |-> FALSE])
  /\ UNCHANGED <<target, link, suppress, pref, clip, uiVars, conn, told, manual, cooldown, pc, arg, ret, newPref, history>>

(* next_attempt passes.  A backoff is at least 500 ms and the network      *)
(* thread empties its channel in far less, so what was queued before the   *)
(* connection closed has been taken by then.                               *)
backoff_elapses ==
  /\ cooldown /\ \A i \in DOMAIN chan : chan[i].live
  /\ cooldown' = FALSE
  /\ UNCHANGED <<target, link, suppress, pref, clip, uiVars, chan, conn, told, oldReader, manual, pc, arg, ret, newPref, history>>

-----------------------------------------------------------------------------
apply_target_step(t) ==
  \/ apply_target_swap(t) \/ apply_target_store(t) \/ apply_target_clip(t)
  \/ apply_target_post(t) \/ apply_target_send(t)

ui_continues == \* steps the UI thread takes without waiting for the user
  \/ apply_target_step("ui") \/ save_settings_suppress \/ save_settings_config
  \/ ui_handle_post \/ (~UiIdle /\ ui_send)

ui_user ==
  \/ request_target_mac \/ ui_force_local \/ ui_resume \/ ui_quit
  \/ save_settings \/ ui_send

net_connects ==
  \/ net_connect \/ net_authenticating \/ start_session \/ connect_failed

net_receives ==
  \/ net_target_changed \/ net_edge_hit \/ net_bye \/ net_link_lost
  \/ net_reconnect \/ net_config_changed \/ net_shutdown \/ net_recv_times_out

net_runs ==
  \/ apply_target_step("net") \/ set_link_check
  \/ net_connects \/ net_receives \/ net_heartbeat

environment ==
  \/ reader_incoming \/ reader_of_closed_connection \/ backoff_elapses

Next == ui_continues \/ ui_user \/ net_runs \/ environment

Spec == Init /\ [][Next]_vars

(* Both threads are scheduled, and time passes.  Nothing is assumed of the *)
(* user, of the network or of the order of the two threads.                *)
Fairness ==
  /\ WF_vars(ui_continues)
  /\ WF_vars(net_runs)
  /\ WF_vars(backoff_elapses)

FairSpec == Spec /\ Fairness

-----------------------------------------------------------------------------
TypeOK ==
  /\ target \in Target /\ link \in Link
  /\ suppress \in BOOLEAN /\ pref \in BOOLEAN /\ clip \in BOOLEAN
  /\ banner \in BOOLEAN /\ uiq \in Seq(BOOLEAN) /\ chan \in Seq(Msg)
  /\ conn \in BOOLEAN /\ told \in BOOLEAN /\ oldReader \in BOOLEAN
  /\ manual \in BOOLEAN /\ cooldown \in BOOLEAN
  /\ pc \in [Thread -> PC] /\ arg \in [Thread -> Target] /\ ret \in [Thread -> PC]
  /\ newPref \in BOOLEAN /\ overlapped \in BOOLEAN /\ lateSave \in BOOLEAN

NoTargetChange == \A i \in DOMAIN chan : chan[i].type \notin {"ToMac", "ToLocal"}

(* overlapped is a switch that begins between two writes of the other      *)
(* thread's (state.rs:199), and lateSave a forced one between the halves   *)
(* of save_settings (window.rs:688).  Each lasts until the next switch     *)
(* that begins alone puts everything right again.                          *)

(* Whenever neither thread is in the middle of a switch the hooks swallow  *)
(* local input exactly when the Mac is the target and the user asked for   *)
(* it, however the steps of hotkeys, link changes and save_settings        *)
(* interleave (state.rs apply_target, window.rs save_settings), with two   *)
(* exceptions.  The last switch overlapped another; or it came between     *)
(* the halves of save_settings, which then stores suppress for the target  *)
(* that was replaced (window.rs:688-689): Windows has the input again, and *)
(* the keyboard is dead, against the fail-safe of state.rs:172-174, until  *)
(* a hotkey takes the input to the Mac and back.                           *)
SuppressionFollowsTarget ==
  Settled /\ ~overlapped /\ ~lateSave => (suppress <=> (target = "Mac" /\ pref))

(* Once the channel holds no target change the receiver of the live        *)
(* session has been told what the target is, across lost links, reconnects *)
(* and stale messages, unless the last switch overlapped another.          *)
MacFollowsTarget ==
  Settled /\ ~overlapped /\ conn /\ NoTargetChange => (told <=> target = "Mac")

(* With Windows the target again and the posts handled, the pointer is     *)
(* free and the banner is gone, unless the last switch overlapped another. *)
DesktopGivenBack ==
  Settled /\ ~overlapped /\ target = "Local" =>
    ~clip /\ (uiq = <<>> /\ UiIdle => ~banner)

(* A lost link returns the input to Windows on its own (docs/TESTING.md:94,*)
(* state.rs:172) or is replaced by a working one, however the two threads  *)
(* interleave.  With auto-connect a switch that slipped past set_link is   *)
(* undone by the next attempt; without it nothing undoes it.               *)
LostLinkReturnsInput ==
  link = "Disconnected" ~> (target = "Local" \/ link = "Connected")

(* Once Windows is the target the receiver is eventually told so (or the   *)
(* session is gone), unless the user switches back or the last switch      *)
(* overlapped another.                                                     *)
MacEventuallyReleased ==
  (told /\ target = "Local") ~> (~told \/ target = "Mac" \/ overlapped)

(* Quitting completes: main joins the network thread, which takes Shutdown *)
(* from its queue whatever connection attempts and losses come before.     *)
QuitCompletes == pc["ui"] = "done" ~> pc["net"] = "done"

=============================================================================
