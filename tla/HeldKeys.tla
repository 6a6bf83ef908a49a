------------------------------ MODULE HeldKeys ------------------------------
(***************************************************************************)
(* Keys and buttons that are held while the input changes sides.           *)
(*                                                                         *)
(* A physical event passes the low-level hook, which may swallow it, and   *)
(* reaches the InputTracker either from the hook or later as Raw Input.    *)
(* The tracker keeps what was held across a switch from both machines; the *)
(* rest goes through the network thread to the InputInjector of the Mac,   *)
(* which remembers what it pressed.  Switches, which mark what is held as  *)
(* stale, come from a hotkey in this stream or from the network thread.    *)
(***************************************************************************)
EXTENDS Naturals, Sequences

CONSTANTS
  Keys, Buttons,
  Modifier,      \* the modifier of the hotkeys, a key
  Hotkeys,       \* [trigger key -> the side it switches to]
  Settings,      \* the settings to consider
  MaxEvents,     \* bound: physical events
  MaxReturns,    \* bound: switches at an edge and lost connections
  MaxSleeps      \* bound: times the Mac is about to sleep

None == "none"

ASSUME HeldKeysAssumption ==
  /\ Modifier \in Keys /\ Keys \cap Buttons = {} /\ None \notin Keys
  /\ DOMAIN Hotkeys \subseteq Keys \ {Modifier}
  /\ \A k \in DOMAIN Hotkeys : Hotkeys[k] \in {"Local", "Mac"}
  /\ Settings \subseteq [suppress : BOOLEAN,  \* Config.suppress
                      hooked : BOOLEAN,    \* is the hook called? (not where it could not
                                           \* be installed, or for an elevated window)
                      lag : Nat]           \* bound: events waiting as Raw Input when the
                                           \* next one is made
  /\ MaxEvents \in Nat /\ MaxReturns \in Nat /\ MaxSleeps \in Nat

VARIABLES
  setting,
  \* the keyboard
  phys, latest,
  \* hooks.rs: HOOK_MODS and SWALLOWED; the Raw Input messages not yet handled
  hookMods, swallowed, rawq,
  \* InputTracker; LAST_DISPATCH_ACTION
  down, stale, lastAction,
  \* AppState; what each thread is doing
  target, suppress, th,
  \* NetMsg channel, the connection and the frames on it
  chan, conn, tcp,
  \* the receiver: activeFlag, InputInjector, events each queue is about to post,
  \* and what macOS believes is held
  active, pressed, posts, mainPosts, macHeld,
  \* history
  events, returns, sleeps,
  overlapped,    \* a switch began while the other thread was in one
  raced,         \* a release from the main thread ran into one of another queue
  astray,        \* keys whose release the tracker does not get, or gets too early
  misfired       \* keys whose release the tracker drops although it forwarded the press

hardware == <<setting, phys, latest, events>>
hooks    == <<hookMods, swallowed>>
tracker  == <<down, stale, lastAction>>
app      == <<target, suppress, overlapped>>
wire     == <<conn, tcp, returns>>
history  == <<astray, misfired>>
receiver == <<active, pressed, posts, mainPosts, macHeld, sleeps, raced>>
vars     == <<hardware, hooks, rawq, tracker, app, th, chan, wire, receiver, history>>

Thread == {"ui", "net"}
Held   == Keys \cup Buttons
Event  == [key : Held, down : BOOLEAN]

Idle        == [pc |-> "idle"]
At(p, e)    == [pc |-> p, event |-> e]
Switch(tgt) == [pc |-> "swap", to |-> tgt]
Other(t)    == IF t = "ui" THEN "net" ELSE "ui"
InSwitch(t) == th[t].pc \in {"store", "stale", "send"}

(* A set of held keys after an event.                                      *)
After(S, e) == IF e.down THEN S \cup {e.key} ELSE S \ {e.key}

Frame(kind) == [kind |-> kind]
Input(e)    == [kind |-> "key", event |-> e]

-----------------------------------------------------------------------------
Init ==
  /\ setting \in Settings
  /\ phys = {} /\ latest = None
  /\ hookMods = FALSE /\ swallowed = {} /\ rawq = <<>>
  /\ down = {} /\ stale = {} /\ lastAction = None
  /\ target = "Local" /\ suppress = FALSE /\ th = [t \in Thread |-> Idle]
  /\ chan = <<>> /\ conn = TRUE /\ tcp = <<>>
  /\ active = FALSE /\ pressed = {} /\ posts = {} /\ mainPosts = {} /\ macHeld = {}
  /\ events = 0 /\ returns = 0 /\ sleeps = 0 /\ overlapped = FALSE /\ raced = FALSE
  /\ astray = {} /\ misfired = {}

-----------------------------------------------------------------------------
(* Switching: the steps of AppState::apply_target, in either thread.       *)

Goto(t, next) == th' = [th EXCEPT ![t] = next]

apply_target_swap(t) ==
  /\ th[t].pc = "swap"
  /\ target' = th[t].to
  /\ Goto(t, IF target = th[t].to THEN Idle ELSE [th[t] EXCEPT !.pc = "store"])
  /\ overlapped' = (overlapped \/ (target # th[t].to /\ InSwitch(Other(t))))
  /\ UNCHANGED <<hardware, hooks, rawq, tracker, suppress, chan, wire, receiver, history>>

apply_target_store(t) ==
  /\ th[t].pc = "store"
  /\ suppress' = (th[t].to = "Mac" /\ setting.suppress)
  /\ Goto(t, [th[t] EXCEPT !.pc = "stale"])
  /\ UNCHANGED <<hardware, hooks, rawq, tracker, target, overlapped, chan, wire, receiver, history>>

(* An event of the key waits as Raw Input; or is about to be tracked.      *)
Queued(k)   == \E i \in DOMAIN rawq : rawq[i].key = k
OnItsWay(k) == Queued(k) \/ (th["ui"].pc = "key" /\ th["ui"].event.key = k)

(* mutant: buttons are forgotten                                           *)
mark_all_stale_keys(t) ==
  /\ th[t].pc = "stale"
  /\ stale' = stale \cup (down \cap Keys)
  /\ Goto(t, [th[t] EXCEPT !.pc = "send"])
  /\ astray' = {k \in astray : OnItsWay(k)} /\ misfired' = {}
  /\ UNCHANGED <<hardware, hooks, rawq, down, lastAction, app, chan, wire, receiver>>

mark_all_stale(t) ==
  /\ th[t].pc = "stale"
  /\ stale' = stale \cup down
  /\ Goto(t, [th[t] EXCEPT !.pc = "send"])
  /\ astray' = {k \in astray : OnItsWay(k)} /\ misfired' = {}
  /\ UNCHANGED <<hardware, hooks, rawq, down, lastAction, app, chan, wire, receiver>>

TargetChanged_untagged(tgt) == Frame(tgt) \* mutant: the target goes out as it is
TargetChanged(tgt) == Frame(IF tgt = "Mac" THEN "on" ELSE "off")

apply_target_send(t) ==
  /\ th[t].pc = "send"
  /\ chan' = Append(chan, TargetChanged(th[t].to))
  /\ Goto(t, Idle)
  /\ UNCHANGED <<hardware, hooks, rawq, tracker, app, wire, receiver, history>>

(* A hotkey fires.  The same action within 200 ms is ignored; going to the *)
(* Mac needs a connection.                                                 *)
dispatch(action) ==
  \/ /\ lastAction = action
     /\ Goto("ui", Idle) /\ UNCHANGED lastAction
  \/ /\ lastAction' = action
     /\ Goto("ui", IF action = "Mac" /\ ~conn THEN Idle ELSE Switch(action))

-----------------------------------------------------------------------------
(* The UI thread.  Hooks are called while it waits for messages.           *)

ReleaseEaten(e) == ~e.down /\ e.key \in swallowed

Fires(e, mods) == e.down /\ e.key \in DOMAIN Hotkeys /\ mods

(* A Raw Input message of the event is queued, the hook having let it by.  *)
CallNextHook(e) == rawq' = Append(rawq, e)

(* The hook lets by a press of which it will eat the release, or forwards a*)
(* release ahead of its press, which still waits as Raw Input.             *)
Strays(e) ==
  /\ ~Fires(e, hookMods) /\ ~ReleaseEaten(e)
  /\ IF e.down THEN e.key \in swallowed ELSE suppress /\ Queued(e.key)

keyboard_proc(e) ==
  /\ hookMods' = IF e.key = Modifier THEN e.down ELSE hookMods
  /\ \/ /\ Fires(e, hookMods)
        /\ swallowed' = swallowed \cup {e.key}
        /\ dispatch(Hotkeys[e.key])
        /\ UNCHANGED rawq
     \/ /\ ReleaseEaten(e)
        /\ swallowed' = swallowed \ {e.key}
        /\ UNCHANGED <<rawq, lastAction, th>>
     \/ /\ ~Fires(e, hookMods) /\ ~ReleaseEaten(e)
        /\ IF suppress THEN Goto("ui", At("key", e)) /\ UNCHANGED rawq
                       ELSE CallNextHook(e) /\ UNCHANGED th
        /\ UNCHANGED <<swallowed, lastAction>>
  /\ astray' = IF Strays(e) THEN astray \cup {e.key} ELSE astray

(* Swallowed buttons still arrive as Raw Input.                            *)
mouse_proc(e) ==
  /\ rawq' = Append(rawq, e)
  /\ UNCHANGED <<hookMods, swallowed, lastAction, th, astray>>

(* The pointer is pushed off the left edge: a move, which no tracker sees. *)
push_off_edge ==
  /\ th["ui"] = Idle /\ setting.hooked /\ target = "Local" /\ ~suppress
  /\ returns < MaxReturns /\ returns' = returns + 1
  /\ dispatch("Mac")
  /\ UNCHANGED <<hardware, hooks, rawq, down, stale, app, chan, conn, tcp, receiver, history>>

unhooked(e) == CallNextHook(e) /\ UNCHANGED <<hookMods, swallowed, lastAction, th, astray>>

(* What a keyboard and a mouse can do: press, release, and repeat the key  *)
(* pressed last.                                                           *)
Possible(e) ==
  IF e.down THEN \/ e.key \notin phys
                 \/ e.key \in Keys /\ e.key = latest
            ELSE e.key \in phys

physical_event ==
  /\ th["ui"] = Idle /\ Len(rawq) <= setting.lag
  /\ events < MaxEvents /\ events' = events + 1
  /\ \E e \in Event :
       /\ Possible(e)
       /\ phys' = After(phys, e)
       /\ latest' = IF e.down /\ e.key \in Keys THEN e.key ELSE IF e.key = latest THEN None ELSE latest
       /\ IF ~setting.hooked THEN unhooked(e)
          ELSE IF e.key \in Keys THEN keyboard_proc(e) ELSE mouse_proc(e)
  /\ UNCHANGED <<setting, down, stale, app, chan, wire, receiver, misfired>>

on_wm_input ==
  /\ th["ui"] = Idle /\ rawq # <<>>
  /\ rawq' = Tail(rawq)
  /\ Goto("ui", At("key", Head(rawq)))
  /\ UNCHANGED <<hardware, hooks, tracker, app, chan, wire, receiver, history>>

(* InputTracker::on_key and on_button, in handle_key_event.                *)
on_key ==
  /\ th["ui"].pc = "key"
  /\ LET e == th["ui"].event IN
       /\ down' = After(down, e)
       /\ IF Fires(e, Modifier \in down)
          THEN /\ stale' = stale \cup {e.key} /\ dispatch(Hotkeys[e.key])
               /\ misfired' = misfired \cup ({e.key} \cap (down \ stale))
               /\ UNCHANGED astray
          ELSE /\ stale' = IF e.down THEN stale ELSE stale \ {e.key}
               /\ Goto("ui", IF e.key \in stale THEN Idle ELSE At("forward", e))
               /\ astray' = IF ~e.down /\ ~Queued(e.key) THEN astray \ {e.key} ELSE astray
               /\ misfired' = IF ~e.down /\ e.key \notin stale THEN misfired \ {e.key} ELSE misfired
               /\ UNCHANGED lastAction
  /\ UNCHANGED <<hardware, hooks, rawq, app, chan, wire, receiver>>

(* handle_key_event reads the target, and then sends.                      *)
handle_key_event ==
  /\ th["ui"].pc = "forward"
  /\ Goto("ui", IF target = "Mac" THEN At("write", th["ui"].event) ELSE Idle)
  /\ UNCHANGED <<hardware, hooks, rawq, tracker, app, chan, wire, receiver, history>>

handle_key_event_send ==
  /\ th["ui"].pc = "write"
  /\ chan' = Append(chan, Input(th["ui"].event))
  /\ Goto("ui", Idle)
  /\ UNCHANGED <<hardware, hooks, rawq, tracker, app, wire, receiver, history>>

-----------------------------------------------------------------------------
(* The network thread.  An on or off frame stands for TARGET_ACTIVE with   *)
(* its RELEASE_ALL and MODIFIER_SYNC(0).                                   *)

Accepted(m) == conn /\ (m.kind = "key" => target = "Mac")

net_take ==
  /\ th["net"] = Idle /\ chan # <<>>
  /\ chan' = Tail(chan)
  /\ tcp' = IF Accepted(Head(chan)) THEN Append(tcp, Head(chan)) ELSE tcp
  /\ UNCHANGED <<hardware, hooks, rawq, tracker, app, th, conn, returns, receiver, history>>

(* EDGE_HIT, or set_link after the connection was lost, takes the input    *)
(* back; frames on their way may be lost with the connection.              *)
edge_hit ==
  /\ th["net"] = Idle /\ conn
  /\ returns < MaxReturns /\ returns' = returns + 1
  /\ Goto("net", Switch("Local"))
  /\ UNCHANGED <<hardware, hooks, rawq, tracker, app, chan, conn, tcp, receiver, history>>

(* mutant: a receiver that does not notice                                 *)
drop_connection_unnoticed ==
  /\ th["net"] = Idle /\ conn
  /\ returns < MaxReturns /\ returns' = returns + 1
  /\ conn' = FALSE
  /\ \E n \in 0..Len(tcp) : tcp' = SubSeq(tcp, 1, n)
  /\ Goto("net", IF target = "Mac" THEN Switch("Local") ELSE Idle)
  /\ UNCHANGED <<hardware, hooks, rawq, tracker, app, chan, receiver, history>>

drop_connection ==
  /\ th["net"] = Idle /\ conn
  /\ returns < MaxReturns /\ returns' = returns + 1
  /\ conn' = FALSE
  /\ \E n \in 0..Len(tcp) : tcp' = Append(SubSeq(tcp, 1, n), Frame("end"))
  /\ Goto("net", IF target = "Mac" THEN Switch("Local") ELSE Idle)
  /\ UNCHANGED <<hardware, hooks, rawq, tracker, app, chan, receiver, history>>

(* The receiver may hear nothing of the end, the last frame, of the        *)
(* session that is replaced.                                               *)
start_session ==
  /\ th["net"] = Idle /\ ~conn
  /\ IF target = "Mac" THEN Goto("net", Switch("Local")) /\ UNCHANGED <<conn, tcp>>
     ELSE /\ conn' = TRUE
          /\ \E unheard \in {0, 1} :
               /\ unheard <= Len(tcp)
               /\ tcp' = SubSeq(tcp, 1, Len(tcp) - unheard) \o <<Frame("begin"), Frame("off")>>
          /\ UNCHANGED th
  /\ UNCHANGED <<hardware, hooks, rawq, tracker, app, chan, returns, receiver, history>>

-----------------------------------------------------------------------------
(* The receiver.  The injector changes its sets under its lock and posts   *)
(* events after it has let it go.                                          *)

Ups(S) == [key : S, down : {FALSE}]

(* A modifier's release is posted whatever was pressed.                    *)
injector_key(e) ==
  /\ pressed' = After(pressed, e)
  /\ posts' = IF e.down \/ e.key \in pressed \cup {Modifier} THEN {e} ELSE {}

(* mutant: buttons stay down                                               *)
releaseAll_keys == pressed' = {} /\ posts' = Ups(pressed \cap Keys)

releaseAll == pressed' = {} /\ posts' = Ups(pressed)

didReceive ==
  /\ tcp # <<>> /\ posts = {}
  /\ tcp' = Tail(tcp)
  /\ raced' = (raced \/ mainPosts # {})
  /\ LET m == Head(tcp) IN
       IF m.kind = "key"
       THEN /\ IF active THEN injector_key(m.event) ELSE UNCHANGED <<pressed, posts>>
            /\ UNCHANGED active
       ELSE /\ releaseAll
            /\ active' = IF m.kind = "begin" THEN active ELSE m.kind = "on"
  /\ UNCHANGED <<hardware, hooks, rawq, tracker, app, th, chan, conn, returns, mainPosts, macHeld, sleeps, history>>

Post(S) == macHeld' = {k \in macHeld : [key |-> k, down |-> FALSE] \notin S}
                      \cup {k \in Held : [key |-> k, down |-> TRUE] \in S}

post ==
  /\ posts # {} /\ Post(posts) /\ posts' = {}
  /\ UNCHANGED <<hardware, hooks, rawq, tracker, app, th, chan, wire, active, pressed, mainPosts, sleeps, raced, history>>

(* willSleepNotification: releaseAll on the main thread.                   *)
willSleep ==
  /\ mainPosts = {} /\ pressed # {}
  /\ sleeps < MaxSleeps /\ sleeps' = sleeps + 1
  /\ mainPosts' = Ups(pressed) /\ pressed' = {}
  /\ raced' = (raced \/ posts # {})
  /\ UNCHANGED <<hardware, hooks, rawq, tracker, app, th, chan, wire, active, posts, macHeld, history>>

willSleep_post ==
  /\ mainPosts # {} /\ Post(mainPosts) /\ mainPosts' = {}
  /\ UNCHANGED <<hardware, hooks, rawq, tracker, app, th, chan, wire, active, pressed, posts, sleeps, raced, history>>

-----------------------------------------------------------------------------
apply_target(t) ==
  apply_target_swap(t) \/ apply_target_store(t) \/ mark_all_stale(t) \/ apply_target_send(t)

ui_step  == apply_target("ui") \/ on_wm_input \/ on_key \/ handle_key_event \/ handle_key_event_send
net_step == apply_target("net") \/ net_take

Next ==
  \/ physical_event \/ push_off_edge \/ ui_step \/ net_step
  \/ edge_hit \/ drop_connection \/ start_session
  \/ didReceive \/ post \/ willSleep \/ willSleep_post

Spec == Init /\ [][Next]_vars

(* While a thread or a queue has something to do, one of them is run.  (A  *)
(* lost connection is noticed by the receiver.)                            *)
FairSpec == Spec /\ WF_vars(ui_step \/ net_step \/ didReceive \/ post \/ willSleep_post)

-----------------------------------------------------------------------------
States == [pc : {"idle"}] \cup [pc : {"key", "forward", "write"}, event : Event]
          \cup [pc : {"swap", "store", "stale", "send"}, to : {"Local", "Mac"}]
Frames == [kind : {"on", "off", "begin", "end"}] \cup [kind : {"key"}, event : Event]

TypeOK ==
  /\ setting \in Settings
  /\ phys \subseteq Held /\ latest \in Keys \cup {None}
  /\ hookMods \in BOOLEAN /\ swallowed \subseteq DOMAIN Hotkeys /\ rawq \in Seq(Event)
  /\ down \subseteq Held /\ stale \subseteq Held /\ lastAction \in {None, "Local", "Mac"}
  /\ target \in {"Local", "Mac"} /\ suppress \in BOOLEAN
  /\ th \in [Thread -> States] /\ th["net"].pc \notin {"key", "forward", "write"}
  /\ chan \in Seq(Frames) /\ conn \in BOOLEAN /\ tcp \in Seq(Frames)
  /\ active \in BOOLEAN /\ pressed \subseteq Held /\ macHeld \subseteq Held
  /\ posts \subseteq Event /\ mainPosts \subseteq Event
  /\ events \in Nat /\ returns \in Nat /\ sleeps \in Nat
  /\ overlapped \in BOOLEAN /\ raced \in BOOLEAN
  /\ astray \subseteq Held /\ misfired \subseteq Held

(* Everything that was under way has been applied.                         *)
Quiet ==
  /\ \A t \in Thread : th[t] = Idle
  /\ rawq = <<>> /\ chan = <<>> /\ tcp = <<>> /\ posts = {} /\ mainPosts = {}

(* Once all has arrived, what the Mac holds is held on the keyboard.       *)
(* Except, with the hook, keys gone astray (hooks.rs:250-267): one pressed *)
(* again whose release the hook will eat, or one whose release the hook    *)
(* forwarded ahead of its press, until it is released, or a switch marks   *)
(* it, with no event of it on its way; and those misfired: a trigger which *)
(* fires, in the tracker, though the Mac has its press.  NoKeySticks has   *)
(* no exception, and is violated.                                          *)
Excepted == IF setting.hooked THEN astray \cup misfired ELSE {}
NothingStuck == Quiet /\ ~raced => macHeld \subseteq phys \cup Excepted

(* input/mod.rs:69, net/mod.rs:205: a key that fired a hotkey is not       *)
(* forwarded, and the Mac holds no key that it cannot see released.        *)
NoKeySticks == Quiet /\ ~raced => macHeld \subseteq phys

(* InputInjector.swift:428: releaseAll is safe to call from any thread.    *)
ReleaseAllFromAnyThread == Quiet => macHeld \subseteq phys

(* The Mac holds exactly what the tracker saw pressed, and not released,   *)
(* since it got the input, but for what a sleep released and (more) keys   *)
(* misfired, and nothing else while Windows has it.  Except once two       *)
(* switches overlapped, or the main thread's release raced.                *)
MacHoldsWhatWasPressed ==
  Quiet /\ ~overlapped /\ ~raced =>
    LET fresh == IF target = "Mac" /\ conn THEN down \ stale ELSE {}
    IN  /\ macHeld \subseteq fresh \cup (IF setting.hooked THEN misfired ELSE {})
        /\ sleeps = 0 => fresh \subseteq macHeld

(* A key let go of is let go of on the Mac, whatever happens meanwhile, or *)
(* is one of those excepted in NothingStuck, or a sleep raced.             *)
EventuallyReleased ==
  \A k \in Held : (k \in macHeld /\ k \notin phys) ~>
                    (k \notin macHeld \/ k \in phys \/ k \in Excepted \/ raced)
=============================================================================
