------------------------------- MODULE Window -------------------------------
(***************************************************************************)
(* The sender's settings (windows-sender/src/ui/window.rs, config.rs,      *)
(* main.rs, autostart.rs) and what follows them: config.json, the registry *)
(* and the Mac the network thread connects to (net/mod.rs).                *)
(*                                                                         *)
(* The window's thread runs one handler at a time, but Save shows a        *)
(* message box for a hotkey it cannot read, and the box handles the timer  *)
(* and the tray's commands. The network thread reads the settings when it  *)
(* connects, between any two steps of a handler. A second copy loads the   *)
(* file, may write it, and only then finds out that it is the second.      *)
(***************************************************************************)
EXTENDS Discovery, Hotkeys

CONSTANTS
  None,            \* no value
  Inputs,          \* what may be entered, per setting
  Starts,          \* how it may start: [file, host, autostart], host from the command line or None
  Combinations,    \* combinations a user may press: [mods, vk]
  MaxEdits,        \* bound: settings entered and hotkeys recorded
  MaxCommands      \* bound: Save, Pair, Find, commands of the tray and second copies

HotkeySettings == <<"hotkey_switch_to_mac", "hotkey_switch_to_windows", "hotkey_emergency_local">>
Settings == {"mac_host", "tcp_port", "edge_switch", "start_with_system", "mouse_interval_ms"}
              \union Range(HotkeySettings)
MOUSE_INTERVAL_CHOICES_MS == {1, 2, 4, 8}
NoHost == ""
Ports  == 0..65535

ASSUME WindowConstants ==
  /\ DOMAIN Inputs = Settings /\ Inputs.tcp_port \subseteq Ports
  /\ Inputs.edge_switch \subseteq BOOLEAN /\ Inputs.start_with_system \subseteq BOOLEAN
  /\ Inputs.mouse_interval_ms \subseteq MOUSE_INTERVAL_CHOICES_MS
  /\ \A start \in Starts :
       /\ DOMAIN start.file = Settings /\ start.file.tcp_port \in Ports
       /\ start.file.edge_switch \in BOOLEAN /\ start.file.start_with_system \in BOOLEAN
       /\ start.autostart \in BOOLEAN
  /\ \A c \in Combinations : c \in Hotkey
  /\ MaxEdits \in Nat /\ MaxCommands \in Nat

VARIABLES
  config,      \* AppState.cfg
  hotkeys,     \* HOTKEYS: the parsed hotkeys, per setting
  file,        \* config.json
  autostart,   \* whether the registry has the Run entry
  fields,      \* the window's controls, per setting
  edited,      \* the settings whose control the user has changed since it was filled
  capture,     \* CAPTURE_FOR and CAPTURED: the field waiting, what was recorded for it
  ui,          \* the handler the window's thread is in
  queue,       \* messages for the network thread
  net,         \* the network thread: transport, the code to pair with, its connection
  copy,        \* the config of a second copy that has loaded it
  press,       \* history: how often Save or Pair was pressed, what on while it goes on
  behind,      \* history: config.json was not written with what is in effect
  wentBack,    \* history: its settings went back while the connection in use was made with others
  edits, commands  \* counters of the bounds

settingVars == <<config, hotkeys, file, autostart>>
shownVars   == <<fields, edited, capture, fresh>>
histories   == <<press, behind, wentBack>>
countVars   == <<edits, commands>>
finderVars  == <<running, finder, searchFailures>>
vars == <<settingVars, shownVars, ui, queue, net, copy, histories, countVars, finderVars>>

NotSaving == [pc |-> "idle", telling |-> FALSE, todo |-> <<>>, cfg |-> None, code |-> None]
NoCapture == [for |-> None, field |-> None, text |-> NoText]
NoConn    == [at |-> "none", key |-> None, code |-> None]

(* The settings whose change asks for a reconnect. *)
transport_key(cfg) ==
  [host |-> cfg.mac_host, tcp_port |-> cfg.tcp_port, interval_ms |-> cfg.mouse_interval_ms]

-----------------------------------------------------------------------------
(* Starting, and config.json *)

sanitized_not(cfg) == cfg \* mutant: an interval from the file is taken as it is

sanitized(cfg) ==
  IF cfg.mouse_interval_ms \in MOUSE_INTERVAL_CHOICES_MS THEN cfg ELSE [cfg EXCEPT !.mouse_interval_ms = 2]

load(f) == sanitized(f)

(* The file and the command line. *)
build_config(f, host) == sanitized(IF host = None THEN load(f) ELSE [load(f) EXCEPT !.mac_host = host])

set_hotkeys(cfg) == [h \in Range(HotkeySettings) |-> parse_hotkey(cfg[h])]

(* What the window shows of them: the registry's word on starting.         *)
Shown(cfg, registry) == [cfg EXCEPT !.start_with_system = registry]

Init ==
  /\ \E start \in Starts : /\ file = start.file /\ autostart = start.autostart
                          /\ config = build_config(start.file, start.host)
  /\ hotkeys = set_hotkeys(config)
  /\ fields = Shown(config, autostart) /\ edited = {} /\ capture = NoCapture
  /\ ui = NotSaving /\ queue = <<>> /\ copy = None
  /\ net = [transport |-> transport_key(config), pair_code |-> None, conn |-> NoConn]
  /\ press = [nth |-> 0, shown |-> None, previous |-> None, disturbed |-> FALSE]
  /\ behind = (config # load(file)) /\ wentBack = FALSE
  /\ edits = 0 /\ commands = 0
  /\ DiscoveryInit

(* The write succeeds, or not and the caller goes on. *)
save(cfg) == \/ file' = cfg  /\ behind' = FALSE
             \/ file' = file /\ behind' = TRUE

(* Connected with settings it has not compared with, the network thread    *)
(* will see no change when they are what it last compared with again.      *)
GoesBack(key) == net.conn.at # "none" /\ net.conn.key # net.transport /\ key = net.transport

set_config(cfg) ==
  /\ config' = cfg
  /\ wentBack' = (wentBack \/ GoesBack(transport_key(cfg)))

-----------------------------------------------------------------------------
(* Filling the window *)

(* What was recorded goes into its field; what was found becomes the host  *)
(* if none is typed.                                                       *)
take_capture(shown) ==
  IF capture.field = None THEN shown ELSE [shown EXCEPT ![capture.field] = capture.text]
take_found(shown) ==
  IF fresh = Nothing \/ shown.mac_host # NoHost THEN shown ELSE [shown EXCEPT !.mac_host = fresh[1]]

refresh_status(shown, unsaved, capturing) ==
  /\ fields' = take_found(take_capture(shown))
  /\ edited' = unsaved \union {s \in Settings : fields'[s] # shown[s]}
  /\ capture' = [capture EXCEPT !.for = capturing, !.field = None, !.text = NoText]
  /\ fresh' = Nothing

(* Whatever was typed and not saved is gone. *)
refresh_controls == refresh_status(Shown(config', autostart'), {}, capture.for)

-----------------------------------------------------------------------------
(* The user, in the window: disabled while a message box is open *)

Listening == ui.pc \in {"idle", "box"} /\ ~ui.telling
Idle      == ui.pc = "idle" /\ ~ui.telling

edit ==
  /\ Idle /\ edits < MaxEdits /\ edits' = edits + 1
  /\ \E s \in Settings : \E v \in Inputs[s] \ {fields[s]} :
       fields' = [fields EXCEPT ![s] = v] /\ edited' = edited \union {s}
  /\ UNCHANGED <<settingVars, capture, fresh, ui, queue, net, copy, histories, commands, finderVars>>

(* Record, which pressed again cancels. *)
record ==
  /\ Idle /\ edits < MaxEdits /\ edits' = edits + 1
  /\ \E h \in Range(HotkeySettings) :
       refresh_status(fields, edited, IF capture.for = h THEN None ELSE h)
  /\ UNCHANGED <<settingVars, ui, queue, net, copy, histories, commands, finderVars>>

find_macs ==
  /\ Idle /\ commands < MaxCommands /\ commands' = commands + 1
  /\ start_search
  /\ refresh_status(fields, edited, capture.for)
  /\ UNCHANGED <<settingVars, ui, queue, net, copy, histories, edits>>

-----------------------------------------------------------------------------
(* Whatever the message loop delivers, that of a message box too *)

(* The keyboard hook. A key without a name is swallowed and no more.       *)
complete_capture ==
  /\ Listening /\ capture.for # None
  /\ \E c \in Combinations :
       /\ format_hotkey(c.mods, c.vk) # NoText
       /\ capture' = [for |-> None, field |-> capture.for, text |-> format_hotkey(c.mods, c.vk)]
  /\ UNCHANGED <<settingVars, fields, edited, fresh, ui, queue, net, copy, histories, countVars, finderVars>>

capture_expires ==
  /\ Listening /\ capture.for # None
  /\ capture' = [capture EXCEPT !.for = None]
  /\ UNCHANGED <<settingVars, fields, edited, fresh, ui, queue, net, copy, histories, countVars, finderVars>>

Disturbs == press' = [press EXCEPT !.disturbed = @ \/ (ui.pc = "box" /\ fields' # fields)]

timer ==
  /\ Listening /\ (capture.field # None \/ fresh # Nothing)
  /\ refresh_status(fields, edited, capture.for) /\ Disturbs
  /\ UNCHANGED <<settingVars, ui, queue, net, copy, behind, wentBack, countVars, finderVars>>

Command == Listening /\ commands < MaxCommands /\ commands' = commands + 1

(* The tray, or a second copy, asks for the window. *)
show ==
  /\ Command
  /\ UNCHANGED settingVars
  /\ refresh_controls /\ Disturbs
  /\ UNCHANGED <<ui, queue, net, copy, behind, wentBack, edits, finderVars>>

toggle_edge_unshown == \* mutant: the window is not filled again
  /\ Command
  /\ LET cfg == [config EXCEPT !.edge_switch = ~@] IN save(cfg) /\ set_config(cfg)
  /\ UNCHANGED <<hotkeys, autostart, shownVars, press, ui, queue, net, copy, edits, finderVars>>

toggle_edge ==
  /\ Command
  /\ LET cfg == [config EXCEPT !.edge_switch = ~@] IN save(cfg) /\ set_config(cfg)
  /\ UNCHANGED <<hotkeys, autostart>>
  /\ refresh_controls /\ Disturbs
  /\ UNCHANGED <<ui, queue, net, copy, edits, finderVars>>

interval_unsaved == \* mutant: the file is not written
  /\ Command
  /\ \E ms \in Inputs.mouse_interval_ms \intersect MOUSE_INTERVAL_CHOICES_MS :
       set_config([config EXCEPT !.mouse_interval_ms = ms])
  /\ ui' = [ui EXCEPT !.telling = TRUE]
  /\ UNCHANGED <<file, behind, hotkeys, autostart, shownVars, queue, net, copy, press, edits, finderVars>>

interval ==
  /\ Command
  /\ \E ms \in Inputs.mouse_interval_ms \intersect MOUSE_INTERVAL_CHOICES_MS :
       LET cfg == [config EXCEPT !.mouse_interval_ms = ms] IN save(cfg) /\ set_config(cfg)
  /\ ui' = [ui EXCEPT !.telling = TRUE]
  /\ UNCHANGED <<hotkeys, autostart, shownVars, queue, net, copy, press, edits, finderVars>>

interval_untold == \* mutant: the network thread is not told
  /\ ui.telling
  /\ ui' = [ui EXCEPT !.telling = FALSE]
  /\ UNCHANGED settingVars
  /\ refresh_controls /\ Disturbs
  /\ UNCHANGED <<queue, net, copy, behind, wentBack, countVars, finderVars>>

interval_told ==
  /\ ui.telling
  /\ queue' = Append(queue, [type |-> "ConfigChanged"])
  /\ ui' = [ui EXCEPT !.telling = FALSE]
  /\ UNCHANGED settingVars
  /\ refresh_controls /\ Disturbs
  /\ UNCHANGED <<net, copy, behind, wentBack, countVars, finderVars>>

-----------------------------------------------------------------------------
(* save_settings *)

Numbers == {"tcp_port"}
Usable(s, v) ==
  CASE s \in Range(HotkeySettings) -> v # NoText /\ parse_hotkey(v) # NoHotkey
    [] s \in Numbers -> v # 0
    [] OTHER -> TRUE

(* Everything but the hotkeys and the interval is read at once.            *)
ReadNow == Settings \ (Range(HotkeySettings) \union {"mouse_interval_ms"})

save_settings ==
  /\ Idle /\ commands < MaxCommands /\ commands' = commands + 1
  /\ \E pairing \in BOOLEAN :
       ui' = [NotSaving EXCEPT
                !.pc   = "hotkeys", !.todo = HotkeySettings,
                !.cfg  = [s \in Settings |-> IF s \in ReadNow /\ Usable(s, fields[s]) THEN fields[s] ELSE config[s]],
                !.code = IF pairing THEN [host |-> fields.mac_host, nth |-> press.nth + 1] ELSE None]
  /\ press' = [nth |-> press.nth + 1, shown |-> fields, previous |-> config, disturbed |-> FALSE]
  /\ UNCHANGED <<settingVars, shownVars, queue, net, copy, behind, wentBack, edits, finderVars>>

(* An empty hotkey is passed over, an unreadable one after a message box.  *)
read_hotkey ==
  /\ ui.pc = "hotkeys" /\ ui.todo # <<>>
  /\ LET h == Head(ui.todo)
     IN ui' = IF fields[h] # NoText /\ ~Usable(h, fields[h]) THEN [ui EXCEPT !.pc = "box"]
              ELSE [ui EXCEPT !.todo = Tail(@),
                              !.cfg  = IF fields[h] = NoText THEN @ ELSE [@ EXCEPT ![h] = fields[h]]]
  /\ UNCHANGED <<settingVars, shownVars, queue, net, copy, histories, countVars, finderVars>>

message_box_takes == \* mutant: what could not be read is stored all the same
  /\ ui.pc = "box" /\ ~ui.telling
  /\ ui' = [ui EXCEPT !.pc = "hotkeys", !.todo = Tail(@), !.cfg[Head(ui.todo)] = fields[Head(ui.todo)]]
  /\ UNCHANGED <<settingVars, shownVars, queue, net, copy, histories, countVars, finderVars>>

message_box ==
  /\ ui.pc = "box" /\ ~ui.telling
  /\ ui' = [ui EXCEPT !.pc = "hotkeys", !.todo = Tail(@)]
  /\ UNCHANGED <<settingVars, shownVars, queue, net, copy, histories, countVars, finderVars>>

(* The registry is compared with, and its change may fail. *)
save_applies ==
  /\ ui.pc = "hotkeys" /\ ui.todo = <<>>
  /\ LET cfg == sanitized([ui.cfg EXCEPT !.mouse_interval_ms = fields.mouse_interval_ms])
     IN /\ autostart' \in {autostart, cfg.start_with_system}
        /\ hotkeys' = set_hotkeys(cfg) /\ set_config(cfg)
        /\ ui' = [ui EXCEPT !.pc = "file", !.cfg = cfg]
  /\ UNCHANGED <<file, shownVars, queue, net, copy, press, behind, countVars, finderVars>>

save_writes ==
  /\ ui.pc = "file"
  /\ save(ui.cfg) /\ ui' = [ui EXCEPT !.pc = "tell"]
  /\ UNCHANGED <<config, hotkeys, autostart, shownVars, queue, net, copy, press, wentBack, countVars, finderVars>>

(* PAIR goes on with its code. *)
save_tells ==
  /\ ui.pc = "tell"
  /\ queue' = queue \o <<[type |-> "ConfigChanged"]>>
                    \o IF ui.code = None THEN <<>> ELSE <<[type |-> "Pair", code |-> ui.code]>>
  /\ ui' = NotSaving
  /\ press' = [press EXCEPT !.shown = None, !.previous = None, !.disturbed = FALSE]
  /\ UNCHANGED settingVars
  /\ refresh_controls
  /\ UNCHANGED <<net, copy, behind, wentBack, countVars, finderVars>>

-----------------------------------------------------------------------------
(* The network thread *)

net_attempts ==
  /\ net.conn.at = "none" /\ config.mac_host # NoHost
  /\ net' = [net EXCEPT !.pair_code = None,
                        !.conn = [at |-> "attempt", key |-> transport_key(config), code |-> net.pair_code]]
  /\ UNCHANGED <<settingVars, shownVars, ui, queue, copy, histories, countVars, finderVars>>

net_connects ==
  /\ net.conn.at = "attempt"
  /\ net' = [net EXCEPT !.conn.at = "up"]
  /\ UNCHANGED <<settingVars, shownVars, ui, queue, copy, histories, countVars, finderVars>>

(* It matters for as long as that connection is in use. *)
Remembers == wentBack' = (wentBack /\ net'.conn # NoConn)

net_fails ==
  /\ net.conn.at # "none"
  /\ net' = [net EXCEPT !.conn = NoConn] /\ Remembers
  /\ UNCHANGED <<settingVars, shownVars, ui, queue, copy, press, behind, countVars, finderVars>>

(* Connecting, the thread receives nothing. *)
net_receives ==
  /\ net.conn.at # "attempt" /\ queue # <<>> /\ queue' = Tail(queue)
  /\ LET m == Head(queue)
     IN net' = CASE m.type = "Pair" -> [net EXCEPT !.pair_code = m.code, !.conn = NoConn]
                 [] m.type = "ConfigChanged" /\ transport_key(config) # net.transport ->
                      [net EXCEPT !.transport = transport_key(config), !.conn = NoConn]
                 [] OTHER -> net
  /\ Remembers
  /\ UNCHANGED <<settingVars, shownVars, ui, copy, press, behind, countVars, finderVars>>

-----------------------------------------------------------------------------
(* A second copy started with --mac and --save *)

copy_starts ==
  /\ copy = None /\ commands < MaxCommands /\ commands' = commands + 1
  /\ \E host \in Hosts : copy' = build_config(file, host)
  /\ UNCHANGED <<settingVars, shownVars, ui, queue, net, histories, edits, finderVars>>

copy_saves ==
  /\ copy # None /\ copy' = None
  /\ file' = copy /\ behind' = TRUE
  /\ UNCHANGED <<config, hotkeys, autostart, shownVars, ui, queue, net, press, wentBack, countVars, finderVars>>

-----------------------------------------------------------------------------
user_step == edit \/ record \/ find_macs \/ complete_capture \/ capture_expires \/ timer
               \/ show \/ toggle_edge \/ interval
save_step == save_settings \/ read_hotkey \/ message_box \/ save_applies \/ save_writes \/ save_tells
net_step  == net_attempts \/ net_connects \/ net_fails \/ net_receives

search_step ==
  /\ finder_step
  /\ UNCHANGED <<settingVars, fields, edited, capture, ui, queue, net, copy, histories, countVars>>

Next == user_step \/ interval_told \/ save_step \/ net_step \/ copy_starts \/ copy_saves \/ search_step

Spec == Init /\ [][Next]_vars

(* The search thread is scheduled, and its socket reads time out           *)
(* (discovery.rs:89).                                                      *)
FairSpec == Spec /\ WF_vars(search_step)

-----------------------------------------------------------------------------
(* Properties *)

Texts      == {NoText} \union (UNION {Inputs[h] : h \in Range(HotkeySettings)})
                \union {format_hotkey(c.mods, c.vk) : c \in Combinations}
                \union (UNION {{start.file[h] : h \in Range(HotkeySettings)} : start \in Starts})
KnownHosts == Hosts \union Inputs.mac_host \union {NoHost} \union {start.file.mac_host : start \in Starts}
                \union ({start.host : start \in Starts} \ {None})
Pairing    == {None} \union [host : KnownHosts, nth : 1..MaxCommands]

(* A file may have any interval. *)
IsFile(c) ==
  /\ DOMAIN c = Settings
  /\ c.mac_host \in KnownHosts /\ c.tcp_port \in Ports
  /\ c.edge_switch \in BOOLEAN /\ c.start_with_system \in BOOLEAN
  /\ \A h \in Range(HotkeySettings) : c[h] \in Texts
IsConfig(c) == IsFile(c) /\ c.mouse_interval_ms \in MOUSE_INTERVAL_CHOICES_MS

NoPort(c) == c.tcp_port = 0 => \E start \in Starts : start.file.tcp_port = 0

(* Whatever is entered, found, recorded or in the file, what is in effect, *)
(* shown or loaded are settings of the kind that is expected, and a port   *)
(* that cannot be is in effect only if the file had it.                    *)
TypeOK ==
  /\ IsConfig(config) /\ NoPort(config) /\ IsConfig(fields) /\ IsFile(file)
  /\ hotkeys \in [Range(HotkeySettings) -> Hotkey] /\ autostart \in BOOLEAN
  /\ edited \subseteq Settings
  /\ capture.for \in {None} \union Range(HotkeySettings)
  /\ capture.field \in {None} \union Range(HotkeySettings) /\ capture.text \in Texts
  /\ ui.pc \in {"idle", "hotkeys", "box", "file", "tell"} /\ ui.telling \in BOOLEAN
  /\ ui.code \in Pairing /\ net.pair_code \in Pairing /\ net.conn.code \in Pairing
  /\ net.conn.at \in {"none", "attempt", "up"}
  /\ copy # None => IsConfig(copy)
  /\ DiscoveryTypeOK

(* window.rs:748: the tray changes settings that the window shows too, and *)
(* what it shows is what the next Save puts in effect: a control that the  *)
(* user has not touched agrees with what is in effect, so that Save does   *)
(* not quietly take a change back.                                         *)
ShownIsInEffect ==
  Listening => \A s \in Settings \ edited : fields[s] = Shown(config, autostart)[s]

(* window.rs:637: Save puts in effect what was in the window when it was   *)
(* pressed, each in its place, keeps what was in effect where that cannot  *)
(* be used, and the hook goes by the same hotkeys. Excepted: what someone  *)
(* changed while the message box was open (window.rs:655).                 *)
SavedAsShown ==
  ui.pc \in {"file", "tell"} =>
    /\ hotkeys = set_hotkeys(config)
    /\ ~press.disturbed =>
         \A s \in Settings :
           config[s] = IF Usable(s, press.shown[s]) THEN press.shown[s] ELSE press.previous[s]

(* config.rs:287: while a field waits for a combination there is none, of  *)
(* any key and modifiers, that would be recorded and then be another one   *)
(* when its text is saved or loaded.                                       *)
Misread == {c \in [mods : SUBSET Groups, vk : 1..255] :
              LET text == format_hotkey(c.mods, c.vk) IN text # NoText /\ parse_hotkey(text) # c}
RecordedFires == capture.for # None => Misread = {}

(* window.rs:751, :765: whatever route a setting takes, the next start     *)
(* finds what is in effect now. Excepted, until the next write: a write    *)
(* that failed, another copy's write (config.rs:117), and a start with a   *)
(* host on its command line and no --save, which the file has not.         *)
FileKept == ui.pc # "file" /\ ~behind => load(file) = config

(* net/mod.rs:258: the connection in use is to the Mac, port and interval  *)
(* in effect once the network thread has caught up, and a pairing code     *)
(* goes to the Mac the window showed when Pair was pressed, unless Save    *)
(* was pressed since. Excepted is a connection that was made with settings *)
(* the thread had yet to be told of, if they then went back to those it    *)
(* last compared with: net/mod.rs:259 sees no change, and the connection   *)
(* stays where it is. The next connection is not excepted.                 *)
RightMac ==
  /\ net.conn.at = "up" /\ queue = <<>> /\ Idle => net.conn.key = transport_key(config) \/ wentBack
  /\ net.conn.code # None /\ net.conn.code.nth = press.nth => net.conn.key.host = net.conn.code.host
=============================================================================
