---------------------------- MODULE WindowProofs ----------------------------
(***************************************************************************)
(* Proofs about Window, for any settings, Macs and bounds: what the window *)
(* shows, what is in the file and which Mac is connected to agree with the *)
(* settings in effect.                                                     *)
(***************************************************************************)
EXTENDS Window, FoldTheorems, SequenceTheorems, TLAPS

HotkeyNames == Range(HotkeySettings)
IsSettings(c) == DOMAIN c = Settings

Shapes ==
  /\ DOMAIN ui = {"pc", "telling", "todo", "cfg", "code"}
  /\ DOMAIN net = {"transport", "pair_code", "conn"} /\ DOMAIN net.conn = {"at", "key", "code"}
  /\ DOMAIN press = {"nth", "shown", "previous", "disturbed"}
  /\ ui.pc \in {"idle", "hotkeys", "box", "file", "tell"}
  /\ net.conn.at \in {"none", "attempt", "up"}
  /\ press.nth \in Nat
  /\ ui.todo \in Seq(HotkeyNames) /\ (ui.pc = "box" => ui.todo # <<>>)

(* Save works on settings like those in effect, and has put them in effect *)
(* when it writes the file. The tray's commands tell the network thread    *)
(* before a message box is closed.                                         *)
SettingsInv ==
  /\ IsSettings(config) /\ config.mouse_interval_ms \in MOUSE_INTERVAL_CHOICES_MS
  /\ IsSettings(fields)
  /\ ui.pc # "idle" => IsSettings(ui.cfg)
  /\ ui.pc \in {"file", "tell"} => ui.cfg = config
  /\ ui.telling => ui.pc \in {"idle", "box"}

(* While Save reads the controls nothing has changed behind them. *)
ShownInv ==
  ui.pc \in {"idle", "hotkeys", "box"} /\ ~ui.telling =>
    \A s \in Settings \ edited : fields[s] = Shown(config, autostart)[s]

(* A change the network thread has not compared with is on its way, and    *)
(* its connection is with what it last compared with, or with settings     *)
(* that came after: then it will see a change, unless they went back.      *)
Told ==
  \/ ui.pc \in {"file", "tell"} \/ ui.telling
  \/ \E i \in DOMAIN queue : queue[i].type = "ConfigChanged"

Current == net.transport = transport_key(config)

ComparedInv ==
  /\ Current \/ Told
  /\ net.conn.at # "none" /\ Current /\ ~wentBack => net.conn.key = transport_key(config)

QueueInv == \E S : queue \in Seq(S)

(* A code that was entered last goes with the host that was shown with it. *)
Codes == {net.pair_code} \union {queue[i].code : i \in {n \in DOMAIN queue : queue[n].type = "Pair"}}
Entering == ui.code # None => ui.pc # "idle" /\ ui.code.nth = press.nth /\ ui.code.host = ui.cfg.mac_host
GoesToShown(code) ==
  code # None =>
    /\ code.nth \in Nat /\ code.nth <= press.nth
    /\ code.nth = press.nth => ui.pc = "idle" /\ code.host = config.mac_host
Connecting ==
  net.conn.code # None =>
    /\ net.conn.code.nth \in Nat /\ net.conn.code.nth <= press.nth
    /\ net.conn.code.nth = press.nth => net.conn.key.host = net.conn.code.host
CodesInv == Entering /\ (\A code \in Codes : GoesToShown(code)) /\ Connecting

IInv == Shapes /\ SettingsInv /\ ShownInv /\ FileKept /\ QueueInv /\ ComparedInv /\ CodesInv

-----------------------------------------------------------------------------
(* Settings *)

LEMMA Names ==
  /\ HotkeyNames = {"hotkey_switch_to_mac", "hotkey_switch_to_windows", "hotkey_emergency_local"}
  /\ HotkeySettings \in Seq(HotkeyNames)
  /\ HotkeyNames \subseteq Settings
  /\ {"mac_host", "tcp_port", "edge_switch", "start_with_system", "mouse_interval_ms"} \subseteq Settings
BY DEF HotkeyNames, HotkeySettings, Range, Settings

(* A sanitized setting keeps its other values, and stays as it is the next *)
(* time.                                                                   *)
LEMMA Sanitized ==
  ASSUME NEW cfg, IsSettings(cfg)
  PROVE  /\ IsSettings(sanitized(cfg))
         /\ sanitized(cfg).mouse_interval_ms \in MOUSE_INTERVAL_CHOICES_MS
         /\ \A s \in Settings \ {"mouse_interval_ms"} : sanitized(cfg)[s] = cfg[s]
         /\ cfg.mouse_interval_ms \in MOUSE_INTERVAL_CHOICES_MS => sanitized(cfg) = cfg
BY Names DEF sanitized, IsSettings, MOUSE_INTERVAL_CHOICES_MS

LEMMA Entered ==
  ASSUME NEW c, IsSettings(c), NEW s \in Settings, NEW v
  PROVE  /\ IsSettings([c EXCEPT ![s] = v])
         /\ [c EXCEPT ![s] = v][s] = v
         /\ \A t \in Settings \ {s} : [c EXCEPT ![s] = v][t] = c[t]
BY DEF IsSettings

(* A control that filling the window leaves unedited shows what it was to. *)
LEMMA Filled ==
  ASSUME NEW shown, NEW unsaved, NEW capturing, IsSettings(shown),
         refresh_status(shown, unsaved, capturing)
  PROVE  /\ IsSettings(fields')
         /\ \A s \in Settings \ edited' : s \notin unsaved /\ fields'[s] = shown[s]
BY DEF refresh_status, take_found, take_capture, IsSettings

LEMMA FilledAnew ==
  ASSUME IsSettings(config'), refresh_controls
  PROVE  IsSettings(fields') /\ \A s \in Settings \ edited' : fields'[s] = Shown(config', autostart')[s]
BY Filled DEF refresh_controls, Shown, IsSettings

-----------------------------------------------------------------------------
(* The records keep their fields. *)

LEMMA ShapesKept ==
  ASSUME Shapes, [Next]_vars
  PROVE  Shapes'
<1> USE Names
<1>1. CASE UNCHANGED <<ui, net, press>>
  BY <1>1 DEF Shapes
<1>2. CASE UNCHANGED <<ui, net>> /\ Disturbs
  BY <1>2 DEF Shapes, Disturbs
<1>3. CASE edit \/ record \/ find_macs \/ complete_capture \/ capture_expires
  BY <1>1, <1>3 DEF edit, record, find_macs, complete_capture, capture_expires, histories
<1>4. CASE timer \/ show \/ toggle_edge
  BY <1>2, <1>4 DEF timer, show, toggle_edge
<1>5. CASE interval
  BY <1>5 DEF interval, Shapes
<1>6. CASE interval_told
  BY <1>6 DEF interval_told, Shapes, Disturbs
<1>7. CASE save_settings
  BY <1>7 DEF save_settings, Shapes, NotSaving
<1>8. CASE read_hotkey
  BY <1>8 DEF read_hotkey, Shapes, histories
<1>9. CASE message_box
  BY <1>9 DEF message_box, Shapes, histories
<1>10. CASE save_applies \/ save_writes
  BY <1>10 DEF save_applies, save_writes, Shapes
<1>11. CASE save_tells
  BY <1>11 DEF save_tells, Shapes, NotSaving
<1>12. CASE net_attempts \/ net_connects \/ net_fails
  <2>1. CASE net_attempts
    BY <2>1 DEF net_attempts, Shapes, histories
  <2>2. CASE net_connects
    BY <2>2 DEF net_connects, Shapes, histories
  <2>3. CASE net_fails
    BY <2>3 DEF net_fails, Shapes, NoConn, histories
  <2> QED
    BY <1>12, <2>1, <2>2, <2>3
<1>13. CASE net_receives
  BY <1>13 DEF net_receives, Shapes, NoConn, histories
<1>14. CASE copy_starts \/ copy_saves \/ search_step \/ UNCHANGED vars
  BY <1>1, <1>14 DEF copy_starts, copy_saves, search_step, vars, histories
<1> QED
  BY <1>3, <1>4, <1>5, <1>6, <1>7, <1>8, <1>9, <1>10, <1>11, <1>12, <1>13, <1>14
     DEF Next, user_step, save_step, net_step

-----------------------------------------------------------------------------
(* Save works on settings, and puts in effect what it writes. *)

LEMMA SettingsKept ==
  ASSUME Shapes, SettingsInv, [Next]_vars
  PROVE  SettingsInv'
<1> USE Names DEF Shapes
<1>1. CASE UNCHANGED <<config, ui>> /\ IsSettings(fields')
  BY <1>1 DEF SettingsInv
<1>2. CASE UNCHANGED <<config, ui, fields>>
  BY <1>1, <1>2 DEF SettingsInv
<1>3. CASE edit
  BY <1>1, <1>3 DEF edit, settingVars, SettingsInv, IsSettings
<1>4. CASE record \/ find_macs \/ timer
  BY <1>1, <1>4, Filled DEF record, find_macs, timer, settingVars, SettingsInv
<1>5. CASE show
  BY <1>1, <1>5, FilledAnew DEF show, settingVars, SettingsInv
<1>6. CASE complete_capture \/ capture_expires
  BY <1>2, <1>6 DEF complete_capture, capture_expires, settingVars
<1>7. CASE toggle_edge
  <2>1. IsSettings(config') /\ config'.mouse_interval_ms = config.mouse_interval_ms
    BY <1>7 DEF toggle_edge, set_config, SettingsInv, IsSettings
  <2>2. IsSettings(fields')
    BY <1>7, <2>1, FilledAnew DEF toggle_edge
  <2> QED
    BY <1>7, <2>1, <2>2 DEF toggle_edge, Command, Listening, SettingsInv
<1>8. CASE interval
  <2>1. IsSettings(config') /\ config'.mouse_interval_ms \in MOUSE_INTERVAL_CHOICES_MS
    BY <1>8 DEF interval, set_config, SettingsInv, IsSettings
  <2> QED
    BY <1>8, <2>1 DEF interval, Command, Listening, SettingsInv, shownVars
<1>9. CASE interval_told
  <2>1. IsSettings(fields')
    BY <1>9, FilledAnew DEF interval_told, settingVars, SettingsInv
  <2> QED
    BY <1>9, <2>1 DEF interval_told, settingVars, SettingsInv
<1>10. CASE save_settings
  BY <1>10 DEF save_settings, SettingsInv, IsSettings, settingVars, shownVars, NotSaving
<1>11. CASE read_hotkey
  BY <1>11 DEF read_hotkey, SettingsInv, IsSettings, settingVars, shownVars
<1>12. CASE message_box
  BY <1>12 DEF message_box, SettingsInv, settingVars, shownVars
<1>13. CASE save_applies
  BY <1>13, Sanitized, Entered DEF save_applies, set_config, SettingsInv, shownVars
<1>14. CASE save_writes
  BY <1>14 DEF save_writes, SettingsInv, shownVars
<1>15. CASE save_tells
  BY <1>15, FilledAnew DEF save_tells, settingVars, SettingsInv, NotSaving
<1>16. CASE net_step \/ copy_starts \/ copy_saves \/ search_step \/ UNCHANGED vars
  BY <1>2, <1>16 DEF net_step, net_attempts, net_connects, net_fails, net_receives, copy_starts, copy_saves,
     search_step, vars, settingVars, shownVars
<1> QED
  BY <1>3, <1>4, <1>5, <1>6, <1>7, <1>8, <1>9, <1>10, <1>11, <1>12, <1>13, <1>14, <1>15, <1>16
     DEF Next, user_step, save_step

-----------------------------------------------------------------------------
(* What the window shows *)

LEMMA ShownKept ==
  ASSUME Shapes, SettingsInv, ShownInv, [Next]_vars
  PROVE  ShownInv'
<1> USE DEF Shapes
<1>1. CASE UNCHANGED <<config, autostart, fields, edited, ui>>
  BY <1>1 DEF ShownInv, Shown
<1>2. CASE IsSettings(config') /\ refresh_controls
  BY <1>2, FilledAnew DEF ShownInv
<1>3. IsSettings(config')
  BY SettingsKept DEF SettingsInv
<1>4. CASE edit
  BY <1>4 DEF edit, settingVars, ShownInv, SettingsInv, IsSettings, Shown
<1>5. CASE record \/ find_macs \/ timer
  <2>1. IsSettings(fields)
    BY DEF SettingsInv
  <2>2. /\ UNCHANGED <<config, autostart, ui>>
        /\ \A s \in Settings \ edited' : s \notin edited /\ fields'[s] = fields[s]
    BY <1>5, <2>1, Filled DEF record, find_macs, timer, settingVars
  <2> QED
    BY <2>2 DEF ShownInv, Shown
<1>6. CASE show \/ toggle_edge \/ interval_told \/ save_tells
  BY <1>2, <1>3, <1>6 DEF show, toggle_edge, interval_told, save_tells
<1>7. CASE complete_capture \/ capture_expires
  BY <1>1, <1>7 DEF complete_capture, capture_expires, settingVars
<1>8. CASE interval
  BY <1>8 DEF interval, ShownInv
<1>9. CASE save_settings \/ read_hotkey \/ message_box
  BY <1>9 DEF save_settings, read_hotkey, message_box, Idle, NotSaving, settingVars, shownVars, ShownInv, Shown,
     SettingsInv
<1>10. CASE save_applies \/ save_writes
  BY <1>10 DEF save_applies, save_writes, ShownInv
<1>11. CASE net_step \/ copy_starts \/ copy_saves \/ search_step \/ UNCHANGED vars
  BY <1>1, <1>11 DEF net_step, net_attempts, net_connects, net_fails, net_receives, copy_starts, copy_saves,
     search_step, vars, settingVars, shownVars
<1> QED
  BY <1>4, <1>5, <1>6, <1>7, <1>8, <1>9, <1>10, <1>11 DEF Next, user_step, save_step

-----------------------------------------------------------------------------
(* What the file has *)

LEMMA WrittenIsLoaded ==
  ASSUME NEW cfg, IsSettings(cfg), cfg.mouse_interval_ms \in MOUSE_INTERVAL_CHOICES_MS, save(cfg)
  PROVE  ~behind' => load(file') = cfg
BY Sanitized DEF save, load

LEMMA FileStaysKept ==
  ASSUME Shapes, SettingsInv, FileKept, [Next]_vars
  PROVE  FileKept'
<1> USE DEF Shapes
<1>1. CASE UNCHANGED <<config, file, behind, ui>>
  BY <1>1 DEF FileKept, load
<1>2. CASE edit \/ record \/ find_macs \/ complete_capture \/ capture_expires \/ timer \/ show
  BY <1>1, <1>2 DEF edit, record, find_macs, complete_capture, capture_expires, timer, show, settingVars, histories
<1>3. SettingsInv'
  BY SettingsKept
<1>4. CASE toggle_edge \/ interval
  <2>1. save(config')
    BY <1>4 DEF toggle_edge, interval, set_config
  <2> QED
    BY <1>3, <2>1, WrittenIsLoaded DEF SettingsInv, FileKept
<1>5. CASE interval_told \/ save_tells
  BY <1>5 DEF interval_told, save_tells, settingVars, SettingsInv, NotSaving, FileKept, load
<1>6. CASE save_settings \/ read_hotkey \/ message_box
  BY <1>6 DEF save_settings, read_hotkey, message_box, NotSaving, Idle, settingVars, histories, FileKept, load
<1>7. CASE save_applies
  BY <1>7 DEF save_applies, FileKept
<1>8. CASE save_writes
  <2>1. save(config') /\ ~behind' => load(file') = config'
    BY <1>3, WrittenIsLoaded DEF SettingsInv
  <2>2. save(config')
    BY <1>8 DEF save_writes, SettingsInv
  <2> QED
    BY <2>1, <2>2 DEF FileKept
<1>9. CASE copy_saves
  BY <1>9 DEF copy_saves, FileKept
<1>10. CASE net_step \/ copy_starts \/ search_step \/ UNCHANGED vars
  BY <1>1, <1>10 DEF net_step, net_attempts, net_connects, net_fails, net_receives, copy_starts,
     search_step, vars, settingVars, histories
<1> QED
  BY <1>2, <1>4, <1>5, <1>6, <1>7, <1>8, <1>9, <1>10 DEF Next, user_step, save_step

-----------------------------------------------------------------------------
(* The network thread *)

LEMMA Longer ==
  ASSUME NEW S, NEW s \in Seq(S), NEW x
  PROVE  /\ Append(s, x) \in Seq(S \union {x}) /\ Append(s, x) # <<>>
         /\ DOMAIN Append(s, x) = 1..(Len(s) + 1) /\ DOMAIN s = 1..Len(s)
         /\ \A i \in DOMAIN s : Append(s, x)[i] = s[i]
         /\ Append(s, x)[Len(s) + 1] = x /\ Len(Append(s, x)) = Len(s) + 1
<1>1. s \in Seq(S \union {x}) /\ x \in S \union {x}
  OBVIOUS
<1> QED
  BY <1>1

LEMMA Shorter ==
  ASSUME NEW S, NEW s \in Seq(S), s # <<>>
  PROVE  /\ Tail(s) \in Seq(S) /\ 1 \in DOMAIN s /\ s[1] = Head(s)
         /\ \A i \in DOMAIN Tail(s) : i + 1 \in DOMAIN s /\ Tail(s)[i] = s[i + 1]
         /\ \A i \in DOMAIN s : i # 1 => i - 1 \in DOMAIN Tail(s) /\ Tail(s)[i - 1] = s[i]
OBVIOUS

LEMMA OneMore ==
  ASSUME NEW S, NEW s \in Seq(S), NEW x \in S
  PROVE  /\ s \o <<x>> \in Seq(S)
         /\ \A i \in DOMAIN (s \o <<x>>) : (i \in DOMAIN s /\ (s \o <<x>>)[i] = s[i]) \/ (s \o <<x>>)[i] = x
OBVIOUS

LEMMA QueueKept ==
  ASSUME QueueInv, [Next]_vars
  PROVE  QueueInv'
<1>1. CASE UNCHANGED queue
  BY <1>1 DEF QueueInv
<1>2. PICK S : queue \in Seq(S)
  BY DEF QueueInv
<1>3. CASE interval_told
  BY <1>2, <1>3, Longer DEF interval_told, QueueInv
<1>4. CASE save_tells
  <2> DEFINE changed == [type |-> "ConfigChanged"]
             pair == [type |-> "Pair", code |-> ui.code]
  <2>1. queue \in Seq(S \union {changed, pair}) /\ <<changed>> \in Seq(S \union {changed, pair})
        /\ <<pair>> \in Seq(S \union {changed, pair}) /\ <<>> \in Seq(S \union {changed, pair})
    BY <1>2
  <2> QED
    BY <1>4, <2>1 DEF save_tells, QueueInv
<1>5. CASE net_receives
  BY <1>2, <1>5, Shorter DEF net_receives, QueueInv
<1> QED
  BY <1>1, <1>3, <1>4, <1>5 DEF Next, user_step, save_step, net_step, edit, record, find_macs, complete_capture,
     capture_expires, timer, show, toggle_edge, interval, save_settings, read_hotkey, message_box, save_applies,
     save_writes, net_attempts, net_connects, net_fails, copy_starts, copy_saves, search_step, vars

(* Settings that stay what they are for the connection. *)
LEMMA SameKey ==
  ASSUME ComparedInv, UNCHANGED net, wentBack' = wentBack, transport_key(config') = transport_key(config), Told => Told'
  PROVE  ComparedInv'
BY DEF ComparedInv, Current

(* Settings that change: the network thread will be told of them. *)
LEMMA Changed ==
  ASSUME ComparedInv, NEW cfg, set_config(cfg), UNCHANGED net,
         Told' \/ (transport_key(cfg) = transport_key(config) /\ (Told => Told'))
  PROVE  ComparedInv'
BY DEF ComparedInv, Current, set_config, GoesBack

(* What is added to the queue tells the network thread. *)
LEMMA Added ==
  ASSUME QueueInv, NEW m, m.type = "ConfigChanged",
         queue' = Append(queue, m) \/ \E n : queue' = queue \o <<m>> \o <<n>>
  PROVE  \E i \in DOMAIN queue' : queue'[i].type = "ConfigChanged"
<1>1. PICK S : queue \in Seq(S)
  BY DEF QueueInv
<1>2. CASE queue' = Append(queue, m)
  BY <1>1, <1>2, Longer
<1>3. ASSUME NEW n, queue' = queue \o <<m>> \o <<n>>
      PROVE  \E i \in DOMAIN queue' : queue'[i].type = "ConfigChanged"
  <2>1. queue \in Seq(S \union {m, n}) /\ <<m>> \in Seq(S \union {m, n}) /\ <<n>> \in Seq(S \union {m, n})
    BY <1>1
  <2>2. Len(queue) + 1 \in DOMAIN queue' /\ queue'[Len(queue) + 1] = m
    BY <1>3, <2>1
  <2> QED
    BY <2>2
<1> QED
  BY <1>2, <1>3

LEMMA ComparedKept ==
  ASSUME Shapes, SettingsInv, QueueInv, ComparedInv, [Next]_vars
  PROVE  ComparedInv'
<1> USE DEF Shapes
<1>1. CASE UNCHANGED <<config, wentBack, net, queue>> /\ (Told => Told')
  BY <1>1, SameKey
<1>2. CASE UNCHANGED <<config, wentBack, net, queue, ui>>
  BY <1>1, <1>2 DEF Told
<1>3. CASE edit \/ record \/ find_macs \/ complete_capture \/ capture_expires \/ timer \/ show
  BY <1>2, <1>3 DEF edit, record, find_macs, complete_capture, capture_expires, timer, show, settingVars, histories
<1>4. CASE toggle_edge
  <2> DEFINE cfg == [config EXCEPT !.edge_switch = ~@]
  <2>1. set_config(cfg) /\ UNCHANGED <<net, ui, queue>>
    BY <1>4 DEF toggle_edge
  <2>2. transport_key(cfg) = transport_key(config)
    BY Names, Entered DEF transport_key, SettingsInv
  <2>3. Told => Told'
    BY <2>1 DEF Told
  <2> QED
    BY <2>1, <2>2, <2>3, Changed
<1>5. CASE interval
  BY <1>5, Changed DEF interval, Told
<1>6. CASE save_applies
  BY <1>6, Changed DEF save_applies, Told
<1>7. CASE save_settings \/ read_hotkey \/ message_box \/ save_writes
  <2>1. UNCHANGED <<config, wentBack, net, queue>>
    BY <1>7 DEF save_settings, read_hotkey, message_box, save_writes, settingVars, histories
  <2>2. Told => Told'
    BY <1>7, <2>1 DEF save_settings, read_hotkey, message_box, save_writes, NotSaving, Idle, Told
  <2> QED
    BY <1>1, <2>1, <2>2
<1>8. CASE interval_told
  BY <1>8, Added, SameKey DEF interval_told, Told, settingVars
<1>9. CASE save_tells
  <2> DEFINE m == [type |-> "ConfigChanged"]
             pair == [type |-> "Pair", code |-> ui.code]
  <2>1. queue \o <<m>> \o <<>> = Append(queue, m)
    BY DEF QueueInv
  <2>2. queue' = Append(queue, m) \/ queue' = queue \o <<m>> \o <<pair>>
    BY <1>9, <2>1 DEF save_tells
  <2>3. m.type = "ConfigChanged"
    OBVIOUS
  <2> HIDE DEF m, pair
  <2>4. \E i \in DOMAIN queue' : queue'[i].type = "ConfigChanged"
    BY <2>2, <2>3, Added
  <2> QED
    BY <1>9, <2>4, SameKey DEF save_tells, Told, settingVars
<1>10. CASE net_attempts
  <2>1. /\ UNCHANGED <<config, queue, ui>> /\ net'.transport = net.transport
        /\ net'.conn.key = transport_key(config)
    BY <1>10 DEF net_attempts, settingVars
  <2> QED
    BY <2>1 DEF ComparedInv, Current, Told, transport_key
<1>11. CASE net_connects \/ net_fails
  <2>1. /\ UNCHANGED <<config, queue, ui>> /\ net'.transport = net.transport
        /\ net'.conn.at # "none" =>
             net.conn.at # "none" /\ net'.conn.key = net.conn.key /\ wentBack' = wentBack
    BY <1>11 DEF net_connects, net_fails, NoConn, settingVars, histories
  <2> QED
    BY <2>1 DEF ComparedInv, Current, Told, transport_key
<1>12. CASE net_receives
  <2>1. UNCHANGED <<config, ui>> /\ queue # <<>> /\ queue' = Tail(queue)
    BY <1>12 DEF net_receives, settingVars
  <2>2. PICK S : queue \in Seq(S)
    BY DEF QueueInv
  <2>5. net'.conn # NoConn /\ ~wentBack' => ~wentBack
    BY <1>12 DEF net_receives, Remembers
  <2>3. CASE Head(queue).type = "ConfigChanged"
    <3>1. net'.transport = transport_key(config)
      BY <1>12, <2>3 DEF net_receives
    <3>2. net' = net \/ net'.conn = NoConn
      BY <1>12, <2>3 DEF net_receives, NoConn
    <3> QED
      BY <2>1, <2>5, <3>1, <3>2 DEF ComparedInv, Current, transport_key, NoConn
  <2>4. CASE Head(queue).type # "ConfigChanged"
    <3>1. /\ net'.transport = net.transport
          /\ net'.conn # NoConn => net'.conn = net.conn
      BY <1>12, <2>4 DEF net_receives, NoConn
    <3>2. Told => Told'
      <4>1. ASSUME NEW i \in DOMAIN queue, queue[i].type = "ConfigChanged"
            PROVE  \E j \in DOMAIN queue' : queue'[j].type = "ConfigChanged"
        <5>1. i # 1
          BY <2>1, <2>2, <2>4, <4>1, Shorter
        <5>2. i - 1 \in DOMAIN Tail(queue) /\ Tail(queue)[i - 1] = queue[i]
          BY <2>1, <2>2, <5>1, Shorter
        <5> QED
          BY <2>1, <4>1, <5>2
      <4> QED
        BY <2>1, <4>1 DEF Told
    <3> QED
      BY <2>1, <2>5, <3>1, <3>2 DEF ComparedInv, Current, transport_key, NoConn
  <2> QED
    BY <2>3, <2>4
<1>13. CASE copy_starts \/ copy_saves \/ search_step \/ UNCHANGED vars
  BY <1>2, <1>13 DEF copy_starts, copy_saves, search_step, vars, settingVars, histories
<1> QED
  BY <1>3, <1>4, <1>5, <1>6, <1>7, <1>8, <1>9, <1>10, <1>11, <1>12, <1>13 DEF Next, user_step, save_step, net_step

-----------------------------------------------------------------------------
(* The code to pair with *)

(* Nothing about the codes changes, nor, between two handlers, the host. *)
LEMMA SameCodes ==
  ASSUME CodesInv, Codes' \subseteq Codes \union {None}, net'.conn.code # None => net'.conn = net.conn,
         press'.nth = press.nth, ui.pc = "idle" => ui'.pc = "idle" /\ config'.mac_host = config.mac_host,
         Entering'
  PROVE  CodesInv'
<1>1. ASSUME NEW code \in Codes'
      PROVE  GoesToShown(code)'
  BY <1>1 DEF CodesInv, GoesToShown
<1>2. Connecting'
  BY DEF CodesInv, Connecting
<1> QED
  BY <1>1, <1>2 DEF CodesInv

LEMMA CodesKept ==
  ASSUME Shapes, SettingsInv, QueueInv, CodesInv, [Next]_vars
  PROVE  CodesInv'
<1> USE DEF Shapes
<1>1. CASE UNCHANGED <<ui, net, queue>> /\ press'.nth = press.nth /\ config'.mac_host = config.mac_host
  BY <1>1, SameCodes DEF CodesInv, Codes, Entering
<1>2. CASE edit \/ record \/ find_macs \/ complete_capture \/ capture_expires
  BY <1>1, <1>2 DEF edit, record, find_macs, complete_capture, capture_expires, settingVars, histories
<1>3. CASE timer \/ show
  BY <1>1, <1>3 DEF timer, show, Disturbs, settingVars
<1>4. CASE toggle_edge
  <2>1. config'.mac_host = config.mac_host
    BY <1>4, Names, Entered DEF toggle_edge, set_config, SettingsInv
  <2> QED
    BY <1>1, <1>4, <2>1 DEF toggle_edge, Disturbs
<1>5. CASE interval
  <2>1. config'.mac_host = config.mac_host
    BY <1>5, Names, Entered DEF interval, set_config, SettingsInv
  <2>2. Codes' = Codes /\ Entering'
    BY <1>5 DEF interval, Codes, CodesInv, Entering
  <2> QED
    BY <1>5, <2>1, <2>2, SameCodes DEF interval
<1>6. CASE interval_told
  <2> DEFINE m == [type |-> "ConfigChanged"]
  <2>1. PICK S : queue \in Seq(S)
    BY DEF QueueInv
  <2>2. queue' = Append(queue, m) /\ m.type # "Pair"
    BY <1>6 DEF interval_told
  <2> HIDE DEF m
  <2>3. /\ DOMAIN queue' = 1..(Len(queue) + 1) /\ DOMAIN queue = 1..Len(queue)
        /\ \A i \in DOMAIN queue : queue'[i] = queue[i]
        /\ queue'[Len(queue) + 1] = m
    BY <2>1, <2>2, Longer
  <2>4. Len(queue) \in Nat
    BY <2>1
  <2>5. Codes' \subseteq Codes
    BY <1>6, <2>2, <2>3, <2>4 DEF interval_told, Codes
  <2>6. Entering'
    BY <1>6 DEF interval_told, Disturbs, CodesInv, Entering
  <2> QED
    BY <1>6, <2>5, <2>6, SameCodes DEF interval_told, Disturbs, settingVars
<1>7. CASE save_settings
  <2>1. /\ UNCHANGED <<net, queue, config>> /\ press'.nth = press.nth + 1
        /\ ui'.cfg.mac_host = fields.mac_host
        /\ ui'.pc = "hotkeys" /\ ui'.code \in {None, [host |-> fields.mac_host, nth |-> press.nth + 1]}
    BY <1>7, Names DEF save_settings, NotSaving, settingVars, ReadNow, Usable, Numbers, HotkeyNames
  <2>2. Entering'
    BY <2>1 DEF Entering
  <2>3. \A code \in Codes' : GoesToShown(code)'
    BY <2>1 DEF CodesInv, Codes, GoesToShown
  <2>4. Connecting'
    BY <2>1 DEF CodesInv, Connecting
  <2> QED
    BY <2>2, <2>3, <2>4 DEF CodesInv
<1>8. CASE read_hotkey \/ message_box \/ save_applies \/ save_writes
  <2>1. UNCHANGED <<net, queue, press>> /\ ui.pc # "idle" /\ ui'.pc # "idle" /\ ui'.code = ui.code
    BY <1>8 DEF read_hotkey, message_box, save_applies, save_writes, histories
  <2>2. ui'.cfg.mac_host = ui.cfg.mac_host
    <3>1. IsSettings(ui.cfg) /\ IsSettings(config)
      BY <2>1 DEF SettingsInv
    <3>2. CASE read_hotkey
      <4>1. ui.todo # <<>> => Head(ui.todo) \in HotkeyNames
        OBVIOUS
      <4> QED
        BY <3>1, <3>2, <4>1, Names, Entered DEF read_hotkey
    <3>3. CASE save_applies
      <4> DEFINE read == [ui.cfg EXCEPT !.mouse_interval_ms = fields.mouse_interval_ms]
      <4>1. IsSettings(read) /\ read.mac_host = ui.cfg.mac_host
        BY <3>1, Names DEF IsSettings
      <4>2. ui'.cfg = sanitized(read)
        BY <3>3 DEF save_applies
      <4> HIDE DEF read
      <4> QED
        BY <4>1, <4>2, Names, Sanitized
    <3>4. CASE message_box \/ save_writes
      BY <3>4 DEF message_box, save_writes
    <3> QED
      BY <1>8, <3>2, <3>3, <3>4
  <2>3. Codes' = Codes /\ Entering'
    BY <2>1, <2>2 DEF Codes, CodesInv, Entering
  <2> QED
    BY <2>1, <2>3, SameCodes
<1>9. CASE save_tells
  <2> DEFINE m == [type |-> "ConfigChanged"]
             pair == [type |-> "Pair", code |-> ui.code]
  <2>1. PICK S : queue \in Seq(S)
    BY DEF QueueInv
  <2>2. queue' = queue \o <<m>> \/ (ui.code # None /\ queue' = queue \o <<m>> \o <<pair>>)
    BY <1>9, <2>1 DEF save_tells
  <2>3. m.type # "Pair" /\ pair.code = ui.code
    OBVIOUS
  <2>4. /\ UNCHANGED <<net, config>> /\ press'.nth = press.nth /\ ui.pc = "tell" /\ ui'.pc = "idle"
        /\ ui'.code = None /\ ui.cfg = config
    BY <1>9 DEF save_tells, NotSaving, settingVars, SettingsInv
  <2> HIDE DEF m, pair
  <2>5. Codes' \subseteq Codes \union IF ui.code = None THEN {} ELSE {ui.code}
    <3>1. queue \in Seq(S \union {m, pair}) /\ m \in S \union {m, pair} /\ pair \in S \union {m, pair}
      BY <2>1
    <3>2. \A i \in DOMAIN queue' :
            (i \in DOMAIN queue /\ queue'[i] = queue[i]) \/ queue'[i] = m \/ (ui.code # None /\ queue'[i] = pair)
      <4>1. \A i \in DOMAIN (queue \o <<m>>) :
              (i \in DOMAIN queue /\ (queue \o <<m>>)[i] = queue[i]) \/ (queue \o <<m>>)[i] = m
        BY <3>1, OneMore
      <4>2. \A i \in DOMAIN (queue \o <<m>> \o <<pair>>) :
              \/ i \in DOMAIN (queue \o <<m>>) /\ (queue \o <<m>> \o <<pair>>)[i] = (queue \o <<m>>)[i]
              \/ (queue \o <<m>> \o <<pair>>)[i] = pair
        BY <3>1, OneMore
      <4>3. CASE queue' = queue \o <<m>>
        BY <4>1, <4>3
      <4>4. CASE ui.code # None /\ queue' = queue \o <<m>> \o <<pair>>
        BY <4>1, <4>2, <4>4
      <4> QED
        BY <2>2, <4>3, <4>4
    <3> QED
      BY <2>3, <2>4, <3>2 DEF Codes
  <2>6. \A code \in Codes' : GoesToShown(code)'
    BY <2>4, <2>5 DEF CodesInv, Entering, GoesToShown
  <2>7. Entering' /\ Connecting'
    BY <2>4 DEF CodesInv, Entering, Connecting
  <2> QED
    BY <2>6, <2>7 DEF CodesInv
<1>10. CASE net_attempts
  <2>1. /\ UNCHANGED <<config, ui, queue, press>> /\ net'.pair_code = None
        /\ net'.conn.code = net.pair_code /\ net'.conn.key.host = config.mac_host
    BY <1>10 DEF net_attempts, transport_key, settingVars, histories
  <2>2. Codes' \subseteq Codes \union {None} /\ net.pair_code \in Codes
    BY <2>1 DEF Codes
  <2>3. \A code \in Codes' : GoesToShown(code)'
    BY <2>1, <2>2 DEF CodesInv, GoesToShown
  <2>4. Entering' /\ Connecting'
    BY <2>1, <2>2 DEF CodesInv, Entering, Connecting, GoesToShown
  <2> QED
    BY <2>3, <2>4 DEF CodesInv
<1>11. CASE net_connects \/ net_fails
  <2>1. /\ UNCHANGED <<config, ui, queue, press>> /\ net'.pair_code = net.pair_code
        /\ net'.conn.code # None => net'.conn.code = net.conn.code /\ net'.conn.key = net.conn.key
    BY <1>11 DEF net_connects, net_fails, NoConn, settingVars, histories
  <2>2. \A code \in Codes' : GoesToShown(code)'
    BY <2>1 DEF CodesInv, Codes, GoesToShown
  <2>3. Entering' /\ Connecting'
    BY <2>1 DEF CodesInv, Entering, Connecting
  <2> QED
    BY <2>2, <2>3 DEF CodesInv
<1>12. CASE net_receives
  <2>1. UNCHANGED <<config, ui, press>> /\ queue # <<>> /\ queue' = Tail(queue)
    BY <1>12 DEF net_receives, settingVars, histories
  <2>2. PICK S : queue \in Seq(S)
    BY DEF QueueInv
  <2>3. /\ net'.pair_code = net.pair_code \/ (Head(queue).type = "Pair" /\ net'.pair_code = Head(queue).code)
        /\ net'.conn = net.conn \/ net'.conn.code = None
    BY <1>12 DEF net_receives, NoConn
  <2>4. Codes' \subseteq Codes
    <3>1. 1 \in DOMAIN queue /\ queue[1] = Head(queue)
          /\ \A i \in DOMAIN queue' : i + 1 \in DOMAIN queue /\ queue'[i] = queue[i + 1]
      BY <2>1, <2>2, Shorter
    <3> QED
      BY <2>3, <3>1 DEF Codes
  <2>5. Entering'
    BY <2>1 DEF CodesInv, Entering
  <2> QED
    BY <2>1, <2>3, <2>4, <2>5, SameCodes
<1>13. CASE copy_starts \/ copy_saves \/ search_step \/ UNCHANGED vars
  BY <1>1, <1>13 DEF copy_starts, copy_saves, search_step, vars, settingVars, histories
<1> QED
  BY <1>2, <1>3, <1>4, <1>5, <1>6, <1>7, <1>8, <1>9, <1>10, <1>11, <1>12, <1>13
     DEF Next, user_step, save_step, net_step

-----------------------------------------------------------------------------
(* The invariant and what it says *)

LEMMA Starting ==
  ASSUME Init
  PROVE  IInv
<1>1. PICK start \in Starts : file = start.file /\ config = build_config(start.file, start.host)
  BY DEF Init
<1>2. IsSettings(file)
  BY <1>1, WindowConstants DEF IsSettings
<1>3. IsSettings(config) /\ config.mouse_interval_ms \in MOUSE_INTERVAL_CHOICES_MS
  <2>1. IsSettings(load(file)) /\ \A host : IsSettings([load(file) EXCEPT !.mac_host = host])
    BY <1>2, Sanitized DEF load, IsSettings
  <2>2. PICK cfg : IsSettings(cfg) /\ config = sanitized(cfg)
    BY <1>1, <2>1 DEF build_config
  <2> QED
    BY <2>2, Sanitized
<1>4. Shapes
  BY Names DEF Init, Shapes, NotSaving, NoConn
<1>5. SettingsInv
  BY <1>3 DEF Init, SettingsInv, NotSaving, Shown, IsSettings
<1>6. ShownInv
  BY DEF Init, ShownInv
<1>7. FileKept
  BY DEF Init, FileKept
<1>8. QueueInv
  BY DEF Init, QueueInv
<1>9. ComparedInv
  BY DEF Init, ComparedInv, Current, NoConn
<1>10. CodesInv
  BY DEF Init, CodesInv, Codes, Entering, GoesToShown, Connecting, NotSaving, NoConn
<1> QED
  BY <1>4, <1>5, <1>6, <1>7, <1>8, <1>9, <1>10 DEF IInv

(* IInv holds of every behaviour: the window's thread and the network      *)
(* thread keep it, whatever they interleave.                               *)
THEOREM AlwaysInv == Spec => []IInv
<1>1. Init => IInv
  BY Starting
<1>2. IInv /\ [Next]_vars => IInv'
  BY ShapesKept, SettingsKept, ShownKept, FileStaysKept, QueueKept, ComparedKept, CodesKept DEF IInv
<1> QED
  BY <1>1, <1>2, PTL DEF Spec

(* A control that the user has not touched shows what is in effect, also   *)
(* while a message box lets the tray change it (window.rs:748).            *)
THEOREM ShownAlwaysInEffect == Spec => []ShownIsInEffect
<1>1. IInv => ShownIsInEffect
  BY DEF IInv, ShownInv, ShownIsInEffect, Listening
<1> QED
  BY <1>1, AlwaysInv, PTL

(* Whatever route a setting takes, the next start finds what is in effect  *)
(* (window.rs:751, :765), but, until the next write, for a write that      *)
(* failed, another copy's, and a start with --mac and no --save.           *)
THEOREM FileAlwaysKept == Spec => []FileKept
<1>1. IInv => FileKept
  BY DEF IInv
<1> QED
  BY <1>1, AlwaysInv, PTL

(* When the network thread has caught up its connection is to the Mac in   *)
(* effect (net/mod.rs:258), but for a connection made with settings it had *)
(* yet to be told of that then went back to those it last compared with:   *)
(* until that connection ends. A pairing code goes to the Mac the window   *)
(* showed with it, unless Save was pressed since.                          *)
THEOREM AlwaysRightMac == Spec => []RightMac
<1>1. ASSUME IInv, net.conn.at = "up", queue = <<>>, Idle, ~wentBack
      PROVE  net.conn.key = transport_key(config)
  <2>1. ~Told
    BY <1>1 DEF Told, Idle
  <2> QED
    BY <1>1, <2>1 DEF IInv, ComparedInv
<1>2. IInv /\ net.conn.code # None /\ net.conn.code.nth = press.nth => net.conn.key.host = net.conn.code.host
  BY DEF IInv, CodesInv, Connecting
<1>3. IInv => RightMac
  BY <1>1, <1>2 DEF RightMac
<1> QED
  BY <1>3, AlwaysInv, PTL

-----------------------------------------------------------------------------
(* What Save puts in effect *)

(* The field that waits, or that something was recorded for, is a hotkey's. *)
CaptureInv ==
  /\ DOMAIN capture = {"for", "field", "text"}
  /\ capture.for \in {None} \union HotkeyNames /\ capture.field \in {None} \union HotkeyNames

Distinct(q) == \A i, j \in DOMAIN q : q[i] = q[j] => i = j

(* What Save is to put in effect for a setting. *)
Taken(s) == IF Usable(s, press.shown[s]) THEN press.shown[s] ELSE press.previous[s]

(* Save reads each hotkey once, from what was shown: those it has yet to   *)
(* read are still what was in effect.                                      *)
SavingInv ==
  /\ fields.mouse_interval_ms \in MOUSE_INTERVAL_CHOICES_MS
  /\ Distinct(ui.todo)
  /\ ui.pc \in {"hotkeys", "box"} /\ ~press.disturbed =>
       /\ fields = press.shown
       /\ \A s \in Settings \ {"mouse_interval_ms"} :
            ui.cfg[s] = IF s \in Range(ui.todo) THEN press.previous[s] ELSE Taken(s)
  /\ ui.pc = "box" /\ ~press.disturbed => ~Usable(Head(ui.todo), press.shown[Head(ui.todo)])

SaveInv == Shapes /\ SettingsInv /\ CaptureInv /\ SavingInv /\ SavedAsShown

LEMMA Popped ==
  ASSUME NEW S, NEW q \in Seq(S), q # <<>>, Distinct(q)
  PROVE  /\ Distinct(Tail(q)) /\ Head(q) \in S /\ Head(q) \in Range(q)
         /\ Range(Tail(q)) = Range(q) \ {Head(q)}
<1>1. \A i \in DOMAIN Tail(q) : i \in Nat /\ i + 1 \in DOMAIN q /\ Tail(q)[i] = q[i + 1]
  BY Shorter
<1>2. 1 \in DOMAIN q /\ q[1] = Head(q)
      /\ \A i \in DOMAIN q : i # 1 => i - 1 \in DOMAIN Tail(q) /\ Tail(q)[i - 1] = q[i]
  BY Shorter
<1>3. Distinct(Tail(q))
  <2> SUFFICES ASSUME NEW i \in DOMAIN Tail(q), NEW j \in DOMAIN Tail(q), Tail(q)[i] = Tail(q)[j]
               PROVE  i = j
    BY DEF Distinct
  <2>1. i + 1 = j + 1
    BY <1>1 DEF Distinct
  <2> QED
    BY <1>1, <2>1
<1>4. Range(Tail(q)) \subseteq Range(q) \ {Head(q)}
  <2> SUFFICES ASSUME NEW i \in DOMAIN Tail(q)
               PROVE  Tail(q)[i] \in Range(q) /\ Tail(q)[i] # Head(q)
    BY DEF Range
  <2>1. i \in Nat /\ i >= 1 /\ i + 1 \in DOMAIN q /\ Tail(q)[i] = q[i + 1]
    BY <1>1
  <2> QED
    BY <1>2, <2>1 DEF Range, Distinct
<1>5. Range(q) \ {Head(q)} \subseteq Range(Tail(q))
  BY <1>2 DEF Range
<1>6. Head(q) \in S
  OBVIOUS
<1>7. Head(q) \in Range(q)
  BY <1>2 DEF Range
<1> QED
  BY <1>3, <1>4, <1>5, <1>6, <1>7

LEMMA CaptureKept ==
  ASSUME CaptureInv, [Next]_vars
  PROVE  CaptureInv'
<1>1. CASE UNCHANGED capture
  BY <1>1 DEF CaptureInv
<1>2. CASE refresh_status(fields, edited, capture.for) \/ refresh_controls
  BY <1>2 DEF refresh_controls, refresh_status, CaptureInv
<1>3. CASE record
  BY <1>3 DEF record, refresh_status, CaptureInv, HotkeyNames
<1>4. CASE find_macs \/ timer \/ show \/ toggle_edge \/ interval_told \/ save_tells
  BY <1>2, <1>4 DEF find_macs, timer, show, toggle_edge, interval_told, save_tells
<1>5. CASE complete_capture \/ capture_expires
  BY <1>5 DEF complete_capture, capture_expires, CaptureInv
<1> QED
  BY <1>1, <1>3, <1>4, <1>5 DEF Next, user_step, save_step, net_step, edit, interval, save_settings, read_hotkey,
     message_box, save_applies, save_writes, net_attempts, net_connects, net_fails, net_receives, copy_starts,
     copy_saves, search_step, vars, shownVars

(* The window offers the intervals there are, and is filled with one. *)
LEMMA IntervalShown ==
  ASSUME CaptureInv, NEW shown, NEW unsaved, NEW capturing, IsSettings(shown),
         shown.mouse_interval_ms \in MOUSE_INTERVAL_CHOICES_MS,
         refresh_status(shown, unsaved, capturing)
  PROVE  fields'.mouse_interval_ms \in MOUSE_INTERVAL_CHOICES_MS
<1>1. take_capture(shown).mouse_interval_ms = shown.mouse_interval_ms /\ IsSettings(take_capture(shown))
  BY Names DEF CaptureInv, take_capture, IsSettings
<1>2. take_found(take_capture(shown)).mouse_interval_ms = shown.mouse_interval_ms
  BY <1>1, Names DEF take_found, IsSettings
<1> QED
  BY <1>2 DEF refresh_status

LEMMA IntervalShownAnew ==
  ASSUME CaptureInv, IsSettings(config'), config'.mouse_interval_ms \in MOUSE_INTERVAL_CHOICES_MS,
         refresh_controls
  PROVE  fields'.mouse_interval_ms \in MOUSE_INTERVAL_CHOICES_MS
<1>1. IsSettings(Shown(config', autostart'))
      /\ Shown(config', autostart').mouse_interval_ms = config'.mouse_interval_ms
  BY Names DEF Shown, IsSettings
<1> QED
  BY <1>1, IntervalShown DEF refresh_controls

LEMMA IntervalAlwaysShown ==
  ASSUME Shapes, SettingsInv, CaptureInv, SavingInv, [Next]_vars
  PROVE  fields'.mouse_interval_ms \in MOUSE_INTERVAL_CHOICES_MS
<1>1. fields.mouse_interval_ms \in MOUSE_INTERVAL_CHOICES_MS /\ IsSettings(fields)
  BY DEF SavingInv, SettingsInv
<1>2. IsSettings(config') /\ config'.mouse_interval_ms \in MOUSE_INTERVAL_CHOICES_MS
  BY SettingsKept DEF SettingsInv
<1>3. CASE UNCHANGED fields
  BY <1>1, <1>3
<1>4. CASE edit
  <2>1. PICK s \in Settings : \E v \in Inputs[s] : fields' = [fields EXCEPT ![s] = v]
    BY <1>4 DEF edit
  <2> QED
    BY <1>1, <2>1, Names, WindowConstants DEF IsSettings
<1>5. CASE record \/ find_macs \/ timer
  BY <1>1, <1>5, IntervalShown DEF record, find_macs, timer
<1>6. CASE show \/ toggle_edge \/ interval_told \/ save_tells
  BY <1>2, <1>6, IntervalShownAnew DEF show, toggle_edge, interval_told, save_tells
<1> QED
  BY <1>3, <1>4, <1>5, <1>6 DEF Next, user_step, save_step, net_step, complete_capture, capture_expires, interval,
     save_settings, read_hotkey, message_box, save_applies, save_writes, net_attempts, net_connects, net_fails,
     net_receives, copy_starts, copy_saves, search_step, vars, shownVars

LEMMA SavingKept ==
  ASSUME Shapes, SettingsInv, CaptureInv, SavingInv, [Next]_vars
  PROVE  SavingInv'
<1> USE DEF Shapes
<1>1. fields'.mouse_interval_ms \in MOUSE_INTERVAL_CHOICES_MS
  BY IntervalAlwaysShown
<1>2. CASE UNCHANGED <<fields, ui, press>>
  BY <1>2 DEF SavingInv, Taken
<1>3. CASE Idle /\ UNCHANGED <<ui, press>>
  BY <1>1, <1>3 DEF SavingInv, Idle
<1>4. CASE /\ UNCHANGED <<ui.pc, ui.todo, ui.cfg, press.shown, press.previous>>
           /\ ui.pc = "idle" \/ press'.disturbed \/ (~press.disturbed /\ UNCHANGED fields)
  BY <1>1, <1>4 DEF SavingInv, Taken
<1>5. CASE edit \/ record \/ find_macs
  BY <1>3, <1>5 DEF edit, record, find_macs, histories
<1>6. CASE complete_capture \/ capture_expires
  BY <1>2, <1>6 DEF complete_capture, capture_expires, histories
<1>7. ASSUME Disturbs, ui.pc \in {"idle", "box"}, UNCHANGED <<ui.pc, ui.todo, ui.cfg>>
      PROVE  SavingInv'
  <2>1. UNCHANGED <<press.shown, press.previous>>
        /\ press'.disturbed = (press.disturbed \/ (ui.pc = "box" /\ fields' # fields))
    BY <1>7 DEF Disturbs
  <2> QED
    BY <1>4, <1>7, <2>1
<1>8. CASE timer \/ show \/ toggle_edge
  BY <1>7, <1>8 DEF timer, show, toggle_edge, Command, Listening
<1>9. CASE interval_told
  <2>1. ui.pc \in {"idle", "box"} /\ UNCHANGED <<ui.pc, ui.todo, ui.cfg>>
    BY <1>9 DEF interval_told, SettingsInv
  <2> QED
    BY <1>7, <1>9, <2>1 DEF interval_told
<1>10. CASE interval
  <2>1. UNCHANGED <<ui.pc, ui.todo, ui.cfg, press, fields>>
    BY <1>10 DEF interval, shownVars
  <2> QED
    BY <2>1, <1>1 DEF SavingInv, Taken
<1>11. CASE save_settings
  <2>1. /\ ui'.pc = "hotkeys" /\ ui'.todo = HotkeySettings
        /\ ui'.cfg = [s \in Settings |-> IF s \in ReadNow /\ Usable(s, fields[s]) THEN fields[s] ELSE config[s]]
        /\ press'.shown = fields /\ press'.previous = config /\ UNCHANGED fields
    BY <1>11 DEF save_settings, NotSaving, shownVars
  <2>2. Distinct(HotkeySettings)
    BY DEF HotkeySettings, Distinct
  <2>3. ASSUME NEW s \in Settings \ {"mouse_interval_ms"}
        PROVE  ui'.cfg[s] = IF s \in Range(HotkeySettings) THEN config[s]
                            ELSE IF Usable(s, fields[s]) THEN fields[s] ELSE config[s]
    BY <2>1 DEF ReadNow
  <2> QED
    BY <1>1, <2>1, <2>2, <2>3 DEF SavingInv, Taken
<1>12. CASE read_hotkey /\ ui'.pc = "box"
  BY <1>1, <1>12 DEF read_hotkey, SavingInv, Taken, shownVars, histories
<1>13. CASE read_hotkey /\ ui'.pc # "box"
  <2> DEFINE h == Head(ui.todo)
  <2>1. /\ UNCHANGED <<fields, press>> /\ ui'.pc = "hotkeys" /\ ui.pc = "hotkeys"
        /\ ui.todo # <<>> /\ ui'.todo = Tail(ui.todo)
        /\ fields[h] = NoText \/ Usable(h, fields[h])
        /\ ui'.cfg = IF fields[h] = NoText THEN ui.cfg ELSE [ui.cfg EXCEPT ![h] = fields[h]]
    BY <1>13 DEF read_hotkey, shownVars, histories
  <2>2. /\ Distinct(ui'.todo) /\ h \in HotkeyNames /\ h \in Range(ui.todo)
        /\ Range(ui'.todo) = Range(ui.todo) \ {h}
    BY <2>1, Popped DEF SavingInv
  <2>3. fields[h] = NoText => ~Usable(h, fields[h])
    BY <2>2 DEF Usable, Numbers, HotkeyNames, HotkeySettings, Range
  <2>4. h \in Settings /\ IsSettings(ui.cfg)
    BY <2>1, <2>2, Names DEF SettingsInv
  <2> HIDE DEF h
  <2>5. ASSUME ~press.disturbed, NEW s \in Settings \ {"mouse_interval_ms"}
        PROVE  ui'.cfg[s] = IF s \in Range(ui'.todo) THEN press.previous[s] ELSE Taken(s)
    <3>1. fields = press.shown /\ ui.cfg[s] = IF s \in Range(ui.todo) THEN press.previous[s] ELSE Taken(s)
      BY <2>1, <2>5 DEF SavingInv
    <3>2. CASE s # h
      BY <2>1, <2>2, <2>4, <3>1, <3>2 DEF IsSettings
    <3>3. CASE s = h
      BY <2>1, <2>2, <2>3, <2>4, <3>1, <3>3 DEF IsSettings, Taken
    <3> QED
      BY <3>2, <3>3
  <2> QED
    BY <1>1, <2>1, <2>2, <2>5 DEF SavingInv, Taken
<1>14. CASE message_box
  <2> DEFINE h == Head(ui.todo)
  <2>1. /\ UNCHANGED <<fields, press>> /\ ui'.pc = "hotkeys" /\ ui.pc = "box"
        /\ ui.todo # <<>> /\ ui'.todo = Tail(ui.todo) /\ ui'.cfg = ui.cfg
    BY <1>14 DEF message_box, shownVars, histories
  <2>2. /\ Distinct(ui'.todo) /\ h \in Range(ui.todo)
        /\ Range(ui'.todo) = Range(ui.todo) \ {h}
    BY <2>1, Popped DEF SavingInv
  <2>3. ~press.disturbed => ~Usable(h, press.shown[h])
    BY <2>1 DEF SavingInv
  <2> HIDE DEF h
  <2> QED
    BY <1>1, <2>1, <2>2, <2>3 DEF SavingInv, Taken
<1>15. CASE save_applies \/ save_writes \/ save_tells
  <2>1. ui'.pc \in {"idle", "file", "tell"} /\ (UNCHANGED ui.todo \/ ui'.todo = <<>>)
    <3>1. CASE save_applies
      BY <3>1 DEF save_applies
    <3>2. CASE save_writes
      BY <3>2 DEF save_writes
    <3>3. CASE save_tells
      BY <3>3 DEF save_tells, NotSaving
    <3> QED
      BY <1>15, <3>1, <3>2, <3>3
  <2>2. Distinct(ui'.todo)
    BY <2>1 DEF SavingInv, Distinct
  <2> QED
    BY <1>1, <2>1, <2>2 DEF SavingInv
<1>16. CASE net_step \/ copy_starts \/ copy_saves \/ search_step \/ UNCHANGED vars
  BY <1>2, <1>16 DEF net_step, net_attempts, net_connects, net_fails, net_receives, copy_starts, copy_saves,
     search_step, vars, shownVars, histories
<1>17. ui'.pc = "box" \/ ui'.pc # "box"
  OBVIOUS
<1> QED
  BY <1>5, <1>6, <1>8, <1>9, <1>10, <1>11, <1>12, <1>13, <1>14, <1>15, <1>16, <1>17
     DEF Next, user_step, save_step

LEMMA StaysAsShown ==
  ASSUME SaveInv, [Next]_vars
  PROVE  SavedAsShown'
<1> USE DEF Shapes
<1>0. Shapes /\ SettingsInv /\ SavingInv /\ SavedAsShown
  BY DEF SaveInv
<1>1. CASE ui'.pc \notin {"file", "tell"}
  BY <1>1 DEF SavedAsShown
<1>2. CASE ui.pc \in {"file", "tell"} /\ UNCHANGED <<config, hotkeys, press>>
  BY <1>0, <1>2 DEF SavedAsShown
<1>3. CASE UNCHANGED <<ui, config, hotkeys, press>>
  BY <1>0, <1>3 DEF SavedAsShown
<1>4. CASE edit \/ record \/ find_macs \/ complete_capture \/ capture_expires
  BY <1>3, <1>4 DEF edit, record, find_macs, complete_capture, capture_expires, settingVars, histories
<1>5. CASE timer \/ show \/ toggle_edge \/ interval
  BY <1>0, <1>1, <1>5 DEF timer, show, toggle_edge, interval, Command, Listening
<1>6. CASE interval_told \/ save_settings \/ read_hotkey \/ message_box \/ save_tells
  <2>1. ASSUME interval_told
        PROVE  ui'.pc \notin {"file", "tell"}
    BY <1>0, <2>1 DEF interval_told, SettingsInv
  <2>2. ASSUME save_settings \/ read_hotkey \/ message_box \/ save_tells
        PROVE  ui'.pc \notin {"file", "tell"}
    <3>1. CASE save_settings
      BY <3>1 DEF save_settings, NotSaving
    <3>2. CASE read_hotkey
      BY <1>0, <3>2 DEF read_hotkey
    <3>3. CASE message_box
      BY <1>0, <3>3 DEF message_box
    <3>4. CASE save_tells
      BY <3>4 DEF save_tells, NotSaving
    <3> QED
      BY <2>2, <3>1, <3>2, <3>3, <3>4
  <2> QED
    BY <1>1, <1>6, <2>1, <2>2
<1>7. CASE save_applies
  <2> DEFINE cfg == [ui.cfg EXCEPT !.mouse_interval_ms = fields.mouse_interval_ms]
  <2>1. /\ ui.pc = "hotkeys" /\ ui.todo = <<>> /\ hotkeys' = set_hotkeys(config')
        /\ config' = sanitized(cfg) /\ UNCHANGED <<fields, press>>
    BY <1>7 DEF save_applies, set_config, shownVars
  <2>2. IsSettings(ui.cfg) /\ fields.mouse_interval_ms \in MOUSE_INTERVAL_CHOICES_MS
    BY <1>0, <2>1 DEF SettingsInv, SavingInv
  <2>3. IsSettings(cfg) /\ cfg.mouse_interval_ms = fields.mouse_interval_ms
        /\ \A s \in Settings \ {"mouse_interval_ms"} : cfg[s] = ui.cfg[s]
    <3>1. "mouse_interval_ms" \in Settings
      BY Names
    <3> QED
      BY <2>2, <3>1, Entered
  <2> HIDE DEF cfg
  <2>4. config' = cfg
    BY <2>1, <2>2, <2>3, Sanitized
  <2>5. ASSUME ~press.disturbed, NEW s \in Settings
        PROVE  cfg[s] = Taken(s)
    <3>1. CASE s = "mouse_interval_ms"
      <4>1. Usable(s, press.shown[s])
        BY <3>1 DEF Usable, Numbers, Range, HotkeySettings
      <4> QED
        BY <1>0, <2>1, <2>3, <2>5, <3>1, <4>1 DEF SavingInv, Taken
    <3>2. CASE s # "mouse_interval_ms"
      <4>1. Range(ui.todo) = {}
        BY <2>1 DEF Range
      <4> QED
        BY <1>0, <2>1, <2>3, <2>5, <3>2, <4>1 DEF SavingInv
    <3> QED
      BY <3>1, <3>2
  <2> QED
    BY <2>1, <2>4, <2>5 DEF SavedAsShown, Taken
<1>8. CASE save_writes
  BY <1>2, <1>8 DEF save_writes
<1>9. CASE net_step \/ copy_starts \/ copy_saves \/ search_step \/ UNCHANGED vars
  BY <1>3, <1>9 DEF net_step, net_attempts, net_connects, net_fails, net_receives, copy_starts, copy_saves,
     search_step, vars, settingVars, histories
<1> QED
  BY <1>4, <1>5, <1>6, <1>7, <1>8, <1>9 DEF Next, user_step, save_step

LEMMA SaveStarting ==
  ASSUME Init
  PROVE  SaveInv
<1>1. Shapes /\ SettingsInv
  BY Starting DEF IInv
<1>2. CaptureInv
  BY DEF Init, CaptureInv, NoCapture
<1>3. SavingInv
  <2>1. fields.mouse_interval_ms = config.mouse_interval_ms
    BY <1>1, Names DEF Init, Shown, SettingsInv, IsSettings
  <2> QED
    BY <1>1, <2>1 DEF Init, SavingInv, SettingsInv, NotSaving, Distinct
<1>4. SavedAsShown
  BY DEF Init, SavedAsShown, NotSaving
<1> QED
  BY <1>1, <1>2, <1>3, <1>4 DEF SaveInv

(* Save puts in effect what was in the window when it was pressed, each in *)
(* its place and unreadable hotkeys left out, and the hook goes by them,   *)
(* unless what is shown changed while its message box was open             *)
(* (window.rs:637, :655).                                                  *)
THEOREM AlwaysSavedAsShown == Spec => []SavedAsShown
<1>1. Init => SaveInv
  BY SaveStarting
<1>2. SaveInv /\ [Next]_vars => SaveInv'
  BY ShapesKept, SettingsKept, CaptureKept, SavingKept, StaysAsShown DEF SaveInv
<1>3. SaveInv => SavedAsShown
  BY DEF SaveInv
<1> QED
  BY <1>1, <1>2, <1>3, PTL DEF Spec
-----------------------------------------------------------------------------
(* The hosts that a search leaves                                          *)

LEMMA LargestOf ==
  ASSUME NEW n \in Nat, NEW s \in SUBSET (1..n), s # {}
  PROVE  Max(s) \in s
<1> DEFINE Largest(t) == \E x \in t : \A y \in t : x >= y
           Fails == {t \in SUBSET (1..n) : t # {} /\ ~Largest(t)}
<1>1. ASSUME Fails # {} PROVE FALSE
  <2>1. PICK m \in Fails : \A t \in Fails : t \subseteq m => t = m
    <3> DEFINE D == 1..n
    <3>1. Fails \subseteq SUBSET D /\ IsFiniteSet(D)
      BY FS_Interval
    <3> HIDE DEF Fails, D
    <3> QED
      BY <1>1, <3>1, MinimalSubset
  <2>2. PICK x \in m : TRUE
    OBVIOUS
  <2>3. \A y \in m : y \in Int
    OBVIOUS
  <2>4. CASE m = {x}
    BY <2>2, <2>3, <2>4
  <2>5. CASE m # {x}
    <3> DEFINE r == m \ {x}
    <3>1. r # {} /\ r \subseteq m /\ r # m /\ r \in SUBSET (1..n)
      BY <2>2, <2>5
    <3>2. PICK z \in r : \A y \in r : z >= y
      BY <2>1, <3>1
    <3>3. CASE z >= x
      BY <2>3, <3>2, <3>3
    <3>4. CASE ~(z >= x)
      BY <2>3, <3>2, <3>4
    <3> QED
      BY <3>3, <3>4
  <2> QED
    BY <2>4, <2>5
<1>2. \E x \in s : \A y \in s : x >= y
  BY <1>1
<1> QED
  BY <1>2 DEF Max

HostStep(hosts, m) == Add(Add(hosts, preferred_host(m)), m.address)

HostsUpTo(it, s, found) == IF s = {} THEN Nothing ELSE HostStep(it[s \ {Max(s)}], found[Max(s)])

HostIter(found) == CHOOSE it : it = [s \in SUBSET DOMAIN found |-> HostsUpTo(it, s, found)]

LEMMA HostsAre ==
  ASSUME NEW found
  PROVE  hosts_of(found) = HostIter(found)[DOMAIN found]
BY Zenon DEF hosts_of, FoldLeft, MapThenFoldSet, HostIter, HostsUpTo, HostStep

LEMMA HostAdded ==
  ASSUME NEW hosts \in Seq(Hosts), NEW m \in Macs
  PROVE  HostStep(hosts, m) \in Seq(Hosts)
<1>1. m.address \in Hosts /\ preferred_host(m) \in Hosts
  BY DEF Hosts, Addresses, preferred_host
<1>2. ASSUME NEW h \in Hosts, NEW q \in Seq(Hosts)
      PROVE  Add(q, h) \in Seq(Hosts)
  BY DEF Add
<1> QED
  BY <1>1, <1>2 DEF HostStep

(* Whoever answers, in whatever order, the hosts are those of the Macs.    *)
LEMMA HostsTyped ==
  ASSUME NEW heard \in SUBSET Macs, NEW found \in SetToSeqs(heard)
  PROVE  hosts_of(found) \in Seq(Hosts)
<1> DEFINE n == Cardinality(heard)
           D == 1..n
           pick == [s \in NonEmpty(D) |-> Max(s)]
           step == [s \in NonEmpty(D) |-> [hosts \in Seq(Hosts) |-> HostStep(hosts, found[Max(s)])]]
<1>1. n \in Nat
  BY DiscoveryConstants, FS_Subset, FS_CardinalityType
<1>2. found \in [D -> heard]
  BY Zenon DEF SetToSeqs
<1> HIDE DEF n
<1>3. \A s \in NonEmpty(D) : Max(s) \in s /\ Max(s) \in D
  BY <1>1, LargestOf DEF NonEmpty
<1>4. IsFiniteSet(D)
  BY <1>1, FS_Interval
<1>5. \A s \in NonEmpty(D) : found[Max(s)] \in Macs
  BY <1>2, <1>3
<1> HIDE DEF D
<1>6. Picks(pick, D)
  BY <1>3 DEF Picks
<1>7. step \in [NonEmpty(D) -> [Seq(Hosts) -> Seq(Hosts)]]
  <2> SUFFICES ASSUME NEW s \in NonEmpty(D)
               PROVE  [hosts \in Seq(Hosts) |-> HostStep(hosts, found[Max(s)])] \in [Seq(Hosts) -> Seq(Hosts)]
    OBVIOUS
  <2> QED
    BY <1>5, HostAdded
<1>8. Nothing \in Seq(Hosts)
  BY DEF Nothing
<1>9. PICK it \in [SUBSET D -> Seq(Hosts)] : Recurses(it, D, Nothing, pick, step)
  <2> HIDE DEF pick, step
  <2> QED
    BY <1>4, <1>6, <1>7, <1>8, RecursionExists
<1>10. ASSUME NEW s \in SUBSET D
       PROVE  it[s] = HostsUpTo(it, s, found)
  <2>1. it[s] = Value(it, s, Nothing, pick, step)
    BY <1>9 DEF Recurses
  <2>2. CASE s = {}
    BY <2>1, <2>2 DEF Value, HostsUpTo
  <2>3. CASE s # {}
    <3>1. s \in NonEmpty(D) /\ s \ {Max(s)} \in SUBSET D
      BY <2>3 DEF NonEmpty
    <3>2. it[s \ {Max(s)}] \in Seq(Hosts)
      BY <3>1
    <3>3. it[s] = step[s][it[s \ {Max(s)}]]
      BY <2>1, <2>3, <3>1 DEF Value
    <3>4. step[s][it[s \ {Max(s)}]] = HostStep(it[s \ {Max(s)}], found[Max(s)])
      BY <3>1, <3>2
    <3> QED
      BY <2>3, <3>3, <3>4 DEF HostsUpTo
  <2> QED
    BY <2>2, <2>3
<1>11. DOMAIN found = D
  BY <1>2
<1>12. it = [s \in SUBSET DOMAIN found |-> HostsUpTo(it, s, found)]
  BY <1>10, <1>11
<1> HIDE DEF pick, step
<1>13. HostIter(found) = [s \in SUBSET D |-> HostsUpTo(HostIter(found), s, found)]
  BY <1>11, <1>12, Zenon DEF HostIter
<1>14. \A s \in SUBSET D : HostIter(found)[s] = it[s]
  <2> DEFINE Differ == {s \in SUBSET D : HostIter(found)[s] # it[s]}
  <2>1. ASSUME Differ # {} PROVE FALSE
    <3>1. PICK m \in Differ : \A s \in Differ : s \subseteq m => s = m
      <4>1. Differ \subseteq SUBSET D
        OBVIOUS
      <4> HIDE DEF Differ
      <4> QED
        BY <1>4, <2>1, <4>1, MinimalSubset
    <3>2. HostIter(found)[m] = HostsUpTo(HostIter(found), m, found) /\ it[m] = HostsUpTo(it, m, found)
      BY <1>10, <1>13
    <3>3. m # {}
      BY <3>2 DEF HostsUpTo
    <3> DEFINE r == m \ {Max(m)}
    <3>4. r \in SUBSET D /\ r \subseteq m /\ r # m
      BY <1>3, <3>3 DEF NonEmpty
    <3>5. HostIter(found)[r] = it[r]
      BY <3>1, <3>4
    <3> QED
      BY <3>2, <3>3, <3>5 DEF HostsUpTo
  <2> QED
    BY <2>1
<1> QED
  BY <1>11, <1>14, HostsAre

LEMMA SearchTyped ==
  ASSUME DiscoveryTypeOK, finder_step
  PROVE  DiscoveryTypeOK'
<1>1. ASSUME NEW hosts \in Seq(Hosts), report(hosts)
      PROVE  DiscoveryTypeOK'
  BY <1>1 DEF DiscoveryTypeOK, report, NotSearching
<1>2. CASE find_probes
  <2>1. Nothing \in Seq(Hosts)
    BY DEF Nothing
  <2> QED
    BY <1>1, <1>2, <2>1 DEF find_probes, DiscoveryTypeOK
<1>3. CASE find_ends
  BY <1>1, <1>3, HostsTyped DEF find_ends
<1> QED
  BY <1>2, <1>3 DEF finder_step

LEMMA StartTyped ==
  ASSUME DiscoveryTypeOK, start_search, fresh' \in Seq(Hosts)
  PROVE  DiscoveryTypeOK'
<1>1. running' \in BOOLEAN
  BY DEF DiscoveryTypeOK, start_search
<1>2. finder' \in [pc : {"none", "probe", "listen"}, sent : SUBSET Subnets]
  BY DEF DiscoveryTypeOK, start_search, NotSearching
<1>3. searchFailures' \in 0..MaxSearchFailures
  BY DiscoveryConstants DEF DiscoveryTypeOK, start_search
<1> QED
  BY <1>1, <1>2, <1>3 DEF DiscoveryTypeOK
-----------------------------------------------------------------------------
(* The kinds of settings                                                   *)

Kind(s) ==
  CASE s = "mac_host" -> KnownHosts
    [] s = "tcp_port" -> Ports
    [] s \in {"edge_switch", "start_with_system"} -> BOOLEAN
    [] s = "mouse_interval_ms" -> MOUSE_INTERVAL_CHOICES_MS
    [] OTHER -> Texts

(* What is in effect, being saved, in the file and in the registry.        *)
SettingsTyped ==
  /\ IsConfig(config) /\ NoPort(config) /\ IsFile(file)
  /\ ui.pc # "idle" => IsConfig(ui.cfg) /\ NoPort(ui.cfg)
  /\ copy # None => IsConfig(copy)
  /\ hotkeys \in [HotkeyNames -> Hotkey] /\ autostart \in BOOLEAN

(* What is in the window. *)
ShownTyped ==
  /\ IsConfig(fields) /\ edited \subseteq Settings
  /\ capture.text \in Texts /\ ui.telling \in BOOLEAN
  /\ DiscoveryTypeOK

(* A code's number counts the presses of Save and Pair. *)
CodesTyped ==
  /\ commands \in 0..MaxCommands /\ press.nth <= commands
  /\ ui.code \in Pairing /\ net.conn.code \in Pairing
  /\ \A code \in Codes : code \in Pairing

TypeInv == SaveInv /\ QueueInv /\ SettingsTyped /\ ShownTyped /\ CodesTyped

LEMMA Kinds ==
  /\ Kind("mac_host") = KnownHosts /\ Kind("tcp_port") = Ports
  /\ Kind("edge_switch") = BOOLEAN /\ Kind("start_with_system") = BOOLEAN
  /\ Kind("mouse_interval_ms") = MOUSE_INTERVAL_CHOICES_MS
  /\ \A h \in HotkeyNames : Kind(h) = Texts
  /\ Settings = HotkeyNames \union {"mac_host", "tcp_port", "edge_switch", "start_with_system", "mouse_interval_ms"}
BY Names DEF Kind, Settings, HotkeyNames

LEMMA FileKinds ==
  ASSUME NEW c
  PROVE  IsFile(c) <=> IsSettings(c) /\ \A s \in Settings \ {"mouse_interval_ms"} : c[s] \in Kind(s)
<1>1. \A s \in Settings \ {"mouse_interval_ms"} :
        s \in HotkeyNames \/ s \in {"mac_host", "tcp_port", "edge_switch", "start_with_system"}
  BY Kinds
<1>2. /\ HotkeyNames \subseteq Settings \ {"mouse_interval_ms"}
      /\ {"mac_host", "tcp_port", "edge_switch", "start_with_system"} \subseteq Settings \ {"mouse_interval_ms"}
  BY Names
<1> QED
  BY <1>1, <1>2, Kinds DEF IsFile, IsSettings, HotkeyNames

LEMMA ConfigKinds ==
  ASSUME NEW c
  PROVE  IsConfig(c) <=> IsSettings(c) /\ \A s \in Settings : c[s] \in Kind(s)
BY FileKinds, Kinds DEF IsConfig

LEMMA InputKinds ==
  ASSUME NEW s \in Settings
  PROVE  Inputs[s] \subseteq Kind(s)
<1>1. CASE s \in HotkeyNames
  BY <1>1, Kinds DEF Texts, HotkeyNames
<1>2. CASE s \in {"mac_host", "tcp_port", "edge_switch", "start_with_system", "mouse_interval_ms"}
  BY <1>2, Kinds, WindowConstants DEF KnownHosts
<1> QED
  BY <1>1, <1>2, Kinds

LEMMA EnteredTyped ==
  ASSUME NEW c, IsConfig(c), NEW s \in Settings, NEW v \in Kind(s)
  PROVE  IsConfig([c EXCEPT ![s] = v])
BY ConfigKinds, Entered

LEMMA SanitizedTyped ==
  ASSUME NEW c, IsFile(c)
  PROVE  IsConfig(sanitized(c)) /\ sanitized(c).tcp_port = c.tcp_port
<1>1. IsSettings(c) /\ "tcp_port" \in Settings \ {"mouse_interval_ms"}
  BY Names, FileKinds
<1>2. /\ IsSettings(sanitized(c)) /\ sanitized(c).mouse_interval_ms \in MOUSE_INTERVAL_CHOICES_MS
      /\ \A s \in Settings \ {"mouse_interval_ms"} : sanitized(c)[s] = c[s]
  BY <1>1, Sanitized
<1> QED
  BY <1>1, <1>2, FileKinds DEF IsConfig

LEMMA BuiltTyped ==
  ASSUME NEW f, IsFile(f), NEW host \in KnownHosts \union {None}
  PROVE  IsConfig(build_config(f, host)) /\ build_config(f, host).tcp_port = f.tcp_port
<1>1. IsConfig(load(f)) /\ load(f).tcp_port = f.tcp_port
  BY SanitizedTyped DEF load
<1> DEFINE c == IF host = None THEN load(f) ELSE [load(f) EXCEPT !.mac_host = host]
<1>2. IsConfig(c) /\ c.tcp_port = f.tcp_port
  <2>1. CASE host = None
    BY <1>1, <2>1
  <2>2. CASE host # None
    <3>1. IsSettings(load(f)) /\ {"mac_host", "tcp_port"} \subseteq Settings
      BY <1>1, ConfigKinds, Names
    <3>2. IsConfig([load(f) EXCEPT !["mac_host"] = host])
      BY <1>1, <2>2, <3>1, Kinds, EnteredTyped
    <3>3. [load(f) EXCEPT !["mac_host"] = host]["tcp_port"] = load(f)["tcp_port"]
      BY <3>1, Entered
    <3> QED
      BY <1>1, <2>2, <3>2, <3>3
  <2> QED
    BY <2>1, <2>2
<1>3. build_config(f, host) = sanitized(c)
  BY DEF build_config
<1> HIDE DEF c
<1> QED
  BY <1>2, <1>3, SanitizedTyped DEF IsConfig

-----------------------------------------------------------------------------
(* Hotkeys as text                                                         *)

(* A sequence of l that is one of m and then one of n.                     *)
Joins(joined, S, l, s, m, t, n) ==
  /\ joined \in [1..l -> S]
  /\ \A i \in 1..m : joined[i] = s[i]
  /\ \A i \in 1..n : joined[m + i] = t[i]

LEMMA Joined ==
  ASSUME NEW S, NEW m \in Nat, NEW n \in Nat, NEW l \in Nat, NEW s, NEW t,
         l = m + n, s \in [1..m -> S], t \in [1..n -> S]
  PROVE  Joins(s \o t, S, l, s, m, t, n)
<1>1. s \in Seq(S) /\ Len(s) = m /\ t \in Seq(S) /\ Len(t) = n
  <2>1. DOMAIN s = 1..m /\ DOMAIN t = 1..n
    OBVIOUS
  <2>2. s \in Seq(S) /\ t \in Seq(S)
    BY SeqDef
  <2> QED
    BY <2>1, <2>2, LenProperties
<1>2. /\ s \o t \in Seq(S) /\ Len(s \o t) = m + n
      /\ \A i \in 1..(m + n) : (s \o t)[i] = IF i <= m THEN s[i] ELSE t[i - m]
  BY <1>1, ConcatProperties
<1>3. s \o t \in [1..(m + n) -> S]
  BY <1>2, LenProperties
<1>4. \A i \in 1..m : (s \o t)[i] = s[i]
  BY <1>2
<1>5. ASSUME NEW i \in 1..n PROVE (s \o t)[m + i] = t[i]
  <2>1. m + i \in 1..(m + n) /\ ~(m + i <= m) /\ (m + i) - m = i
    OBVIOUS
  <2>2. (s \o t)[m + i] = t[(m + i) - m]
    BY <1>2, <2>1
  <2> QED
    BY <2>1, <2>2
<1> QED
  BY <1>3, <1>4, <1>5 DEF Joins

(* The tables, as one: the named keys, the function keys and the          *)
(* characters.                                                             *)
LEMMA KeyTable ==
  /\ DOMAIN KeyNames = 1..80
  /\ \A i \in 1..20 : KeyNames[i] = VK_NAMES[i]
  /\ \A i \in 1..24 : KeyNames[20 + i] = <<FunctionKeys[i], 111 + i>>
  /\ \A i \in 1..36 : KeyNames[44 + i] = <<Alphanumerics[i], AsciiOf(i)>>
<1> DEFINE functionKeys == [n \in DOMAIN FunctionKeys |-> <<FunctionKeys[n], 111 + n>>]
           alphanumerics == [i \in DOMAIN Alphanumerics |-> <<Alphanumerics[i], AsciiOf(i)>>]
           All == Range(VK_NAMES) \union Range(functionKeys) \union Range(alphanumerics)
           front == VK_NAMES \o functionKeys
<1>1. KeyNames = front \o alphanumerics
  BY DEF KeyNames
<1>2. DOMAIN FunctionKeys = 1..24 /\ DOMAIN Alphanumerics = 1..36
  BY DEF FunctionKeys, Alphanumerics
<1>3. VK_NAMES \in [1..20 -> All]
  <2>1. VK_NAMES = [i \in 1..20 |-> VK_NAMES[i]]
    BY DEF VK_NAMES
  <2> QED
    BY <2>1 DEF Range
<1>4. functionKeys \in [1..24 -> All] /\ alphanumerics \in [1..36 -> All]
  BY <1>2 DEF Range
<1>5. /\ \A i \in 1..24 : functionKeys[i] = <<FunctionKeys[i], 111 + i>>
      /\ \A i \in 1..36 : alphanumerics[i] = <<Alphanumerics[i], AsciiOf(i)>>
  BY <1>2
<1> HIDE DEF functionKeys, alphanumerics, All
<1>6. /\ front \in [1..44 -> All]
      /\ \A i \in 1..20 : front[i] = VK_NAMES[i]
      /\ \A i \in 1..24 : front[20 + i] = functionKeys[i]
  <2>1. PICK m \in Nat, n \in Nat, l \in Nat : m = 20 /\ n = 24 /\ l = 44 /\ l = m + n
    OBVIOUS
  <2>2. VK_NAMES \in [1..m -> All] /\ functionKeys \in [1..n -> All]
    BY <1>3, <1>4, <2>1
  <2>3. Joins(front, All, l, VK_NAMES, m, functionKeys, n)
    <3>1. l = m + n
      BY <2>1
    <3> QED
      BY <3>1, <2>2, Joined
  <2> HIDE DEF front
  <2> QED
    BY <2>1, <2>3 DEF Joins
<1> HIDE DEF front
<1>8. /\ KeyNames \in [1..80 -> All]
      /\ \A i \in 1..44 : KeyNames[i] = front[i]
      /\ \A i \in 1..36 : KeyNames[44 + i] = alphanumerics[i]
  <2>1. PICK m \in Nat, n \in Nat, l \in Nat : m = 44 /\ n = 36 /\ l = 80 /\ l = m + n
    OBVIOUS
  <2>2. front \in [1..m -> All] /\ alphanumerics \in [1..n -> All]
    BY <1>4, <1>6, <2>1
  <2>3. Joins(KeyNames, All, l, front, m, alphanumerics, n)
    <3>1. l = m + n
      BY <2>1
    <3> QED
      BY <1>1, <3>1, <2>2, Joined
  <2> QED
    BY <2>1, <2>3 DEF Joins
<1>9. DOMAIN KeyNames = 1..80
  BY <1>8
<1>10. \A i \in 1..20 : KeyNames[i] = VK_NAMES[i]
  BY <1>6, <1>8
<1>11. \A i \in 1..24 : KeyNames[20 + i] = functionKeys[i]
  <2> TAKE i \in 1..24
  <2>1. 20 + i \in 1..44
    OBVIOUS
  <2> QED
    BY <1>6, <1>8, <2>1
<1>12. \A i \in 1..36 : KeyNames[44 + i] = alphanumerics[i]
  BY <1>8
<1> QED
  BY <1>5, <1>9, <1>10, <1>11, <1>12

(* The i-th name is in one of the three tables. *)
LEMMA Tables ==
  ASSUME NEW i \in 1..80
  PROVE  \/ i \in 1..20
         \/ \E j \in 1..24 : i = 20 + j
         \/ \E j \in 1..36 : i = 44 + j
<1>1. CASE i <= 20
  BY <1>1
<1>2. CASE i > 20 /\ i <= 44
  <2>1. i - 20 \in 1..24 /\ i = 20 + (i - 20)
    BY <1>2
  <2> QED
    BY <2>1
<1>3. CASE i > 44
  <2>1. i - 44 \in 1..36 /\ i = 44 + (i - 44)
    BY <1>3
  <2> QED
    BY <2>1
<1> QED
  BY <1>1, <1>2, <1>3

(* No two keys have the same name. *)
LEMMA NameIsOne == \A i, j \in DOMAIN KeyNames : KeyNames[i][1] = KeyNames[j][1] => i = j
<1>1. \A i \in 1..20 : \A j \in 1..20 : VK_NAMES[i][1] = VK_NAMES[j][1] => i = j
  BY DEF VK_NAMES
<1>2. \A i \in 1..24 : \A j \in 1..24 : FunctionKeys[i] = FunctionKeys[j] => i = j
  BY DEF FunctionKeys
<1>3. \A i \in 1..36 : \A j \in 1..36 : Alphanumerics[i] = Alphanumerics[j] => i = j
  BY DEF Alphanumerics
<1>4. \A i \in 1..20 : \A j \in 1..24 : VK_NAMES[i][1] # FunctionKeys[j]
  BY DEF VK_NAMES, FunctionKeys
<1>5. \A i \in 1..20 : \A j \in 1..36 : VK_NAMES[i][1] # Alphanumerics[j]
  BY DEF VK_NAMES, Alphanumerics
<1>6. \A i \in 1..24 : \A j \in 1..36 : FunctionKeys[i] # Alphanumerics[j]
  BY DEF FunctionKeys, Alphanumerics
<1> DEFINE name == [i \in 1..80 |-> KeyNames[i][1]]
           OfTable(i) == i \in 1..20 /\ name[i] = VK_NAMES[i][1]
           OfFunction(i, n) == i = 20 + n /\ name[i] = FunctionKeys[n]
           OfCharacter(i, n) == i = 44 + n /\ name[i] = Alphanumerics[n]
<1>7. ASSUME NEW i \in 1..80
      PROVE  \/ OfTable(i)
             \/ \E n \in 1..24 : OfFunction(i, n)
             \/ \E n \in 1..36 : OfCharacter(i, n)
  <2>1. name[i] = KeyNames[i][1]
    OBVIOUS
  <2>2. CASE i \in 1..20
    BY <2>1, <2>2, KeyTable
  <2>3. CASE \E n \in 1..24 : i = 20 + n
    <3>1. PICK n \in 1..24 : i = 20 + n
      BY <2>3
    <3>2. KeyNames[i] = <<FunctionKeys[n], 111 + n>>
      BY <3>1, KeyTable
    <3>3. OfFunction(i, n)
      BY <2>1, <3>1, <3>2
    <3> QED
      BY <3>3
  <2>4. CASE \E n \in 1..36 : i = 44 + n
    <3>1. PICK n \in 1..36 : i = 44 + n
      BY <2>4
    <3>2. KeyNames[i] = <<Alphanumerics[n], AsciiOf(n)>>
      BY <3>1, KeyTable
    <3>3. OfCharacter(i, n)
      BY <2>1, <3>1, <3>2
    <3> QED
      BY <3>3
  <2> QED
    BY <2>2, <2>3, <2>4, Tables
<1> HIDE DEF name
<1>8. ASSUME NEW i \in 1..80, NEW j \in 1..80, name[i] = name[j]
      PROVE  i = j
  <2>1. CASE OfTable(i) /\ OfTable(j)
    BY <1>8, <2>1, <1>1
  <2>2. CASE OfTable(i) /\ \E n \in 1..24 : OfFunction(j, n)
    BY <1>8, <2>2, <1>4
  <2>3. CASE OfTable(i) /\ \E n \in 1..36 : OfCharacter(j, n)
    BY <1>8, <2>3, <1>5
  <2>4. CASE (\E n \in 1..24 : OfFunction(i, n)) /\ OfTable(j)
    BY <1>8, <2>4, <1>4
  <2>5. CASE (\E n \in 1..24 : OfFunction(i, n)) /\ \E n \in 1..24 : OfFunction(j, n)
    BY <1>8, <2>5, <1>2
  <2>6. CASE (\E n \in 1..24 : OfFunction(i, n)) /\ \E n \in 1..36 : OfCharacter(j, n)
    BY <1>8, <2>6, <1>6
  <2>7. CASE (\E n \in 1..36 : OfCharacter(i, n)) /\ OfTable(j)
    BY <1>8, <2>7, <1>5
  <2>8. CASE (\E n \in 1..36 : OfCharacter(i, n)) /\ \E n \in 1..24 : OfFunction(j, n)
    BY <1>8, <2>8, <1>6
  <2>9. CASE (\E n \in 1..36 : OfCharacter(i, n)) /\ \E n \in 1..36 : OfCharacter(j, n)
    BY <1>8, <2>9, <1>3
  <2> HIDE DEF OfTable, OfFunction, OfCharacter
  <2> QED
    BY <1>7, <2>1, <2>2, <2>3, <2>4, <2>5, <2>6, <2>7, <2>8, <2>9
<1> QED
  BY <1>8, KeyTable DEF name

(* Every name is that of a key the system has. *)
LEMMA KeyCodes == \A k \in Range(KeyNames) : k[2] \in 0..255
<1> SUFFICES ASSUME NEW i \in 1..80
             PROVE  KeyNames[i][2] \in 0..255
  BY KeyTable DEF Range
<1>1. \A n \in 1..20 : VK_NAMES[n][2] \in 0..255
  BY DEF VK_NAMES
<1>2. \A n \in 1..24 : KeyNames[20 + n][2] \in 0..255
  BY KeyTable
<1>3. \A n \in 1..36 : KeyNames[44 + n][2] \in 0..255
  BY KeyTable DEF AsciiOf
<1>4. \A n \in 1..20 : KeyNames[n][2] \in 0..255
  BY <1>1, KeyTable
<1> QED
  BY <1>2, <1>3, <1>4, Tables

(* No key is called as a modifier is. *)
LEMMA NoKeyIsModifier == \A i \in DOMAIN KeyNames : ~IsModifier(KeyNames[i][1])
<1> SUFFICES ASSUME NEW i \in 1..80
             PROVE  ~IsModifier(KeyNames[i][1])
  BY KeyTable
<1>1. \A n \in 1..20 : ~IsModifier(VK_NAMES[n][1])
  BY DEF VK_NAMES, IsModifier, Modifiers, Range
<1>2. \A n \in 1..24 : ~IsModifier(FunctionKeys[n])
  BY DEF FunctionKeys, IsModifier, Modifiers, Range
<1>3. \A n \in 1..36 : ~IsModifier(Alphanumerics[n])
  BY DEF Alphanumerics, IsModifier, Modifiers, Range
<1> QED
  BY <1>1, <1>2, <1>3, KeyTable, Tables

LEMMA Spelling ==
  /\ \A g \in Groups : IsModifier(g)
  /\ \A m \in Range(Modifiers) : m[1] \in Groups /\ m[2] \intersect Groups = {m[1]}
  /\ \A g \in Groups : \E m \in Range(Modifiers) : m[1] = g
<1>1. Range(Modifiers) = {Modifiers[1], Modifiers[2], Modifiers[3], Modifiers[4]}
  BY DEF Modifiers, Range
<1>2. \A g \in Groups : IsModifier(g)
  BY <1>1 DEF Groups, IsModifier, Modifiers
<1>3. \A m \in Range(Modifiers) : m[1] \in Groups /\ m[2] \intersect Groups = {m[1]}
  BY <1>1 DEF Groups, Modifiers
<1>4. \A g \in Groups : \E m \in Range(Modifiers) : m[1] = g
  BY <1>1 DEF Groups, Modifiers
<1> QED
  BY <1>2, <1>3, <1>4

(* Whatever the text, it is parsed as a hotkey or none.                    *)
LEMMA Parsed ==
  ASSUME NEW spec
  PROVE  parse_hotkey(spec) \in Hotkey
<1> DEFINE triggers == {i \in DOMAIN spec : ~IsModifier(spec[i])}
           codes == {k[2] : k \in {n \in Range(KeyNames) : \E i \in triggers : n[1] = spec[i]}}
           mods == {m[1] : m \in {g \in Range(Modifiers) : \E i \in DOMAIN spec : spec[i] \in g[2]}}
<1>1. mods \in SUBSET Groups
  BY Spelling
<1>2. NoHotkey \in Hotkey
  BY DEF NoHotkey, Hotkey
<1>3. ASSUME codes # {}
      PROVE  (CHOOSE code \in codes : TRUE) \in 0..255
  <2>1. codes \subseteq 0..255
    BY KeyCodes
  <2> QED
    BY <1>3, <2>1
<1> QED
  BY <1>1, <1>2, <1>3 DEF parse_hotkey, Hotkey

(* A text of groups with one key at its end is parsed as just those.       *)
LEMMA WrittenIsRead ==
  ASSUME NEW spec, NEW mods \in SUBSET Groups, NEW last \in DOMAIN spec, NEW key \in DOMAIN KeyNames,
         spec[last] = KeyNames[key][1],
         \A i \in DOMAIN spec \ {last} : spec[i] \in mods,
         \A g \in mods : \E i \in DOMAIN spec : spec[i] = g
  PROVE  parse_hotkey(spec) = [mods |-> mods, vk |-> KeyNames[key][2]]
<1> DEFINE triggers == {i \in DOMAIN spec : ~IsModifier(spec[i])}
           codes == {k[2] : k \in {n \in Range(KeyNames) : \E i \in triggers : n[1] = spec[i]}}
           read == {m[1] : m \in {g \in Range(Modifiers) : \E i \in DOMAIN spec : spec[i] \in g[2]}}
<1>1. triggers = {last}
  BY NoKeyIsModifier, Spelling
<1>2. codes = {KeyNames[key][2]}
  <2>1. \A n \in Range(KeyNames) : n[1] = spec[last] => n = KeyNames[key]
    BY NameIsOne DEF Range
  <2>2. KeyNames[key] \in Range(KeyNames)
    BY DEF Range
  <2> QED
    BY <1>1, <2>1, <2>2
<1>3. read = mods
  <2>1. \A m \in Range(Modifiers) : spec[last] \notin m[2]
    BY NoKeyIsModifier DEF IsModifier
  <2>2. \A m \in Range(Modifiers) : (\E i \in DOMAIN spec : spec[i] \in m[2]) <=> m[1] \in mods
    <3> SUFFICES ASSUME NEW m \in Range(Modifiers)
                 PROVE  (\E i \in DOMAIN spec : spec[i] \in m[2]) <=> m[1] \in mods
      OBVIOUS
    <3>1. m[1] \in Groups /\ m[2] \intersect Groups = {m[1]}
      BY Spelling
    <3>2. ASSUME NEW i \in DOMAIN spec, spec[i] \in m[2] PROVE m[1] \in mods
      BY <2>1, <3>1, <3>2
    <3>3. ASSUME m[1] \in mods PROVE \E i \in DOMAIN spec : spec[i] \in m[2]
      BY <3>1, <3>3
    <3> QED
      BY <3>2, <3>3
  <2>3. \A g \in mods : \E m \in Range(Modifiers) : m[1] = g
    BY Spelling
  <2> QED
    BY <2>2, <2>3
<1>4. Cardinality(triggers) = 1
  BY <1>1, FS_Singleton
<1>5. (CHOOSE code \in codes : TRUE) = KeyNames[key][2]
  BY <1>2
<1>6. codes # {}
  BY <1>2
<1> HIDE DEF triggers, codes, read
<1>7. parse_hotkey(spec) = IF Cardinality(triggers) # 1 \/ codes = {} THEN NoHotkey
                           ELSE [mods |-> read, vk |-> CHOOSE code \in codes : TRUE]
  BY DEF parse_hotkey, triggers, codes, read
<1> QED
  BY <1>3, <1>4, <1>5, <1>6, <1>7

(* n groups, all of them, and then the key.                                *)
Spells(text, mods, n, key) ==
  /\ DOMAIN text = 1..(n + 1) /\ text[n + 1] = KeyNames[key][1]
  /\ \A i \in 1..n : text[i] \in mods
  /\ \A g \in mods : \E i \in 1..n : text[i] = g

(* The groups come first, whichever they are, and then the key.            *)
LEMMA Formatted ==
  ASSUME NEW mods \in SUBSET Groups, NEW vk, Named(vk) # {}
  PROVE  \E key \in DOMAIN KeyNames : /\ KeyNames[key][2] = vk
                                      /\ \E n \in Nat : Spells(format_hotkey(mods, vk), mods, n, key)
<1>1. PICK key \in DOMAIN KeyNames : key = Min(Named(vk)) /\ KeyNames[key][2] = vk
  <2>1. Named(vk) \subseteq Nat /\ Named(vk) # {}
    BY KeyTable DEF Named
  <2>2. \E m \in Named(vk) : \A k \in Named(vk) : m <= k
    <3> DEFINE Keys == 1..80
               Upto(k) == {i \in Keys : i <= k}
               T == {Upto(k) : k \in Named(vk)}
    <3>1. IsFiniteSet(Keys)
      <4>1. 1 \in Int /\ 80 \in Int
        OBVIOUS
      <4> QED
        BY <4>1, FS_Interval
    <3>2. \E m \in T : \A t \in T : t \subseteq m => t = m
      <4> HIDE DEF Keys
      <4>1. T \subseteq SUBSET Keys /\ T # {}
        BY <2>1
      <4> HIDE DEF T
      <4> QED
        BY <3>1, <4>1, MinimalSubset
    <3>3. PICK m \in Named(vk) : \A k \in Named(vk) : Upto(k) \subseteq Upto(m) => Upto(k) = Upto(m)
      <4> HIDE DEF Upto
      <4> QED
        BY <3>2
    <3>4. ASSUME NEW k \in Named(vk), ~(m <= k)
          PROVE  FALSE
      <4>1. k \in 1..80 /\ m \in 1..80
        BY KeyTable DEF Named
      <4>2. Upto(k) \subseteq Upto(m) /\ m \in Upto(m) /\ m \notin Upto(k)
        BY <3>4, <4>1
      <4> QED
        BY <3>3, <4>2
    <3> QED
      BY <3>4
  <2>3. Min(Named(vk)) \in Named(vk)
    BY <2>2 DEF Min
  <2> QED
    BY <2>3 DEF Named
<1> DEFINE Key == KeyNames[key][1]
           All == mods \union {Key}
<1>2. ASSUME NEW g
      PROVE  \E n \in Nat : /\ Written(mods, g) \in [1..n -> All]
                            /\ \A i \in 1..n : Written(mods, g)[i] \in mods
                            /\ g \in mods => \E i \in 1..n : Written(mods, g)[i] = g
  <2>1. CASE g \in mods
    <3>1. /\ <<g>> \in [1..1 -> All] /\ \A i \in 1..1 : <<g>>[i] \in mods
          /\ \E i \in 1..1 : <<g>>[i] = g
      BY <2>1
    <3> QED
      BY <2>1, <3>1 DEF Written
  <2>2. CASE g \notin mods
    <3>1. <<>> \in [1..0 -> All]
      OBVIOUS
    <3> QED
      BY <2>2, <3>1 DEF Written
  <2> QED
    BY <2>1, <2>2
<1> DEFINE ctrl == Written(mods, "CTRL")
           alt == Written(mods, "ALT")
           shift == Written(mods, "SHIFT")
           win == Written(mods, "WIN")
           Holds(text, n, groups) == /\ text \in [1..n -> All]
                                     /\ \A i \in 1..n : text[i] \in mods
                                     /\ \A g \in groups \intersect mods : \E i \in 1..n : text[i] = g
<1>3. /\ \E n \in Nat : Holds(ctrl, n, {"CTRL"})
      /\ \E n \in Nat : Holds(alt, n, {"ALT"})
      /\ \E n \in Nat : Holds(shift, n, {"SHIFT"})
      /\ \E n \in Nat : Holds(win, n, {"WIN"})
  BY <1>2
<1> HIDE DEF ctrl, alt, shift, win, All
<1>4. ASSUME NEW s, NEW m \in Nat, NEW G, Holds(s, m, G), NEW t, NEW n \in Nat, NEW H, Holds(t, n, H)
      PROVE  \E l \in Nat : Holds(s \o t, l, G \union H)
  <2>1. PICK l \in Nat : l = m + n
    OBVIOUS
  <2>2. PICK u : u = s \o t
    OBVIOUS
  <2>5. Joins(u, All, l, s, m, t, n)
    BY <1>4, <2>1, <2>2, Joined
  <2>3. \A i \in 1..l : u[i] \in mods
    <3> TAKE i \in 1..l
    <3>1. CASE i <= m
      BY <1>4, <2>5, <3>1 DEF Joins
    <3>2. CASE ~(i <= m)
      <4>1. i - m \in 1..n /\ i = m + (i - m)
        BY <2>1, <3>2
      <4> QED
        BY <1>4, <2>5, <4>1 DEF Joins
    <3> QED
      BY <3>1, <3>2
  <2>4. \A g \in (G \union H) \intersect mods : \E i \in 1..l : u[i] = g
    <3> TAKE g \in (G \union H) \intersect mods
    <3>1. CASE g \in G
      <4>1. PICK i \in 1..m : s[i] = g
        BY <1>4, <3>1
      <4>2. i \in 1..l
        BY <2>1
      <4> QED
        BY <2>5, <4>1, <4>2 DEF Joins
    <3>2. CASE g \in H
      <4>1. PICK i \in 1..n : t[i] = g
        BY <1>4, <3>2
      <4>2. m + i \in 1..l
        BY <2>1
      <4> QED
        BY <2>5, <4>1, <4>2 DEF Joins
    <3> QED
      BY <3>1, <3>2
  <2> QED
    <3>1. u \in [1..l -> All]
      BY <2>5 DEF Joins
    <3>2. Holds(u, l, G \union H)
      BY <2>3, <2>4, <3>1
    <3> QED
      BY <2>2, <3>2
<1>5. \E n \in Nat : Holds(ctrl \o alt \o shift \o win, n, {"CTRL"} \union {"ALT"} \union {"SHIFT"} \union {"WIN"})
  <2> HIDE DEF Holds
  <2>1. \E n \in Nat : Holds(ctrl \o alt, n, {"CTRL"} \union {"ALT"})
    BY <1>3, <1>4
  <2>2. \E n \in Nat : Holds(ctrl \o alt \o shift, n, {"CTRL"} \union {"ALT"} \union {"SHIFT"})
    BY <1>3, <1>4, <2>1
  <2> QED
    BY <1>3, <1>4, <2>2
<1>6. {"CTRL"} \union {"ALT"} \union {"SHIFT"} \union {"WIN"} = Groups
  BY DEF Groups
<1> DEFINE groups == ctrl \o alt \o shift \o win
<1>7. format_hotkey(mods, vk) = groups \o <<Key>>
  BY <1>1 DEF format_hotkey, ctrl, alt, shift, win
<1> HIDE DEF groups
<1>8. PICK n \in Nat : Holds(groups, n, Groups)
  BY <1>5, <1>6 DEF groups
<1>9. PICK one \in Nat, l \in Nat : one = 1 /\ l = n + one
  OBVIOUS
<1>10. <<Key>> \in [1..one -> All] /\ <<Key>>[1] = Key
  BY <1>9 DEF All
<1>11. PICK text : text = groups \o <<Key>>
  OBVIOUS
<1>12. Joins(text, All, l, groups, n, <<Key>>, one)
  <2>1. l = n + one
    BY <1>9
  <2> QED
    BY <1>8, <1>10, <1>11, <2>1, Joined
<1>13. DOMAIN text = 1..(n + 1) /\ text[n + 1] = Key
  BY <1>9, <1>10, <1>12 DEF Joins
<1>14. \A i \in 1..n : text[i] \in mods
  BY <1>8, <1>12 DEF Joins
<1>15. \A g \in mods : \E i \in 1..n : text[i] = g
  BY <1>8, <1>12 DEF Joins
<1>16. Spells(text, mods, n, key)
  BY <1>13, <1>14, <1>15 DEF Spells
<1> QED
  BY <1>1, <1>7, <1>11, <1>16

(* What a combination is recorded as is read as that combination.          *)
LEMMA RoundTrip ==
  ASSUME NEW mods \in SUBSET Groups, NEW vk, format_hotkey(mods, vk) # NoText
  PROVE  parse_hotkey(format_hotkey(mods, vk)) = [mods |-> mods, vk |-> vk]
<1>1. Named(vk) # {}
  BY DEF format_hotkey
<1>2. PICK key \in DOMAIN KeyNames :
        KeyNames[key][2] = vk /\ \E n \in Nat : Spells(format_hotkey(mods, vk), mods, n, key)
  BY <1>1, Formatted
<1>3. PICK n \in Nat : Spells(format_hotkey(mods, vk), mods, n, key)
  BY <1>2
<1>4. PICK text, last : text = format_hotkey(mods, vk) /\ last = n + 1
  OBVIOUS
<1>5. /\ last \in DOMAIN text /\ text[last] = KeyNames[key][1]
      /\ \A i \in DOMAIN text \ {last} : text[i] \in mods
      /\ \A g \in mods : \E i \in DOMAIN text : text[i] = g
  BY <1>3, <1>4 DEF Spells
<1>6. parse_hotkey(text) = [mods |-> mods, vk |-> KeyNames[key][2]]
  BY <1>5, WrittenIsRead
<1> QED
  BY <1>2, <1>4, <1>6

(* Nothing can be recorded for a field that, saved or loaded, is another   *)
(* combination than the one pressed: for every key and every set of        *)
(* modifiers that format_hotkey has a text for, parse_hotkey reads that    *)
(* text as them (config.rs:238, :286).                                     *)
THEOREM AlwaysRecordedFires == Spec => []RecordedFires
<1>1. Misread = {}
  BY RoundTrip DEF Misread
<1>2. RecordedFires
  BY <1>1 DEF RecordedFires
<1> QED
  BY <1>2, PTL

LEMMA HotkeysTyped ==
  ASSUME NEW cfg
  PROVE  set_hotkeys(cfg) \in [HotkeyNames -> Hotkey]
BY Parsed DEF set_hotkeys, HotkeyNames
-----------------------------------------------------------------------------
(* Everything keeps its kind *)

LEMMA SavedTyped ==
  ASSUME NEW cfg, IsConfig(cfg), IsFile(file), save(cfg)
  PROVE  IsFile(file')
BY DEF save, IsConfig

LEMMA SettingsStayTyped ==
  ASSUME TypeInv, [Next]_vars
  PROVE  SettingsTyped'
<1>1. SettingsTyped /\ ShownTyped /\ Shapes /\ SettingsInv /\ SavingInv
  BY DEF TypeInv, SaveInv
<1> USE <1>1 DEF Shapes
<1>2. CASE UNCHANGED <<settingVars, copy, ui>>
  BY <1>2 DEF SettingsTyped, settingVars, NoPort, IsConfig, IsFile
<1>3. CASE edit \/ record \/ find_macs \/ complete_capture \/ capture_expires \/ timer \/ show
  BY <1>2, <1>3 DEF edit, record, find_macs, complete_capture, capture_expires, timer, show
<1>4. CASE toggle_edge
  <2>1. "edge_switch" \in Settings /\ "tcp_port" \in Settings /\ IsSettings(config) /\ config.edge_switch \in BOOLEAN
    BY Names DEF SettingsTyped, IsConfig, IsFile, SettingsInv
  <2>2. /\ config' = [config EXCEPT !.edge_switch = ~@] /\ save(config')
        /\ UNCHANGED <<hotkeys, autostart, ui, copy>>
    BY <1>4 DEF toggle_edge, set_config
  <2>3. (~config.edge_switch) \in Kind("edge_switch")
    BY <2>1, Kinds
  <2>4. IsConfig(config') /\ config'.tcp_port = config.tcp_port
    BY <2>1, <2>2, <2>3, EnteredTyped, Entered DEF SettingsTyped
  <2>5. IsFile(file')
    BY <2>2, <2>4, SavedTyped DEF SettingsTyped
  <2> QED
    BY <2>2, <2>4, <2>5 DEF SettingsTyped, NoPort, IsConfig, IsFile
<1>5. CASE interval
  <2>1. "mouse_interval_ms" \in Settings /\ "tcp_port" \in Settings /\ IsSettings(config)
    BY Names DEF SettingsInv
  <2>2. PICK ms \in MOUSE_INTERVAL_CHOICES_MS : config' = [config EXCEPT !.mouse_interval_ms = ms] /\ save(config')
    BY <1>5 DEF interval, set_config
  <2>3. UNCHANGED <<hotkeys, autostart, ui.pc, ui.cfg, copy>>
    BY <1>5 DEF interval
  <2>4. IsConfig(config') /\ config'.tcp_port = config.tcp_port
    BY <2>1, <2>2, Kinds, EnteredTyped, Entered DEF SettingsTyped
  <2>5. IsFile(file')
    BY <2>2, <2>4, SavedTyped DEF SettingsTyped
  <2> QED
    BY <2>3, <2>4, <2>5 DEF SettingsTyped, NoPort, IsConfig, IsFile
<1>6. CASE interval_told
  <2>1. UNCHANGED <<settingVars, ui.pc, ui.cfg, copy>>
    BY <1>6 DEF interval_told
  <2> QED
    BY <2>1 DEF SettingsTyped, settingVars, NoPort, IsConfig, IsFile
<1>7. CASE save_settings
  <2>1. /\ UNCHANGED <<settingVars, copy>>
        /\ ui'.cfg = [s \in Settings |-> IF s \in ReadNow /\ Usable(s, fields[s]) THEN fields[s] ELSE config[s]]
    BY <1>7 DEF save_settings, NotSaving
  <2>2. IsConfig(ui'.cfg)
    BY <2>1, ConfigKinds DEF SettingsTyped, ShownTyped, IsSettings
  <2>3. NoPort(ui'.cfg)
    <3>1. ui'.cfg.tcp_port = config.tcp_port \/ ui'.cfg.tcp_port # 0
      BY <2>1, Names DEF Usable, Numbers, HotkeyNames, ReadNow
    <3> QED
      BY <3>1 DEF SettingsTyped, NoPort
  <2> QED
    BY <2>1, <2>2, <2>3 DEF SettingsTyped, settingVars, NoPort, IsConfig, IsFile
<1>8. CASE read_hotkey
  <2> DEFINE h == Head(ui.todo)
  <2>1. h \in HotkeyNames /\ ui.pc = "hotkeys" /\ UNCHANGED <<settingVars, copy>>
    BY <1>8 DEF read_hotkey
  <2>2. ui'.cfg = ui.cfg \/ ui'.cfg = [ui.cfg EXCEPT ![h] = fields[h]]
    BY <1>8 DEF read_hotkey
  <2>3. IsConfig(ui.cfg) /\ NoPort(ui.cfg) /\ fields[h] \in Kind(h) /\ h \in Settings /\ h # "tcp_port"
        /\ "tcp_port" \in Settings /\ IsSettings(ui.cfg)
    BY <2>1, Names, ConfigKinds DEF SettingsTyped, ShownTyped
  <2> HIDE DEF h
  <2>4. IsConfig(ui'.cfg) /\ ui'.cfg.tcp_port = ui.cfg.tcp_port
    <3>1. IsConfig([ui.cfg EXCEPT ![h] = fields[h]])
      BY <2>3, EnteredTyped
    <3>2. [ui.cfg EXCEPT ![h] = fields[h]]["tcp_port"] = ui.cfg["tcp_port"]
      BY <2>3, Entered
    <3> QED
      BY <2>2, <2>3, <3>1, <3>2
  <2>5. NoPort(ui'.cfg)
    BY <2>3, <2>4 DEF NoPort
  <2> QED
    BY <2>1, <2>4, <2>5 DEF SettingsTyped, settingVars, NoPort, IsConfig, IsFile
<1>9. CASE message_box
  <2>1. ui.pc # "idle" /\ UNCHANGED <<settingVars, copy, ui.cfg>>
    BY <1>9 DEF message_box
  <2> QED
    BY <2>1 DEF SettingsTyped, settingVars, NoPort, IsConfig, IsFile
<1>10. CASE save_applies
  <2> DEFINE cfg == [ui.cfg EXCEPT !.mouse_interval_ms = fields.mouse_interval_ms]
  <2>1. /\ ui.pc = "hotkeys" /\ config' = sanitized(cfg) /\ ui'.cfg = config'
        /\ hotkeys' = set_hotkeys(config') /\ autostart' \in {autostart, config'.start_with_system}
        /\ UNCHANGED <<file, copy>>
    BY <1>10 DEF save_applies, set_config
  <2>2. IsConfig(ui.cfg) /\ NoPort(ui.cfg) /\ IsSettings(ui.cfg)
    BY <2>1, ConfigKinds DEF SettingsTyped
  <2>3. "mouse_interval_ms" \in Settings /\ "tcp_port" \in Settings
        /\ fields.mouse_interval_ms \in Kind("mouse_interval_ms")
    BY Names, Kinds DEF SavingInv
  <2>4. IsConfig(cfg) /\ cfg.tcp_port = ui.cfg.tcp_port
    BY <2>2, <2>3, EnteredTyped, Entered
  <2> HIDE DEF cfg
  <2>5. IsConfig(config') /\ config'.tcp_port = ui.cfg.tcp_port
    BY <2>1, <2>4, SanitizedTyped DEF IsConfig
  <2>6. NoPort(config')
    BY <2>2, <2>5 DEF NoPort
  <2>7. hotkeys' \in [HotkeyNames -> Hotkey]
    BY <2>1, HotkeysTyped
  <2>8. autostart' \in BOOLEAN
    BY <2>1, <2>5 DEF SettingsTyped, IsConfig, IsFile
  <2>9. IsFile(file') /\ (copy' # None => IsConfig(copy'))
    BY <2>1 DEF SettingsTyped, IsConfig, IsFile
  <2> QED
    BY <2>1, <2>5, <2>6, <2>7, <2>8, <2>9 DEF SettingsTyped
<1>11. CASE save_writes
  <2>1. ui.pc = "file" /\ save(ui.cfg) /\ UNCHANGED <<config, hotkeys, autostart, ui.cfg, copy>>
    BY <1>11 DEF save_writes
  <2>2. IsFile(file')
    BY <2>1, SavedTyped DEF SettingsTyped
  <2> QED
    BY <2>1, <2>2 DEF SettingsTyped, NoPort, IsConfig, IsFile
<1>12. CASE save_tells
  <2>1. ui'.pc = "idle" /\ UNCHANGED <<settingVars, copy>>
    BY <1>12 DEF save_tells, NotSaving
  <2> QED
    BY <2>1 DEF SettingsTyped, settingVars, NoPort, IsConfig, IsFile
<1>13. CASE net_step \/ search_step \/ UNCHANGED vars
  BY <1>2, <1>13 DEF net_step, net_attempts, net_connects, net_fails, net_receives, search_step, vars
<1>14. CASE copy_starts
  <2>1. PICK host \in Hosts : copy' = build_config(file, host)
    BY <1>14 DEF copy_starts
  <2>2. IsConfig(copy')
    BY <2>1, BuiltTyped DEF SettingsTyped, KnownHosts
  <2> QED
    BY <1>14, <2>2 DEF copy_starts, SettingsTyped, settingVars, NoPort, IsConfig, IsFile
<1>15. CASE copy_saves
  BY <1>15 DEF copy_saves, SettingsTyped, NoPort, IsConfig, IsFile
<1> QED
  BY <1>3, <1>4, <1>5, <1>6, <1>7, <1>8, <1>9, <1>10, <1>11, <1>12, <1>13, <1>14, <1>15
     DEF TypeInv, Next, user_step, save_step

(* The window is filled with settings, with a host that was found and with *)
(* a combination that was recorded.                                        *)
LEMMA FilledTyped ==
  ASSUME CaptureInv, ShownTyped, NEW shown, IsConfig(shown), NEW unsaved \in SUBSET Settings, NEW capturing,
         refresh_status(shown, unsaved, capturing)
  PROVE  /\ IsConfig(fields') /\ edited' \subseteq Settings
         /\ capture'.text \in Texts /\ fresh' \in Seq(Hosts)
<1>1. IsConfig(take_capture(shown))
  <2>1. capture.field # None => capture.field \in Settings /\ capture.text \in Kind(capture.field)
    BY Names, Kinds DEF CaptureInv, ShownTyped
  <2> QED
    BY <2>1, EnteredTyped DEF take_capture
<1> DEFINE taken == take_capture(shown)
<1>2. IsConfig(taken)
  BY <1>1
<1> HIDE DEF taken
<1>3. IsConfig(take_found(taken))
  <2>1. fresh # Nothing => fresh[1] \in Hosts
    BY DEF ShownTyped, DiscoveryTypeOK, Nothing
  <2>2. fresh # Nothing => fresh[1] \in Kind("mac_host")
    BY <2>1, Kinds DEF KnownHosts
  <2>3. "mac_host" \in Settings
    BY Names
  <2> QED
    BY <1>2, <2>2, <2>3, EnteredTyped DEF take_found
<1>4. IsConfig(fields')
  BY <1>3 DEF refresh_status, taken
<1>5. edited' \subseteq Settings /\ capture'.text \in Texts /\ fresh' \in Seq(Hosts)
  BY DEF refresh_status, CaptureInv, Texts, Nothing
<1> QED
  BY <1>4, <1>5

LEMMA FilledAnewTyped ==
  ASSUME CaptureInv, ShownTyped, IsConfig(config'), autostart' \in BOOLEAN, refresh_controls
  PROVE  /\ IsConfig(fields') /\ edited' \subseteq Settings
         /\ capture'.text \in Texts /\ fresh' \in Seq(Hosts)
<1>1. IsConfig(Shown(config', autostart'))
  BY Names, Kinds, EnteredTyped DEF Shown
<1> QED
  BY <1>1, FilledTyped DEF refresh_controls

LEMMA ShownStaysTyped ==
  ASSUME TypeInv, [Next]_vars
  PROVE  ShownTyped'
<1>1. ShownTyped /\ Shapes /\ CaptureInv
  BY DEF TypeInv, SaveInv
<1>2. IsConfig(config') /\ autostart' \in BOOLEAN
  BY SettingsStayTyped DEF SettingsTyped
<1> USE <1>1
<1>3. CASE UNCHANGED <<fields, edited, capture.text, ui.telling, fresh, running, finder, searchFailures>>
  BY <1>3 DEF ShownTyped, IsConfig, IsFile, DiscoveryTypeOK
<1>4. ASSUME ui'.telling \in BOOLEAN, UNCHANGED finderVars,
             IsConfig(fields'), edited' \subseteq Settings, capture'.text \in Texts, fresh' \in Seq(Hosts)
      PROVE  ShownTyped'
  BY <1>4 DEF ShownTyped, DiscoveryTypeOK, finderVars
<1>5. CASE edit
  <2>1. PICK s \in Settings : \E v \in Inputs[s] : fields' = [fields EXCEPT ![s] = v] /\ edited' = edited \union {s}
    BY <1>5 DEF edit
  <2>2. PICK v \in Inputs[s] : fields' = [fields EXCEPT ![s] = v] /\ edited' = edited \union {s}
    BY <2>1
  <2>3. v \in Kind(s)
    BY InputKinds
  <2>4. IsConfig(fields') /\ edited' \subseteq Settings
    BY <2>2, <2>3, EnteredTyped DEF ShownTyped
  <2> QED
    BY <1>4, <1>5, <2>4 DEF edit, ShownTyped, DiscoveryTypeOK
<1>6. CASE record \/ timer
  <2>1. \E capturing : refresh_status(fields, edited, capturing)
    BY <1>6 DEF record, timer
  <2>2. UNCHANGED <<ui, finderVars>>
    BY <1>6 DEF record, timer
  <2> QED
    BY <1>4, <2>1, <2>2, FilledTyped DEF ShownTyped
<1>7. CASE find_macs
  <2>1. refresh_status(fields, edited, capture.for) /\ UNCHANGED ui /\ start_search
    BY <1>7 DEF find_macs
  <2>2. /\ IsConfig(fields') /\ edited' \subseteq Settings
        /\ capture'.text \in Texts /\ fresh' \in Seq(Hosts)
    BY <2>1, FilledTyped DEF ShownTyped
  <2>3. DiscoveryTypeOK'
    BY <2>1, <2>2, StartTyped DEF ShownTyped
  <2> QED
    BY <2>1, <2>2, <2>3 DEF ShownTyped
<1>8. CASE complete_capture
  <2>1. capture'.text \in Texts
    BY <1>8 DEF complete_capture, Texts
  <2> QED
    BY <1>4, <1>8, <2>1 DEF complete_capture, ShownTyped, DiscoveryTypeOK, IsConfig, IsFile
<1>9. CASE capture_expires
  <2>1. UNCHANGED capture.text
    BY <1>9 DEF capture_expires, CaptureInv
  <2> QED
    BY <1>3, <1>9, <2>1 DEF capture_expires, finderVars
<1>10. CASE show \/ toggle_edge
  BY <1>2, <1>4, <1>10, FilledAnewTyped DEF show, toggle_edge, ShownTyped
<1>11. CASE interval \/ interval_told
  <2>1. ui'.telling \in BOOLEAN /\ UNCHANGED finderVars
    BY <1>11 DEF interval, interval_told, Shapes
  <2>2. CASE interval
    BY <1>4, <2>1, <2>2 DEF interval, shownVars, ShownTyped, DiscoveryTypeOK, IsConfig, IsFile
  <2>3. CASE interval_told
    BY <1>2, <1>4, <2>1, <2>3, FilledAnewTyped DEF interval_told
  <2> QED
    BY <1>11, <2>2, <2>3
<1>12. CASE save_settings \/ read_hotkey \/ message_box \/ save_applies \/ save_writes
  <2>1. UNCHANGED <<shownVars, finderVars>>
    BY <1>12 DEF save_settings, read_hotkey, message_box, save_applies, save_writes
  <2>2. ui'.telling \in BOOLEAN
    <3>1. CASE save_settings
      BY <3>1 DEF save_settings, NotSaving
    <3>2. CASE read_hotkey
      BY <3>2 DEF read_hotkey, Shapes, ShownTyped
    <3>3. CASE message_box
      BY <3>3 DEF message_box, Shapes, ShownTyped
    <3>4. CASE save_applies \/ save_writes
      BY <3>4 DEF save_applies, save_writes, Shapes, ShownTyped
    <3> QED
      BY <1>12, <3>1, <3>2, <3>3, <3>4
  <2> QED
    BY <1>4, <2>1, <2>2 DEF shownVars, ShownTyped, DiscoveryTypeOK, IsConfig, IsFile
<1>13. CASE save_tells
  <2>1. ui'.telling \in BOOLEAN
    BY <1>13 DEF save_tells, NotSaving
  <2> QED
    BY <1>2, <1>4, <1>13, <2>1, FilledAnewTyped DEF save_tells
<1>14. CASE net_step \/ copy_starts \/ copy_saves \/ UNCHANGED vars
  BY <1>3, <1>14 DEF net_step, net_attempts, net_connects, net_fails, net_receives, copy_starts, copy_saves, vars,
     shownVars, finderVars
<1>15. CASE search_step
  <2>1. DiscoveryTypeOK'
    BY <1>15, SearchTyped DEF search_step, ShownTyped
  <2> QED
    BY <1>15, <2>1 DEF search_step, ShownTyped, IsConfig, IsFile
<1> QED
  BY <1>5, <1>6, <1>7, <1>8, <1>9, <1>10, <1>11, <1>12, <1>13, <1>14, <1>15
     DEF TypeInv, Next, user_step, save_step
-----------------------------------------------------------------------------
(* A code keeps its kind on its way                                        *)

LEMMA CodesStayTyped ==
  ASSUME TypeInv, [Next]_vars
  PROVE  CodesTyped'
<1>1. /\ Shapes /\ SettingsInv /\ QueueInv /\ CodesTyped /\ MaxCommands \in Nat
      /\ None \in Pairing /\ fields.mac_host \in KnownHosts
  BY WindowConstants DEF TypeInv, SaveInv, Pairing, ShownTyped, IsConfig, IsFile
<1>2. Codes \subseteq Pairing /\ press.nth \in Nat /\ commands \in 0..MaxCommands /\ press.nth <= commands
  BY <1>1 DEF CodesTyped, Shapes
<1>3. ASSUME commands' \in {commands, commands + 1}, commands' <= MaxCommands, press'.nth = press.nth,
             ui'.code \in Pairing, net'.conn.code \in Pairing, Codes' \subseteq Pairing
      PROVE  CodesTyped'
  BY <1>1, <1>2, <1>3 DEF CodesTyped
<1>4. commands <= MaxCommands
  BY <1>1, <1>2
<1>5. CASE /\ UNCHANGED <<ui.code, net, queue, press.nth>>
           /\ commands' = commands \/ (commands < MaxCommands /\ commands' = commands + 1)
  <2>1. Codes' = Codes
    BY <1>5 DEF Codes
  <2> QED
    BY <1>1, <1>2, <1>3, <1>5, <2>1 DEF CodesTyped
<1>6. CASE edit \/ record \/ find_macs \/ complete_capture \/ capture_expires
  BY <1>5, <1>6 DEF edit, record, find_macs, complete_capture, capture_expires, histories, countVars
<1>7. CASE timer \/ show \/ toggle_edge
  <2>1. UNCHANGED <<ui, net, queue>> /\ Disturbs
    BY <1>7 DEF timer, show, toggle_edge
  <2>2. press'.nth = press.nth
    BY <1>1, <2>1 DEF Disturbs, Shapes
  <2>3. commands' = commands \/ (commands < MaxCommands /\ commands' = commands + 1)
    BY <1>7 DEF timer, show, toggle_edge, Command, countVars
  <2> QED
    BY <1>5, <2>1, <2>2, <2>3
<1>8. CASE interval
  <2>1. UNCHANGED <<ui.code, net, queue, press.nth>>
    BY <1>1, <1>8 DEF interval, Shapes
  <2> QED
    BY <1>5, <1>8, <2>1 DEF interval, Command
<1>9. CASE interval_told
  <2> DEFINE m == [type |-> "ConfigChanged"]
  <2>1. PICK S : queue \in Seq(S)
    BY <1>1 DEF QueueInv
  <2>2. queue' = Append(queue, m) /\ m.type # "Pair"
    BY <1>9 DEF interval_told
  <2>3. UNCHANGED <<net, ui.code, press.nth, commands>>
    BY <1>1, <1>9 DEF interval_told, Disturbs, countVars, Shapes
  <2> HIDE DEF m
  <2>4. /\ DOMAIN queue' = 1..(Len(queue) + 1) /\ DOMAIN queue = 1..Len(queue)
        /\ \A i \in DOMAIN queue : queue'[i] = queue[i]
        /\ queue'[Len(queue) + 1] = m /\ Len(queue) \in Nat
    BY <2>1, <2>2, Longer
  <2>5. Codes' \subseteq Codes
    BY <2>2, <2>3, <2>4 DEF Codes
  <2> QED
    BY <1>1, <1>2, <1>3, <1>4, <2>3, <2>5 DEF CodesTyped
<1>10. CASE save_settings
  <2>1. /\ UNCHANGED <<net, queue>> /\ press'.nth = press.nth + 1
        /\ commands < MaxCommands /\ commands' = commands + 1
        /\ ui'.code \in {None, [host |-> fields.mac_host, nth |-> press.nth + 1]}
    BY <1>10 DEF save_settings, NotSaving
  <2>2. press.nth + 1 \in 1..MaxCommands
    BY <1>1, <1>2, <2>1
  <2>3. ui'.code \in Pairing
    BY <1>1, <2>1, <2>2 DEF Pairing
  <2>4. Codes' = Codes /\ net'.conn.code = net.conn.code
    BY <2>1 DEF Codes
  <2> QED
    BY <1>1, <1>2, <2>1, <2>3, <2>4 DEF CodesTyped
<1>11. CASE read_hotkey \/ message_box \/ save_applies \/ save_writes
  <2>1. UNCHANGED <<net, queue, press, commands>> /\ ui'.code = ui.code
    BY <1>1, <1>11 DEF read_hotkey, message_box, save_applies, save_writes, histories, countVars, Shapes
  <2> QED
    BY <1>5, <2>1
<1>12. CASE save_tells
  <2> DEFINE m == [type |-> "ConfigChanged"]
             pair == [type |-> "Pair", code |-> ui.code]
  <2>1. PICK S : queue \in Seq(S)
    BY <1>1 DEF QueueInv
  <2>2. queue' = queue \o <<m>> \/ queue' = queue \o <<m>> \o <<pair>>
    BY <1>12, <2>1 DEF save_tells
  <2>3. m.type # "Pair" /\ pair.code = ui.code
    OBVIOUS
  <2>4. UNCHANGED <<net, press.nth, commands>> /\ ui'.code = None
    BY <1>12 DEF save_tells, NotSaving, countVars
  <2> HIDE DEF m, pair
  <2>5. queue \in Seq(S \union {m, pair}) /\ m \in S \union {m, pair} /\ pair \in S \union {m, pair}
    BY <2>1
  <2>6. \A i \in DOMAIN (queue \o <<m>>) :
          (i \in DOMAIN queue /\ (queue \o <<m>>)[i] = queue[i]) \/ (queue \o <<m>>)[i] = m
    BY <2>5, OneMore
  <2>7. \A i \in DOMAIN (queue \o <<m>> \o <<pair>>) :
          \/ i \in DOMAIN (queue \o <<m>>) /\ (queue \o <<m>> \o <<pair>>)[i] = (queue \o <<m>>)[i]
          \/ (queue \o <<m>> \o <<pair>>)[i] = pair
    BY <2>5, OneMore
  <2>8. \A i \in DOMAIN queue' : (i \in DOMAIN queue /\ queue'[i] = queue[i]) \/ queue'[i] = m \/ queue'[i] = pair
    BY <2>2, <2>6, <2>7
  <2>9. Codes' \subseteq Codes \union {ui.code}
    BY <2>3, <2>4, <2>8 DEF Codes
  <2> QED
    BY <1>1, <1>2, <1>3, <1>4, <2>4, <2>9 DEF CodesTyped
<1>13. CASE net_attempts \/ net_connects \/ net_fails
  <2>1. UNCHANGED <<ui, queue, press, commands>>
    BY <1>13 DEF net_attempts, net_connects, net_fails, histories, countVars
  <2>2. net'.pair_code \in {None, net.pair_code} /\ net'.conn.code \in {None, net.pair_code, net.conn.code}
    <3>1. CASE net_attempts
      BY <1>1, <3>1 DEF net_attempts, Shapes
    <3>2. CASE net_connects
      BY <1>1, <3>2 DEF net_connects, Shapes
    <3>3. CASE net_fails
      BY <1>1, <3>3 DEF net_fails, NoConn, Shapes
    <3> QED
      BY <1>13, <3>1, <3>2, <3>3
  <2>3. net.pair_code \in Codes /\ Codes' \subseteq Codes \union {None}
    BY <2>1, <2>2 DEF Codes
  <2> QED
    BY <1>1, <1>2, <1>3, <1>4, <2>1, <2>2, <2>3 DEF CodesTyped
<1>14. CASE net_receives
  <2>1. UNCHANGED <<ui, press, commands>> /\ queue # <<>> /\ queue' = Tail(queue)
    BY <1>14 DEF net_receives, histories, countVars
  <2>2. PICK S : queue \in Seq(S)
    BY <1>1 DEF QueueInv
  <2>3. /\ net'.pair_code = net.pair_code \/ (Head(queue).type = "Pair" /\ net'.pair_code = Head(queue).code)
        /\ net'.conn.code \in {None, net.conn.code}
    BY <1>1, <1>14 DEF net_receives, NoConn, Shapes
  <2>4. 1 \in DOMAIN queue /\ queue[1] = Head(queue)
        /\ \A i \in DOMAIN queue' : i + 1 \in DOMAIN queue /\ queue'[i] = queue[i + 1]
    BY <2>1, <2>2, Shorter
  <2>5. Codes' \subseteq Codes
    BY <2>3, <2>4 DEF Codes
  <2> QED
    BY <1>1, <1>2, <1>3, <1>4, <2>1, <2>3, <2>5 DEF CodesTyped
<1>15. CASE copy_starts \/ copy_saves \/ search_step \/ UNCHANGED vars
  BY <1>5, <1>15 DEF copy_starts, copy_saves, search_step, vars, histories, countVars
<1> QED
  BY <1>6, <1>7, <1>8, <1>9, <1>10, <1>11, <1>12, <1>13, <1>14, <1>15
     DEF TypeInv, Next, user_step, save_step, net_step

LEMMA TypeStarting ==
  ASSUME Init
  PROVE  TypeInv
<1>1. PICK start \in Starts : file = start.file /\ autostart = start.autostart
                              /\ config = build_config(start.file, start.host)
  BY DEF Init
<1>2. IsFile(file) /\ autostart \in BOOLEAN
  BY <1>1, WindowConstants DEF IsFile, KnownHosts, Texts
<1>3. start.host \in KnownHosts \union {None}
  BY DEF KnownHosts
<1>4. IsConfig(config) /\ config.tcp_port = start.file.tcp_port
  BY <1>1, <1>2, <1>3, BuiltTyped
<1>5. SettingsTyped
  <2>1. NoPort(config)
    BY <1>4 DEF NoPort
  <2>2. hotkeys \in [HotkeyNames -> Hotkey]
    BY HotkeysTyped DEF Init
  <2> QED
    BY <1>2, <1>4, <2>1, <2>2 DEF Init, SettingsTyped, NotSaving
<1>6. ShownTyped
  <2>1. IsConfig(fields)
    BY <1>2, <1>4, Names, Kinds, EnteredTyped DEF Init, Shown
  <2>2. DiscoveryTypeOK
    <3>1. fresh = <<>> /\ <<>> \in Seq(Hosts) /\ running = FALSE
      BY DEF Init, DiscoveryInit, Nothing
    <3>2. finder \in [pc : {"none", "probe", "listen"}, sent : SUBSET Subnets]
      BY DEF Init, DiscoveryInit, NotSearching
    <3>3. searchFailures \in 0..MaxSearchFailures
      BY DiscoveryConstants DEF Init, DiscoveryInit
    <3> QED
      BY <3>1, <3>2, <3>3 DEF DiscoveryTypeOK
  <2> QED
    BY <2>1, <2>2 DEF Init, ShownTyped, NoCapture, NotSaving, Texts
<1>7. CodesTyped
  <2>1. Codes = {None} /\ None \in Pairing
    BY DEF Init, Codes, Pairing
  <2> QED
    BY <2>1, WindowConstants DEF Init, CodesTyped, NotSaving, NoConn
<1>8. SaveInv /\ QueueInv
  BY SaveStarting, Starting DEF IInv
<1> QED
  BY <1>5, <1>6, <1>7, <1>8 DEF TypeInv

(* Whatever is entered, found, recorded or in the file, what is in effect, *)
(* shown, saved or loaded are settings of the kind expected: an interval   *)
(* the sender has, a host that is known, a hotkey or none, and a port it   *)
(* can connect to unless the file had none (config.rs:92, window.rs:622).  *)
THEOREM TypeCorrect == Spec => []TypeOK
<1>1. Init => TypeInv
  BY TypeStarting
<1>2. TypeInv /\ [Next]_vars => TypeInv'
  <2>1. ASSUME TypeInv, [Next]_vars
        PROVE  SaveInv'
    BY <2>1, ShapesKept, SettingsKept, CaptureKept, SavingKept, StaysAsShown DEF TypeInv, SaveInv
  <2> QED
    BY <2>1, QueueKept, SettingsStayTyped, ShownStaysTyped, CodesStayTyped DEF TypeInv
<1>3. TypeInv => TypeOK
  BY DEF TypeInv, SaveInv, Shapes, CaptureInv, SettingsTyped, ShownTyped, CodesTyped, Codes, TypeOK, HotkeyNames
<1> QED
  BY <1>1, <1>2, <1>3, PTL DEF Spec

-----------------------------------------------------------------------------
(* Finding a Mac.                                                           *)

(* A search counts as running exactly while its thread runs, or when one   *)
(* could not be started (discovery.rs:282-329): every way out of the       *)
(* thread clears the flag, and nothing else does, so Find is never         *)
(* disabled without a search that will end. What is left of SearchEnds is  *)
(* that the thread is scheduled.                                           *)
SearchIsRun ==
  /\ running <=> finder.pc # "none" \/ searchFailures > 0
  /\ searchFailures \in Nat /\ (searchFailures > 0 => finder.pc = "none")

THEOREM SearchAlwaysRun == Spec => []SearchIsRun
<1>1. Init => SearchIsRun
  BY DEF Init, DiscoveryInit, SearchIsRun, NotSearching
<1>2. ASSUME SearchIsRun, [Next]_vars
      PROVE  SearchIsRun'
  <2>1. CASE UNCHANGED <<running, finder, searchFailures>>
    BY <1>2, <2>1 DEF SearchIsRun
  <2>2. CASE start_search
    BY <1>2, <2>2 DEF SearchIsRun, start_search, NotSearching
  <2>3. CASE finder_step
    <3>1. finder.pc \in {"probe", "listen"} /\ searchFailures' = searchFailures
      BY <2>3 DEF finder_step, find_probes, find_ends, report
    <3>2. \/ running' = FALSE /\ finder'.pc = "none"
          \/ running' = running /\ finder'.pc = "listen"
      BY <2>3 DEF finder_step, find_probes, find_ends, report, NotSearching
    <3> QED
      BY <1>2, <3>1, <3>2 DEF SearchIsRun
  <2>4. UNCHANGED finderVars => UNCHANGED <<running, finder, searchFailures>>
    BY DEF finderVars
  <2>5. CASE find_macs
    BY <2>1, <2>2, <2>5 DEF find_macs
  <2>6. CASE user_step \/ interval_told
    <3>1. edit \/ record \/ complete_capture \/ capture_expires \/ timer \/ show \/ toggle_edge
              \/ interval \/ interval_told => UNCHANGED finderVars
      BY DEF edit, record, complete_capture, capture_expires, timer, show, toggle_edge, interval, interval_told
    <3> QED
      BY <2>1, <2>4, <2>5, <2>6, <3>1 DEF user_step
  <2>7. CASE save_step
    <3>1. UNCHANGED finderVars
      BY <2>7 DEF save_step, save_settings, read_hotkey, message_box, save_applies, save_writes, save_tells
    <3> QED
      BY <2>1, <2>4, <3>1
  <2>8. CASE net_step \/ copy_starts \/ copy_saves
    <3>1. UNCHANGED finderVars
      BY <2>8 DEF net_step, net_attempts, net_connects, net_fails, net_receives, copy_starts, copy_saves
    <3> QED
      BY <2>1, <2>4, <3>1
  <2>9. CASE UNCHANGED vars
    BY <2>1, <2>4, <2>9 DEF vars
  <2>10. CASE search_step
    BY <2>3, <2>10 DEF search_step
  <2> QED
    BY <1>2, <2>5, <2>6, <2>7, <2>8, <2>9, <2>10 DEF Next, user_step
<1> QED
  BY <1>1, <1>2, PTL DEF Spec
=============================================================================
