----------------------------- MODULE MCWindow -----------------------------
(* Window for TLC: two Macs, each on its own subnet, one or two values to  *)
(* enter per setting, and a file that is absent or has a bad interval.     *)
EXTENDS Window

TwoMacs == {[address |-> "10.0.0.2", name |-> "mac.local", subnet |-> 1],
            [address |-> "10.1.0.3", name |-> "", subnet |-> 2]}

CtrlAltLeft  == <<"CTRL", "ALT", "LEFT">>
CtrlAltRight == <<"CTRL", "ALT", "RIGHT">>
Escape       == <<"CTRL", "ALT", "SHIFT", "ESC">>
AltF5        == <<"ALT", "F5">>
Nonsense     == <<"CTRL", "NOSUCHKEY">>

Entered == [s \in Settings |->
  CASE s = "mac_host" -> {"", "other.local"}
    [] s = "tcp_port" -> {0, 47831}
    [] s = "mouse_interval_ms" -> {2, 4}
    [] s = "hotkey_switch_to_mac" -> {Nonsense, AltF5}
    [] s = "hotkey_switch_to_windows" -> {NoText}
    [] s = "hotkey_emergency_local" -> {AltF5}
    [] OTHER -> BOOLEAN]

Default == [s \in Settings |->
  CASE s = "mac_host" -> ""
    [] s = "tcp_port" -> 47821
    [] s = "mouse_interval_ms" -> 2
    [] s = "hotkey_switch_to_mac" -> CtrlAltLeft
    [] s = "hotkey_switch_to_windows" -> CtrlAltRight
    [] s = "hotkey_emergency_local" -> Escape
    [] OTHER -> FALSE]

Known  == [Default EXCEPT !.mac_host = "10.0.0.2", !.mouse_interval_ms = 3]
ThreeStarts == {[file |-> Default, host |-> None, autostart |-> TRUE],
                [file |-> Known, host |-> None, autostart |-> FALSE],
                [file |-> Known, host |-> "10.1.0.3", autostart |-> FALSE]}

TwoCombinations == {[mods |-> {"WIN"}, vk |-> 27], [mods |-> {}, vk |-> 255]}
=============================================================================
