------------------------------- MODULE Hotkeys -------------------------------
(***************************************************************************)
(* Hotkeys as text (windows-sender/src/config.rs): what the settings       *)
(* window reads and what it writes for a combination that was pressed.     *)
(* A text is the sequence of its tokens, the letter case left out.         *)
(***************************************************************************)
EXTENDS Integers, FiniteSets, Sequences, SequencesExt

VK_NAMES ==
  << <<"LEFT", 37>>, <<"UP", 38>>, <<"RIGHT", 39>>, <<"DOWN", 40>>, <<"ESCAPE", 27>>, <<"ESC", 27>>,
     <<"SPACE", 32>>, <<"TAB", 9>>, <<"ENTER", 13>>, <<"RETURN", 13>>, <<"BACKSPACE", 8>>,
     <<"DELETE", 46>>, <<"INSERT", 45>>, <<"HOME", 36>>, <<"END", 35>>, <<"PAGEUP", 33>>,
     <<"PAGEDOWN", 34>>, <<"PAUSE", 19>>, <<"SCROLLLOCK", 145>>, <<"PRINTSCREEN", 44>> >>

Alphanumerics ==
  << "0", "1", "2", "3", "4", "5", "6", "7", "8", "9", "A", "B", "C", "D", "E", "F", "G", "H", "I", "J",
     "K", "L", "M", "N", "O", "P", "Q", "R", "S", "T", "U", "V", "W", "X", "Y", "Z" >>

AsciiOf(i) == IF i <= 10 THEN 47 + i ELSE 54 + i

FunctionKeys ==
  << "F1", "F2", "F3", "F4", "F5", "F6", "F7", "F8", "F9", "F10", "F11", "F12", "F13", "F14", "F15", "F16",
     "F17", "F18", "F19", "F20", "F21", "F22", "F23", "F24" >>

(* Every spelling of a key, in the order format_hotkey prefers them.       *)
KeyNames ==
  VK_NAMES \o [n \in DOMAIN FunctionKeys |-> <<FunctionKeys[n], 111 + n>>]
           \o [i \in DOMAIN Alphanumerics |-> <<Alphanumerics[i], AsciiOf(i)>>]

(* The groups, each with its spellings.                                    *)
Modifiers ==
  << <<"CTRL", {"CTRL", "CONTROL"}>>, <<"ALT", {"ALT", "OPTION"}>>, <<"SHIFT", {"SHIFT"}>>,
     <<"WIN", {"WIN", "SUPER", "META", "CMD", "GUI"}>> >>
Groups    == {"CTRL", "ALT", "SHIFT", "WIN"}
IsModifier(token) == \E m \in Range(Modifiers) : token \in m[2]

Hotkey   == [mods : SUBSET Groups, vk : 0..255]
NoHotkey == [mods |-> {}, vk |-> 0]
NoText   == <<>>

(* Modifiers in any order and one key, or no hotkey at all.                *)
parse_hotkey(spec) ==
  LET triggers == {i \in DOMAIN spec : ~IsModifier(spec[i])}
      codes    == {k[2] : k \in {n \in Range(KeyNames) : \E i \in triggers : n[1] = spec[i]}}
  IN IF Cardinality(triggers) # 1 \/ codes = {} THEN NoHotkey
     ELSE [mods |-> {m[1] : m \in {g \in Range(Modifiers) : \E i \in DOMAIN spec : spec[i] \in g[2]}},
           vk   |-> CHOOSE code \in codes : TRUE]

Named(vk) == {i \in DOMAIN KeyNames : KeyNames[i][2] = vk}
Written(mods, group) == IF group \in mods THEN <<group>> ELSE <<>>

format_hotkey_short(mods, vk) == \* mutant: the Windows key is not written
  IF Named(vk) = {} THEN NoText
  ELSE Written(mods, "CTRL") \o Written(mods, "ALT") \o Written(mods, "SHIFT") \o <<KeyNames[Min(Named(vk))][1]>>

(* NoText for a key without a name. *)
format_hotkey(mods, vk) ==
  IF Named(vk) = {} THEN NoText
  ELSE Written(mods, "CTRL") \o Written(mods, "ALT") \o Written(mods, "SHIFT") \o Written(mods, "WIN")
         \o <<KeyNames[Min(Named(vk))][1]>>
=============================================================================
