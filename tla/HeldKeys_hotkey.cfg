CONSTANTS
  Keys = {"m", "t"}
  Buttons = {}
  Modifier = "m"
  Hotkeys <- ToMac
  Settings <- InStep
  MaxEvents = 5
  MaxReturns = 0
  MaxSleeps = 0
SPECIFICATION Spec
INVARIANT NoKeySticks
CHECK_DEADLOCK FALSE
