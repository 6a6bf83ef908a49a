CONSTANTS
  Keys = {"m", "t"}
  Buttons = {}
  Modifier = "m"
  Hotkeys <- ToMac
  Settings <- InStep
  MaxEvents = 4
  MaxReturns = 1
  MaxSleeps = 1
SPECIFICATION Spec
INVARIANT ReleaseAllFromAnyThread
CHECK_DEADLOCK FALSE
