CONSTANTS
  Keys = {"m", "t"}
  Buttons = {"b"}
  Modifier = "m"
  Hotkeys <- ToMac
  Settings <- AllSettings
  MaxEvents = 4
  MaxReturns = 1
  MaxSleeps = 1
SPECIFICATION FairSpec
INVARIANT TypeOK
INVARIANT NothingStuck
INVARIANT MacHoldsWhatWasPressed
PROPERTY EventuallyReleased
CHECK_DEADLOCK FALSE
