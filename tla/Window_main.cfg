CONSTANTS
  None = None
  Macs <- TwoMacs
  MaxSearchFailures = 1
  Inputs <- Entered
  Starts <- ThreeStarts
  Combinations <- TwoCombinations
  MaxEdits = 1
  MaxCommands = 2
SPECIFICATION FairSpec
INVARIANT TypeOK
INVARIANT ShownIsInEffect
INVARIANT SavedAsShown
INVARIANT RecordedFires
INVARIANT FileKept
INVARIANT RightMac
PROPERTY SearchEnds
CHECK_DEADLOCK FALSE
