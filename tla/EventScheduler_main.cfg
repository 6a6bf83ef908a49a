CONSTANTS
  Callers = {"realtime", "control"}
  Modes <- AllModes
  Deltas <- BothWays
  MaxSubmits = 3
  MaxGeneration = 4
SPECIFICATION FairSpec
INVARIANT TypeOK
INVARIANT TakenIsPosted
INVARIANT NoWakeupIsLost
PROPERTY PlaysOut
PROPERTY MotionArrives
PROPERTY StoppedThreadsEnd
CHECK_DEADLOCK FALSE
