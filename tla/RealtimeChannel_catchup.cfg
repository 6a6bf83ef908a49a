CONSTANTS
  Modulus = 4
  UseUdp = {TRUE}
  Keepalive = TRUE
  MaxMoves = 2
  MaxSessions = 1
  MaxSwitches = 2
  MaxLoss = 1
SPECIFICATION FairSpec
PROPERTY CatchesUp
CHECK_DEADLOCK FALSE
