CONSTANTS
  Modulus = 8
  UseUdp = {TRUE}
  Keepalive = FALSE
  MaxMoves = 4
  MaxSessions = 1
  MaxSwitches = 1
  MaxLoss = 0
SPECIFICATION Spec
INVARIANT NoReplay
CHECK_DEADLOCK FALSE
