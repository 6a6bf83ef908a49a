CONSTANTS
  Modulus = 3
  UseUdp = {TRUE, FALSE}
  Keepalive = FALSE
  MaxMoves = 3
  MaxSessions = 2
  MaxSwitches = 3
  MaxLoss = 0
SPECIFICATION Spec
INVARIANT TypeOK
INVARIANT CursorOnPath
INVARIANT NoGapOverTcp
VIEW OwnersAside
CHECK_DEADLOCK FALSE
