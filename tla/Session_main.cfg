CONSTANTS
  Clients = {p1, p2}
  Garbled = Garbled
  MaxConns = 3
  MaxCodes = 2
  MaxForgets = 1
  MaxFaults = 1
SPECIFICATION Spec
VIEW OpenPeers
SYMMETRY Alike
INVARIANT TypeOK
INVARIANT OneSession
INVARIANT DelegateKnows
INVARIANT NothingFiledUnproven
INVARIANT AgreeInSession
CHECK_DEADLOCK FALSE
