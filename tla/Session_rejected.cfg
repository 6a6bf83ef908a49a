CONSTANTS
  Clients = {p1}
  Garbled = Garbled
  MaxConns = 3
  MaxCodes = 2
  MaxForgets = 1
  MaxFaults = 1
SPECIFICATION Spec
PROPERTY RejectedKeyGoes
CHECK_DEADLOCK FALSE
