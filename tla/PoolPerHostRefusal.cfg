SPECIFICATION Spec
CONSTANTS
  Hosts = {a, b}
  Callers = {c1, c2}
  PerHost = 2
  MaxTotal = 2
  NoHost = NoHost
  LateUse = {}
  MaxConns = 4
  MaxStamps = 3
CHECK_DEADLOCK FALSE
PROPERTY PerHostRefusalJustified
