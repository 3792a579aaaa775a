SPECIFICATION Spec
CONSTANTS
  Hosts = {a, b}
  Callers = {c1, c2}
  PerHost = 2
  MaxTotal = 2
  NoHost = NoHost
  LateUse = {"release", "discard"}
  MaxConns = 3
  MaxStamps = 3
CHECK_DEADLOCK FALSE
SYMMETRY PoolSymmetry
INVARIANTS LoansApart
