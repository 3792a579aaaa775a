SPECIFICATION Spec
CONSTANTS
  Hosts = {a, b}
  Callers = {c1, c2, c3}
  PerHost = 2
  MaxTotal = 2
  NoHost = NoHost
  LateUse = {}
  MaxConns = 3
  MaxStamps = 3
CHECK_DEADLOCK FALSE
SYMMETRY PoolSymmetry
INVARIANTS TypeOK Ceilings
PROPERTIES EvictsOldest ContractSpec
