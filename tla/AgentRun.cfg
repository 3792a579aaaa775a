SPECIFICATION Spec
CONSTANTS
  p = p
  q = q
  x = x
  y = y
  a = a
  b = b
  c = c
  some = some
  None = None
  Null = Null
  Providers = {p, q}
  Tools = {x, y}
  Manuals <- MCManuals
  Calls = {a, b, c}
  ToolOf <- MCToolOf
  Misfits <- MCMisfits
  Results = {some, Null}
  MayGive <- MCMayGive
  MaxEntries = 2
  TTL = 2
  Plan <- MCPlan
INVARIANTS TypeOK NothingStale InOrder OnlyFailuresLost
PROPERTIES EvictsColdest ServesTheLastAnswer
