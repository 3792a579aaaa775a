SPECIFICATION Spec
CONSTANTS
  p = p
  q = q
  x = x
  y = y
  u = u
  v = v
  w = w
  secret = secret
  find = find
  read = read
  None = None
  Absent = Absent
  Unindexed = Unindexed
  Providers = {p, q}
  Tools = {x, y}
  Manuals <- MCManuals
  Names = {u, v, w}
  Texts = {secret}
  Starts <- MCStarts
  Words = {find, read}
  IndexNames = {1, 2}
  Documents <- MCDocuments
  Queries <- MCQueries
  TokenBudget = 3
  PromptTokens = 2
  TurnSizes = {0, 1, 2, 4}
  MaxTurns = 5
INVARIANTS TypeOK ResolvedByReference LoadedAsAWhole CallsReachTheirProvider IndexAnswersForTools KeepsNewest
CHECK_DEADLOCK FALSE
