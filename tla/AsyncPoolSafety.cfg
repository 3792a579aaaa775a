SPECIFICATION FairSpec
CONSTANTS
  Hosts = {a, b}
  Tasks = {t1, t2, t3}
  PerHost = 2
  MaxTotal = 2
  Nothing = Nothing
  Timed = {t1}
  MayCancel = {t2}
  FactoryMayFail = TRUE
  Repeats = TRUE
INVARIANTS TypeOK Ceilings NobodyLost
PROPERTIES ContractSpec TimeoutEnds
