SPECIFICATION FairSpec
CONSTANTS
  Hosts = {a, b}
  Tasks = {t1, t2, t3, t4}
  PerHost = 1
  MaxTotal = 2
  Nothing = Nothing
  Timed = {}
  MayCancel = {}
  FactoryMayFail = FALSE
  Repeats = FALSE
CHECK_DEADLOCK FALSE
PROPERTIES EveryoneServed
