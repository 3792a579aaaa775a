SPECIFICATION FairSpec
CONSTANTS
  reader = reader
  Tasks <- MCTasks
  Nobody = Nobody
  NumCalls = 2
  MaxConcurrency = 1
  MaxSockets = 2
  MaxUnread = 1
  MaxCloses = 2
CHECK_DEADLOCK FALSE
INVARIANTS TypeOK AnswersAreOwn PermitsKept NoOrphan
PROPERTIES TimeoutStops NotSkippedAlone CallsSettle
