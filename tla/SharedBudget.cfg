SPECIFICATION Spec
CONSTANTS
  Total = 3
  DefaultTimeout = 2
  Responses <- MCResponses
  MaxTime = 4
  MaxSteps = 2
CHECK_DEADLOCK FALSE
INVARIANTS TypeOK ReadsInTime ItemsMatchResponse NoneLeftOpen
PROPERTIES GivenInTime
