CONSTANTS
  Ids <- MCIds
  Children <- MCChildren
  Setups <- MCSetups
  Timeouts = {1, 3}
  DEFAULT_TIMEOUT = 2
  Delays = {1, 2}
  MaxRetries <- MCMaxRetries
  MaxTroubles = 2
  MaxTime = 4
SPECIFICATION Spec
CHECK_DEADLOCK FALSE
INVARIANTS
  FailureIsFinal
  WaitsInTime
PROPERTIES
  ResultsExpire
  NoResultMissed
