CONSTANTS
  Threads = {t1, t2}
  Ids <- MCIds
  Setups <- MCSetups
  None = 0
SPECIFICATION Spec
CHECK_DEADLOCK FALSE
INVARIANTS
  NothingLeftBehind
PROPERTIES
  AckedIsDone
  CoroutinesEnd
  HungActorsEnd
  StopEnds
