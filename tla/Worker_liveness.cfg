CONSTANTS
  Me = w1
  Workers = {w1}
  QueueNames <- MCQueueNames
  Canonical <- MCCanonical
  Ids <- MCIds
  HeartbeatTimeout = 1
  DeadMessageTTL = 1
  Prefetch <- OnlyOne
  Threads = {t1}
  j1 = j1
  j2 = j2
  Jobs = {j1}
  None = None
  NoJob = NoJob
  Setups <- PausedOrEarly
  MaxStops = 1
SPECIFICATION FairSpec
CHECK_DEADLOCK FALSE
INVARIANTS
  NoJobLost
PROPERTIES
  JobsFinish
  StopEnds
