CONSTANTS
  Me = w1
  Workers = {w1}
  QueueNames <- MCQueueNames
  Canonical <- MCCanonical
  Ids <- MCIds
  HeartbeatTimeout = 1
  DeadMessageTTL = 1
  Prefetch <- MCPrefetch
  Threads = {t1}
  j1 = j1
  j2 = j2
  Jobs = {j1, j2}
  None = None
  NoJob = NoJob
  Setups <- AllSetups
  MaxStops = 1
SPECIFICATION Spec
CHECK_DEADLOCK FALSE
INVARIANTS
  NoJobLost
  HeldOnce
  PausedIsQuiet
  NoneForgotten
  WithinPrefetch
