CONSTANTS
  Workers = {w1, w2}
  Mortal = {w1, w2}
  QueueNames <- MCQueueNames
  NoQueue = NoQueue
  Canonical <- MCCanonical
  Ids = {m1, m2}
  HeartbeatTimeout = 2
  DeadMessageTTL = 1
  Prefetch = 2
  Lossy = TRUE
  Punctual = FALSE
SPECIFICATION Spec
INVARIANTS
  Safety
PROPERTIES
  InOrder
  SettledForGood
  OnlyTheDeadLoseAcks
  KeepsPromise
