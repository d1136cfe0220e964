CONSTANTS
  Workers = {w1, w2}
  Mortal = {w2}
  QueueNames <- MCQueueNames
  NoQueue = NoQueue
  Canonical <- MCCanonical
  Ids = {m1, m2}
  HeartbeatTimeout = 2
  DeadMessageTTL = 1
  Prefetch = 1
  Lossy = FALSE
  Punctual = TRUE
SPECIFICATION FairSpec
PROPERTIES
  EventuallySettled
