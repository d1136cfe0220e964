CONSTANTS
  Ids <- MCIds
  Jobs = {j1, j2}
  Poison = {}
  NoJob = NoJob
  s1 = s1
  s2 = s2
  Senders = {s1, s2}
  Threads = {t1}
  Prefetch = 2
  MAX_ENQUEUE_ATTEMPTS = 3
  MAX_DECLARE_ATTEMPTS = 2
  MinSuccesses = 2
  Setups <- Both
SPECIFICATION Spec
CHECK_DEADLOCK FALSE
INVARIANTS
  NoJobLost
  TagsAreValid
PROPERTIES
  CallsHold
  JobsFinish
