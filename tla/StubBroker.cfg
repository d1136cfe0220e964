CONSTANTS
  Jobs = {j1, j2}
  Threads = {t1, t2}
  Prefetch = 2
  MaxRetries = 2
  MaxPauses = 1
SPECIFICATION Spec
INVARIANTS
  Counts
PROPERTIES
  JoinWaits
  JoinEnds
