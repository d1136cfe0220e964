CONSTANTS
  c1 = c1
  c2 = c2
  Children <- MCChildren
  Length <- MCLength
  Workers = {w1, w2}
  Hooks <- MCHooks
  MaxRetries = 1
  MaxFaults = 2
SPECIFICATION Spec
CHECK_DEADLOCK FALSE
INVARIANTS
  CallbackOnce
  ResultsBeforeNext
PROPERTIES
  GroupGoesOn
