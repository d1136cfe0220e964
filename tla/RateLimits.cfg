CONSTANTS
  Clients = {c1, c2, c3}
  Setups <- MCSetups
  Limit = 2
  Ttl = 2
  Interval = 2
  MaxTime = 5
  MaxValue = 3
SPECIFICATION Spec
CHECK_DEADLOCK FALSE
INVARIANTS
  LimitsHold
  BarrierHolds
PROPERTIES
  BarrierOpens
