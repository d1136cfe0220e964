CONSTANTS
  N = 2
  ArgForks <- MCArgForks
  Paths <- MCPaths
  Chatty = {1}
  PidFiles = {"stale", "garbage"}
  Sent = {"HUP", "INT"}
  SentToGroup = {"TERM"}
  MaxSignals = 2
  MaxTroubles = 1
SPECIFICATION Spec
CHECK_DEADLOCK FALSE
INVARIANTS
  ForksAreRight
  EndsWell
PROPERTIES
  Stops
