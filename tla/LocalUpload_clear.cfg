SPECIFICATION Spec
CHECK_DEADLOCK FALSE
CONSTANTS
  NumLocal = 1
  LocalModes <- IntervalMode
  QueueCap = 2
  MaxLoop = 2
  MaxBlocks = 2
  MaxConnections = 1
INVARIANTS
  ClearsBlocks
