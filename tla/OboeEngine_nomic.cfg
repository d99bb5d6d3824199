SPECIFICATION AndroidSpec
CHECK_DEADLOCK FALSE
CONSTANTS
  RingSize = 2
  MaxErrors = 1
  MaxBlocks = 0
  MaxRecordings = 0
  MaxOpens = 2
INVARIANTS
  MicIsOptional
