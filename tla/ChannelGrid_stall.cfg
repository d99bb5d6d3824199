SPECIFICATION GridSpec
CONSTANTS
  None = None
  Sessions = {1}
  Intervals = {1, 2, 3, 4, 5, 6, 7, 8, 9, 10, 11, 12}
  NumChannels = 3
  Modes = {{}}
  Tagged = {TRUE}
  AlignChannels = TRUE
  LateGuard = FALSE
  AutoSubscribe = TRUE
  MaxLag = 1
  MaxStalls = 1
  MaxSwaps = 8
PROPERTIES
  CostIsPaidOnce
CHECK_DEADLOCK FALSE
