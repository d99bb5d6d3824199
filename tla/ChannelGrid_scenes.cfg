SPECIFICATION ScenesSpec
CONSTANTS
  None = None
  Sessions = {1}
  Intervals = {1, 2, 3, 4, 5, 6, 7, 8, 9, 10, 11, 12}
  NumChannels = 3
  Modes <- AllModes
  Tagged = {TRUE, FALSE}
  AlignChannels = TRUE
  LateGuard = TRUE
  AutoSubscribe = FALSE
  MaxLag = 1
  MaxStalls = 1
  MaxSwaps = 8
  LinesChannels = {0, 1}
  LinesIntervals = {1, 2}
INVARIANTS
  QueueOrdered
  HoldHasAudio
PROPERTIES
  PlaysForward
  SwapNeverMutes
  SkipFollowsSibling
  AlignedAtSwap
  ImplementsLines
  PlaysInLockStep
CHECK_DEADLOCK FALSE
