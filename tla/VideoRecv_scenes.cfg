SPECIFICATION ScenesSpec
CONSTANTS
  None = None
  Sessions = {1}
  Intervals = {1, 2, 3, 4, 5}
  MayPostpone = TRUE
  MayHold = TRUE
  MaySkip = TRUE
  NumFrames = 3
  MarkersTagged = TRUE
  AudioLag = 1
  HoldCap = 2
  Lags = {0, 1, 2}
  ResetIntervals = {1, 2, 3, 4}
INVARIANTS
  OneDownload
PROPERTIES
  InSync
  VideoForward
CHECK_DEADLOCK FALSE
