SPECIFICATION RegularSpec
CONSTANTS
  None = None
  Sessions = {1}
  Intervals = {1, 2, 3}
  MayPostpone = TRUE
  MayHold = TRUE
  MaySkip = TRUE
  NumFrames = 3
  MarkersTagged = TRUE
  AudioLag = 0
  HoldCap = 4
  Lags = {0, 1, 2}
  ResetIntervals = {}
INVARIANTS PlaysFromMarker
CHECK_DEADLOCK FALSE
