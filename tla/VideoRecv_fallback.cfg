SPECIFICATION VideoSpec
CONSTANTS
  None = None
  Sessions = {1}
  Intervals = {1, 2, 3}
  MayPostpone = FALSE
  MayHold = TRUE
  MaySkip = FALSE
  NumFrames = 2
  MarkersTagged = TRUE
  AudioLag = 1
  HoldCap = 4
PROPERTIES
  FallbackInTime
CHECK_DEADLOCK FALSE
