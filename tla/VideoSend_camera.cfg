SPECIFICATION SceneSpec
CHECK_DEADLOCK FALSE
CONSTANTS
  NumLocal = 2
  LocalModes <- UploadModes
  QueueCap = 1
  MaxLoop = 3
  MaxBlocks = 2
  MaxConnections = 2
  MaxStarts = 2
  MaxSetups = 2
  MaxFrames = 1
INVARIANTS
  VideoFramed
  TagNamesInterval
  UploadsWhole
PROPERTIES
  MarkerNamesLast
