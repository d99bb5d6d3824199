SPECIFICATION PlatformSpec
CHECK_DEADLOCK FALSE
CONSTANTS
  MaxConnects = 3
  AppWaits = TRUE
  RingSize = 3
  MaxErrors = 2
  MaxBlocks = 3
  MaxRecordings = 2
  MaxOpens = 2
  Tempi = {90, 120}
  DefaultTempo = 120
  MaxTargets = 2
  MaxArchives = 2
  MaxSaved = 2
INVARIANTS
  DisconnectAlone
  CodecExclusive
  QuietWhenStopped
  CallbacksLive
  AppKnows
PROPERTIES
  EveryCallReturns
  RecordsAll
  ArchiveKept
