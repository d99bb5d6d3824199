SPECIFICATION Spec
CHECK_DEADLOCK FALSE
CONSTANTS
  MaxConnects = 2
  AppWaits = FALSE
INVARIANTS
  DisconnectAlone
