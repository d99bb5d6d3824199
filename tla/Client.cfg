SPECIFICATION ClientSpec
CHECK_DEADLOCK FALSE
SYMMETRY Anyone
CONSTANTS
  Base = 4
  Texts <- Strings
  Numbers <- Shortish
  Smalls <- ByteSized
  FieldSizes = {3, 4, 5}
  MaxRecords = 2
  Minute = 15
  Bpms = {0, 4, 6}
  Bpis = {1, 2}
  MaxLength = 6
  ResetLength = 3
  ResetTempo <- StartTempo
  BlockSizes = {2, 4}
  MaxPlayed = 14
  MaxTempos = 3
  Ids = {0, 2, 4}
  MaxLocal = 5
  Users = {alice, bob}
  UserChannels = {0, 1}
  MaxInfo = 4
  MaxUserCalls = 2
  MaxUploads = 2
  MaxFrames = 2
  MaxFade = 2
  FirstSend = 5
  NextSend = 2
  MaxSend = 3
  ReadSizes = {1, 3}
  Serials = {7}
  Ports <- Hardware
  Mixes <- Desk
  MaxIO = 2
  SamplesPerInterval = 3
  SourceRate = 2
  OutputRate = 3
  Lengths = {2, 4}
  MaxMixed = 3
  MaxSettings = 1
INVARIANTS
  ReadsBack
  BeatsOnTheGrid
  IdsReachChannels
  CallReachesUser
  SoloIsHeard
  UploadDecodes
  MixedOnce
