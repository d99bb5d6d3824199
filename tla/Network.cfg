SPECIFICATION NetworkSpec
CHECK_DEADLOCK FALSE
CONSTANTS
  Ring = 4
  Margin = 1
  Header = 2
  Peek = 3
  QueueMax = 2
  Sizes = {0, 3}
  WireMax = 2
  MaxMessages = 3
  Ends = {1, 2}
  keepalive <- KeepAlives
  Delay = 1
  MaxUnderWay = 1
  Channels = {1}
  Live = {}
  playtime <- PlayTimes
  Timeout = 1
  MaxDownloads = 3
  MaxSize = 2
  Length = 3
  Prebuffer = 1
  VoiceBuffer = 1
  VoiceSlack = 0
  MaxIntervals = 2
  MinLength = 2
  MinAdded = 3
  MaxEntries = 3
  Horizon = 7
  MaxAnnounced = 5
  Samples = 4
  MaxFrames = 6
  LiveDelay = 1
  MaxLive = 2
  Addresses = {a1}
  MaxAttempts = 2
  MaxRefusals = 1
INVARIANTS
  CacheOutlives
  HandledBeforeLost
  HealthyStays
  DownloadServes
  HeardInPlace
  PlaysTheLatest
  AllShown
PROPERTIES
  ImplementsChannel
  DeadPeerFound
  AttemptEnds
