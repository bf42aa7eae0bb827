CONSTANTS
  Capacity = 2
  MaxPacks = 2
  MaxFrames = 3
  MaxClients = 3
  Sockets = {s1, s2, s3}
  MaxTimers = 3
  NoSocket = NoSocket
  NoMuxer = NoMuxer
  HoursPerDay = 2
  CAPACITY = 1
  MaxHour = 1
  EncoderQueue = 1
  TimelapseFrames = 6
  UpsetFrames = 3
  EXTRACT_FRAMES = 3
SPECIFICATION MCSpec
CHECK_DEADLOCK FALSE
INVARIANTS
  StreamInv
  RemovedExactly
  TimelapseInv
  HourHasFile
  BrowserInv
  CaptureInv
  BytesExact
PROPERTIES
  SealedKept
  NoneWaitsForever
  Recovers
  CaptureLive
