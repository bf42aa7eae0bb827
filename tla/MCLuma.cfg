CONSTANTS
  LUMA_PREBUF = 3
  STACK_TIMEOUT = 2
  TRACK_MAX_MISSED = 1
  TRACK_MIN_FRAMES = 2
  MaxBlobs = 1
  MaxTracks = 2
  MaxFrames = 7
  MaxSecond = 1
  SampleCount = 10
  THRESHOLD_LOW = 30
  THRESHOLD_HIGH = 70
  INTERVAL = 2
  MinTransition = 10
  Levels = {29, 100}
  BLOB_WIDTH = 4
  BLOB_HEIGHT = 3
  BLOB_MERGE_GAP = 1
  STAR_WIDTH = 5
  STAR_HEIGHT = 5
  MAX_STARS = 3
  CONTRASTS = 4
  THRESHOLD_K = 4
  THRESHOLD_MIN = 1
  THRESHOLD_MAX = 11
  KEYS = 5
  PER_BUCKET = 2
  START_SPAN = 4
  LENGTH_SPAN = 4
  FIXED = 2
  max_count = 6
  early_stop_n = 3
SPECIFICATION MCSpec
CHECK_DEADLOCK FALSE
INVARIANTS
  StackFollows
  TrailInStack
  AnnouncedOnce
  DayNightInv
  BlobsToTracks
  StarsFound
  TableExact
PROPERTIES
  SavedKept
  NoFlapping
