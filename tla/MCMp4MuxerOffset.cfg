CONSTANTS
  FtypSize = 2
  HeaderSize = 3
  PrefixSize = 1
  MoovSize = 2
  OffsetLimit = 9
  Frames <- MCFrames
  MaxFrames = 4
SPECIFICATION Spec
INVARIANT OffsetIsFilePosition
CHECK_DEADLOCK FALSE
