CONSTANTS
  FtypSize = 2
  HeaderSize = 3
  PrefixSize = 1
  MoovSize = 2
  OffsetLimit = 9
  Frames <- MCFrames
  MaxFrames = 3
SPECIFICATION Spec
INVARIANTS
  ConfirmedKept
  SealedPlaysBack
  ParamSetsKnown
PROPERTIES
  ImplementsArchive
CHECK_DEADLOCK FALSE
