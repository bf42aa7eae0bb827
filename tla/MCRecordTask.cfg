CONSTANTS
  MinutesPerHour = 2
  MaxMinute = 2
  MaxFrames = 4
  NoMuxer = NoMuxer
SPECIFICATION Spec
INVARIANTS
  RecordInv
  IdrInItsMinute
PROPERTIES
  SealedOverwritten
