SPECIFICATION MCSpec
CONSTANTS
  Clients = {c1}
  Commands <- MCCommands
  MaxCommands = 2
  MaxBoots = 2
  Puts = {p1, p2, p3}
  Zeros = Zeros
  Torn = Torn
  NoPut = NoPut
  Consumers = {"record"}
  MaxRequests = 1
INVARIANTS
  MaskInv
  AlwaysBoots
  ShutdownInv
PROPERTIES
  StartsRight
  SavedIsLoaded
  InstalledStays
  DaemonEnds
CHECK_DEADLOCK FALSE
