CONSTANTS
  Capacity = 2
  MaxPacks = 2
  MaxFrames = 3
  MaxClients = 3
SPECIFICATION Spec
INVARIANT ClosedClientsRemoved
CHECK_DEADLOCK FALSE
