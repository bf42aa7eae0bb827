SPECIFICATION StoreSpec
CONSTANTS
  Clients = {c1}
  Commands <- MCCommands
  MaxCommands = 2
  MaxBoots = 2
PROPERTIES
  StartAppliesState
CHECK_DEADLOCK FALSE
