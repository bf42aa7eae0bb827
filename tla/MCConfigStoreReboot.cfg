SPECIFICATION StoreSpec
CONSTANTS
  Clients = {c1}
  Commands <- MCCommands
  MaxCommands = 2
  MaxBoots = 2
PROPERTIES
  RebootKeepsSettings
CHECK_DEADLOCK FALSE
