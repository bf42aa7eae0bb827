SPECIFICATION Spec
CONSTANTS
  c1 = c1
  c2 = c2
  Clients <- MCClients
  Commands <- MCCommands
  MaxCommands = 3
SYMMETRY Symmetry
INVARIANTS
  Agreement
  AskedIsKept
  TaskKnowsMode
CHECK_DEADLOCK FALSE
