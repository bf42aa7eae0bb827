CONSTANTS
  Tasks = {a, b}
  Wrap = 6
  Timeout = 1
  HwTimeout = 3
  MaxDelay = 1
  MaxIdle = 5
  MaxClockSteps = 1
SPECIFICATION Spec
INVARIANTS
  SilenceBounded
  NoFalseReset
PROPERTIES
  HangIsReset
