CONSTANTS
  Tasks = {a, b}
  Wrap = 8
  Timeout = 2
  HwTimeout = 3
  MaxDelay = 1
  MaxIdle = 6
  MaxClockSteps = 0
SPECIFICATION Spec
PROPERTY FedOnlyWhenHealthy
