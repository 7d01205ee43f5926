SPECIFICATION Spec
CONSTANTS
  None = None
  Download = {p1, p2, p3}
  Origin = {o1}
  MaxConcurrency = 3
  MinimumDelay = 2
  MaxRedirects = 0
  MaxTrackedOrigins = 2
  RespectRobots = FALSE
  Timeouts = {1, 4}
  MaxAddresses = 1
  MaxTime = 4
SYMMETRY Symmetry
PROPERTY DelayIsSerialized
CHECK_DEADLOCK FALSE
