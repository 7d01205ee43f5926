SPECIFICATION Spec
CONSTANTS
  None = None
  Download = {p1, p2, p3}
  Origin = {o1, o2}
  MaxConcurrency = 2
  MinimumDelay = 2
  MaxRedirects = 1
  MaxTrackedOrigins = 1
  RespectRobots = TRUE
  Timeouts = {2, 3}
  MaxAddresses = 2
  MaxTime = 3
SYMMETRY Symmetry
INVARIANTS PermitsAreConserved QueuesHoldOnlyCalls
PROPERTY FirstRequestsAreSpaced
CHECK_DEADLOCK FALSE
