SPECIFICATION Spec
CONSTANTS
  p1 = p1
  p2 = p2
  p3 = p3
  p4 = p4
  h1 = h1
  NoFile = NoFile
  Proc = {p1, p2, p3, p4}
  PidOf <- DistinctPids
  HostOf <- OneHost
  ProbeMayFail = FALSE
  FilesMayFail = FALSE
INVARIANT MutualExclusion
SYMMETRY Symmetry
CHECK_DEADLOCK FALSE
