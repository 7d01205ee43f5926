SPECIFICATION Spec
CONSTANTS
  p1 = p1
  p2 = p2
  p3 = p3
  pidA = pidA
  pidB = pidB
  h1 = h1
  h2 = h2
  s1 = s1
  s2 = s2
  NoProc = NoProc
  Global = Global
  Proc = {p1, p2}
  PidOf <- ThreePids
  HostOf <- TwoHosts
  Requests <- PlanOrOneSource
  Source = {s1}
  MaxRunId = 1
  MaxToken = 2
  MaxTime = 2
  AbandonedAfter = 1
  RetainedAge = 0
  RetainedRuns = 0
  ClockMayStepBack = TRUE
  ProbeMayFail = FALSE
INVARIANTS LeaseInv LiveOwnerKeepsHandle
PROPERTIES FencingIsJustified WritersInTokenOrder FinishedRunsAreFrozen
CHECK_DEADLOCK FALSE
