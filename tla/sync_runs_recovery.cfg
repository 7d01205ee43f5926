SPECIFICATION FairSpec
CONSTANTS
  p1 = p1
  p2 = p2
  p3 = p3
  pidA = pidA
  pidB = pidB
  h1 = h1
  h2 = h2
  s1 = s1
  s2 = s2
  NoProc = NoProc
  Global = Global
  Proc = {p1, p2, p3}
  PidOf <- ThreePids
  HostOf <- OneHost
  Requests <- OneSourceRequests
  Source = {s1}
  MaxRunId = 2
  MaxToken = 2
  MaxTime = 0
  AbandonedAfter = 1
  RetainedAge = 2
  RetainedRuns = 0
  ClockMayStepBack = FALSE
  ProbeMayFail = FALSE
INVARIANT ScopeExclusion
PROPERTIES FencingIsJustified DeadOwnersAreReleased ImplementsScopeLease
CHECK_DEADLOCK FALSE
