SPECIFICATION Spec
CONSTANTS
  c1 = c1
  c2 = c2
  s1 = s1
  s2 = s2
  u = u
  w = w
  v1 = v1
  v2 = v2
  old = old
  new = new
  None = None
  Server = {s1, s2}
  Call = {c1, c2}
  ServerOf <- OwnServer
  Key <- Keys
  StaleRetention = 1
  MaxEntries = 2
  MaxBytes = 3
  RetryDelay = 1
  ContinueOnError = TRUE
  MaxTime = 2
  MaxEvents = 1
  Changing = {u}
  Cases <- AllCases
  Url = {u, w}
  Requested = {u}
  Content = {v1, v2}
  SizeOf <- Sizes
  TtlOf <- Lifetimes
  Timeout = 1
  Extractions <- Pages
  Tagged = {TRUE}
  Redirects = {w}
  Queries <- Asks
  Registry = {old, new}
  Result <- Found
  SourcesOf <- Files
  SearchTtl = 1
  SearchTimeout = 1
INVARIANTS CacheIsBounded AnswersAreRecent AnswersFollowThePolicy
CHECK_DEADLOCK FALSE
