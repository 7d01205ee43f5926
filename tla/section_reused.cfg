SPECIFICATION MCSpec
CONSTANTS
  d1 = d1
  d2 = d2
  d3 = d3
  s1 = s1
  s2 = s2
  None = None
  Document = {d1, d2, d3}
  Source = {s1, s2}
  SourceOf <- TwoSources
  Hash = {h1, h2}
  Title = {t1}
  MaxSections = 2
  MaxSectionId = 4
  Existing = {d2, d3}
  Place <- Places
  Written = {}
  Staged = {}
  Reader = {client}
  Requests <- SomeRequests
  Size <- SizeOf
  CompactSize <- SizeOf
  Length <- Lengths
  ListBudget = 2
  ResourceBudget = 3
  ResourceLimit <- PageLimit
  MaxPageSize = 3
  MaxPageOffset = 2
  MaxWrites = 4
  MaxDuring = 1
INVARIANT SectionReadIsTheOneFound
CHECK_DEADLOCK FALSE
