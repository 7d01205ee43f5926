SPECIFICATION MCSpec
CONSTANTS
  d1 = d1
  d2 = d2
  d3 = d3
  s1 = s1
  s2 = s2
  None = None
  Document = {d1, d2, d3}
  Source = {s1, s2}
  SourceOf <- TwoSources
  Hash = {h1, h2, h3}
  Title = {t1, t2}
  MaxSections = 2
  MaxSectionId = 5
  Existing = {d2, d3}
  Place <- Places
  Written = {d1, d2}
  Staged = {d1}
  Reader = {client}
  Requests <- SomeRequests
  Size <- SizeOf
  CompactSize <- SizeOf
  Length <- Lengths
  ListBudget = 2
  ResourceBudget = 3
  ResourceLimit <- PageLimit
  MaxPageSize = 3
  MaxPageOffset = 2
  MaxWrites = 3
  MaxDuring = 1
INVARIANTS CatalogIsWhole VerificationIsExact ListWalkMissesNothing
PROPERTIES PurgeKeepsTheNewest PurgeIsInvisible
SYMMETRY Values
CHECK_DEADLOCK FALSE
