SPECIFICATION MCSpec
CONSTANTS
  r1 = r1
  r2 = r2
  d1 = d1
  d2 = d2
  d3 = d3
  c1 = c1
  c2 = c2
  c3 = c3
  None = None
  Run = {r1, r2}
  Document = {d1, d2, d3}
  Content = {c1, c2, c3}
  Configurations <- SomeConfigurations
  Limits = {1, 2, 4}
  Routes = {"direct", "temporary", "permanent"}
  Faults = {"answers", "writes"}
  Ingested = {}
SYMMETRY Symmetry
INVARIANTS SyncInv RowDescribesItsVersion BatchesCoverTheConfiguration
PROPERTY ChangesAreRecorded
