SPECIFICATION MCSpec
CONSTANTS
  r1 = r1
  d1 = d1
  p1 = p1
  p2 = p2
  p3 = p3
  h1 = h1
  h2 = h2
  None = None
  NoFile = NoFile
  Run = {r1}
  Document = {d1}
  Content = {c1, c2}
  Configurations <- OneDocument
  Limits = {1}
  Routes = {"direct"}
  Faults = {"answers", "writes", "crash"}
  Ingested = {d1}
INVARIANT RecoveryIsSound
PROPERTIES SyncedIsWhatThePageHad SynchronizationsConverge DeadLockIsRecovered
