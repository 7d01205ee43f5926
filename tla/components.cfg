SPECIFICATION MCSpec
CONSTANTS
  p1 = p1
  p2 = p2
  p3 = p3
  b1 = b1
  b2 = b2
  f1 = f1
  f2 = f2
  q1 = q1
  q2 = q2
  None = None
  Opener = {p1, p2, p3}
  Files <- Builds
  OldFiles <- AllOldFiles
  MigrationName = {1, 2, 3}
  MigrationText = {"a", "b", "c"}
  MaxOpenings = 3
  Copier = {b1, b2}
  Final = {f1, f2}
  Requests = {f1, f2, None}
  MaxRevision = 1
  Cycle = {q1, q2}
  Inputs <- SomeInputs
  InitialRuns <- SomeRuns
  InitialEvents <- SomeEvents
  ReleaseAttempts = 2
  MaxTime = 1
  Caller = {1, 2, 3}
  Searches <- SomeSearches
  Listings <- SomeListings
  Client = {"client"}
  Retention = 1
  MaxEntries = 2
  MaxQueryLength = 3
  SecretLength = 1
  MaskLength = 2
  MaxPageSize = 2
  LastDay = 2
  Nothing = Nothing
  PoolSize = 2
  Papers = {"paper", "report"}
  RepairDelay = 1
  PdfTimeout = 1
  MaxWorkers = 3
  MaxClock = 2
  PageElements <- SomeElements
  PageDepth = 4
  ActiveTags = {"nav", "script"}
  IgnoredTags = {"script"}
  VoidTags = {"br", "link"}
  ResourceTags = {"link"}
  MarkdownPages <- SomeDocuments
  ContentQueries <- SomeSelections
  VersionTerms = {"y"}
  SectionCharacters = 6
  SectionTokens = 2
  QueryTokens = 2
  SectionCount = 3
  TitleCharacters = 2
  Passages <- SomePassages
  SoughtTerms <- SomeTerms
  SnippetRadius = 2
  SnippetTerms = 2
  TermOccurrences = 2
  MaxWords = 5
  Operators = {1, 2}
  YamlContents <- SomeContents
  CommandLines <- SomeRequests
  SourceNames <- SomeNames
  KeyPieces = {"node", "fs", "url", "net", "mdn", "fetch"}
  Locales <- SomeLocales
  MaxRuns = 3
INVARIANTS LedgersAreTrue BackupsHold MaintenanceIsExclusive HistoryIsTrue SlotsComeBack OnlyContentIsShown SelectionIsHonest SnippetShowsTheBestMatch CommandsAgree
CHECK_DEADLOCK FALSE
