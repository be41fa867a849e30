SPECIFICATION Spec
CONSTANTS
  f1 = f1
  f2 = f2
  Files <- MCFiles
  PackageFiles <- MCPackageFiles
  Hashes = {"h1", "h2", "invalid"}
  InvalidParse = "invalid"
  Symbols = {"s1"}
  Mentions <- MCMentions
  LspMaxFilesOnFastPath = 1
  FastPathDisabled = FALSE
  InitialFiles <- MCNewFile
  MaxVersion = 3
  MaxQueue = 2
  Epoch <- MCEpoch
  InitialEpoch = 0
INVARIANTS
  RequestsSeeEarlierEdits
  PendingRebuildsFromUndo
  EvictedFilesAreRight
  CachedDecisionIsFresh
  OneTimerPerEdit
 
CHECK_DEADLOCK FALSE
