SPECIFICATION DSpec
CONSTANTS
  f1 = f1
  f2 = f2
  Files <- MCFiles
  PackageFiles = {}
  Hashes = {"h1", "h2", "invalid"}
  InvalidParse = "invalid"
  Symbols = {"s1", "s2"}
  Mentions <- MCMentions
  LspMaxFilesOnFastPath = 2
  FastPathDisabled = FALSE
  InitialFiles <- MCBrokenFiles
  MaxVersion = 3
  MaxQueue = 2
  Epoch <- MCEpoch
  InitialEpoch = 0
  LspErrorCaps = {0, 2}
  Errors <- MCErrors
INVARIANTS
  
  ErrorCountsAddUp
PROPERTY ReportsFollowEdits
CHECK_DEADLOCK FALSE
