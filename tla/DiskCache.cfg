SPECIFICATION Spec
CONSTANTS
  Processes = {"p", "q"}
  Versions = {"v1"}
  Files = {"f"}
  MaxRuns = 2
  MaxRounds = 1
INVARIANTS
  SharedCacheIsConsistent
  IndexReadsOwnNames
PROPERTY EveryProcessEnds
CHECK_DEADLOCK FALSE
