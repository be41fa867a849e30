SPECIFICATION Spec
CONSTANTS
  ClientKinds = {"request", "pause", "resume", "exit"}
  MaxMessages = 4
  MaxFileChanges = 1
  WatchmanKinds = {"fileChange", "stateEnter", "stateLeave"}
INVARIANTS
  PendingRequestsFinish
  IndexerIsInitializedFirst
PROPERTIES
  EveryThreadEnds
CHECK_DEADLOCK FALSE
