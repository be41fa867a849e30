SPECIFICATION WalkSpec
CONSTANTS
  Dirs <- MCDirs
  Root = "root"
  SubDirs <- MCSubDirs
  Walkers = {"w1", "w2", "w3"}
INVARIANTS
  PendingCoversTheQueue
  CompleteOrRaised
PROPERTIES
  WalkReturns
CHECK_DEADLOCK FALSE
