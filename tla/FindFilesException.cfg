SPECIFICATION WalkSpec
CONSTANTS
  Dirs <- MCDirs
  Root = "root"
  SubDirs <- MCSubDirs
  Walkers = {"w1", "w2", "w3"}
INVARIANT PendingJobsIsThere
CHECK_DEADLOCK FALSE
