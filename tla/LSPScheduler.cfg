SPECIFICATION Spec
CONSTANTS
  w1 = w1
  w2 = w2
  Workers = {w1, w2}
  MaxTasks = 4
  NumFiles = 2
  Kinds = {"edit", "bulk", "request", "symbols", "multi", "index"}
  Epoch = {0, 1, 2, 3, 4}
  InitialEpoch = 0
INVARIANTS
  IInv
  EnforcesHold
  ForegroundIsUndisturbed
  IndexerExclusion
  EditsAreMerged
  EditsStayInOrder
PROPERTIES
  AbandonedWorkIsNeverCommitted
  FollowsEpochProtocol
  OnlyMissedDrainHangs
  SlowPathsEnd
