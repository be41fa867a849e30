SPECIFICATION Spec
CONSTANTS
  w1 = w1
  Workers = {w1}
  MaxTasks = 3
  NumFiles = 1
  Kinds = {"edit", "request"}
  Epoch = {0, 1, 2, 3}
  InitialEpoch = 0
PROPERTIES
  EveryTaskIsIndexed
