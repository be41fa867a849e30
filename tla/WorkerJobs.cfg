SPECIFICATION JobsSpec
CONSTANTS
  Jobs = {1, 2, 3, 4}
  Workers = {"w1", "w2"}
INVARIANTS
  EveryResultIsReceived
  NoWorkerOutlivesTheCall
PROPERTY CallerReturns
CHECK_DEADLOCK FALSE
