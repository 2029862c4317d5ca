SPECIFICATION FairSpec
CONSTANTS
  Units = {1, 2}
  max_parallel_ = 2
  Pids = {1, 2}
  PidsFresh = TRUE
  MaxTasks = 3
  MaxAttempts = 1
INVARIANTS
  AllAccounted
  TodoInStep
  OfferBalanced
  DepsFirst
  EndsComplete
PROPERTIES
  RunReturns
CHECK_DEADLOCK FALSE
