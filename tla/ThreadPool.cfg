SPECIFICATION FairSpec
CONSTANTS
  Workers = {w1, w2, w3}
  Task = {t1, t2, t3, t4, t5}
  NoTask = NoTask
INVARIANTS
  WorkConserving
PROPERTIES
  PoolSpec
  EveryTaskRuns
  DestructorReturns
CHECK_DEADLOCK FALSE
