SPECIFICATION FairSpec
CONSTANTS
  Threads = {t1, t2, t3}
  Conns = {c1, c2}
  Count = 2
  NullConn = NullConn
  Forms = {TRUE, FALSE}
  MaxCalls = 4
INVARIANTS
  QueueMatchesSem
  NamedGuardExclusive
  NoneLost
  NoStrandedUnit
PROPERTIES
  Acquires
CHECK_DEADLOCK FALSE
