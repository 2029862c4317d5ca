SPECIFICATION Spec
CONSTANTS
  Threads = {t1, t2, t3}
  Conns = {c1, c2}
  Count = 2
  NullConn = NullConn
  Forms = {FALSE}
  MaxCalls = 2
INVARIANTS
  ExclusiveUse
CHECK_DEADLOCK FALSE
