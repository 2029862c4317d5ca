SPECIFICATION Spec
CONSTANTS
  Fds = {f1, f2, f3, f4, f5, f6}
  Timeout = 3
  Msec = 2
  MaxTime = 2
  MaxSetBacks = 1
SYMMETRY Symmetry
INVARIANTS
  WellFormed
PROPERTIES
  TimerSpec
CHECK_DEADLOCK FALSE
