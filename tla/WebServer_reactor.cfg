SPECIFICATION Spec
CONSTANTS
  Fds = {f1, f2}
  Workers = {w1, w2}
  Main = main
  NoFd = NoFd
  MaxFd = 2
  ListenET = TRUE
  ConnET = TRUE
  Timeouts = {TRUE}
  Timely = TRUE
  Prompt = TRUE
  HeaderUnits = 1
  BodyUnits = 1
  LoopUnits = 1
  SizeT = 4
  MaxArrivals = 2
  MaxSends = 2
SYMMETRY Symmetry
VIEW View
INVARIANTS
  OneHandler
  NoOrphan
  UserCountExact
  DescriptorsTracked
  TimerCovers
  NoDanglingFile
  RetrieveInRange
PROPERTIES
  CompleteResponse
CHECK_DEADLOCK FALSE
