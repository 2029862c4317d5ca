SPECIFICATION FairSpec
CONSTANTS
  Fds = {f1}
  Workers = {w1}
  Main = main
  NoFd = NoFd
  MaxFd = 1
  ListenET = TRUE
  ConnET = TRUE
  Timeouts = {TRUE, FALSE}
  Timely = TRUE
  Prompt = FALSE
  HeaderUnits = 1
  BodyUnits = 1
  LoopUnits = 1
  SizeT = 4
  MaxArrivals = 2
  MaxSends = 2
INVARIANTS
  UserCountExact
PROPERTIES
  EndsUnlessOverslept
  DataIsRead
  
CHECK_DEADLOCK FALSE
