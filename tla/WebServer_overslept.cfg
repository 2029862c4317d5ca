SPECIFICATION FairSpec
CONSTANTS
  Fds = {f1}
  Workers = {w1}
  Main = main
  NoFd = NoFd
  MaxFd = 1
  ListenET = TRUE
  ConnET = TRUE
  Timeouts = {TRUE}
  Timely = TRUE
  Prompt = FALSE
  HeaderUnits = 1
  BodyUnits = 1
  LoopUnits = 1
  SizeT = 4
  MaxArrivals = 1
  MaxSends = 1
PROPERTIES
  EveryConnectionEnds
CHECK_DEADLOCK FALSE
