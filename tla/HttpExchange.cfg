SPECIFICATION Spec
CONSTANTS
  Nul <- MCNul
  InitSize = 8
  Overflow = 20
  Site <- MCSite
  TextUnits = 1
  Scripts <- MCScripts
  MaxFailures = 1
INVARIANTS
  BufferExact
  InOrder
  WholeServed
CHECK_DEADLOCK FALSE
