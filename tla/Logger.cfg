SPECIFICATION FairSpec
CONSTANTS
  Writers = {w1, w2, w3}
  Flusher = Flusher
  NoThread = NoThread
  NoLine = NoLine
  capacity_ = 2
  MaxLines = 5
INVARIANTS
  PushNeverWaits
  NothingLost
  OvertakesFew
PROPERTIES
  EveryLineWritten
CHECK_DEADLOCK FALSE
