SPECIFICATION FairSpec
CONSTANTS
  Writers = {w1}
  Flusher = Flusher
  NoThread = NoThread
  NoLine = NoLine
  capacity_ = 2
  MaxLines = 2
PROPERTIES
  DestructorReturns
CHECK_DEADLOCK FALSE
