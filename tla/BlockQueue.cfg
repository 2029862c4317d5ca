SPECIFICATION FairSpec
CONSTANTS
  Threads = {t1, t2, t3, t4}
  Items = {x1}
  capacity_ = 2
  MaxPushes = 6
INVARIANTS
  NoStrandedItem
  NoStrandedSlot
PROPERTIES
  WaitersReleased
CHECK_DEADLOCK FALSE
