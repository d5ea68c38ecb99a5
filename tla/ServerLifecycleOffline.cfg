SPECIFICATION Spec
CONSTANTS
  NumBlocks = 3
  Length = 2
  MaxLives = 3
  Absent = Absent
CHECK_DEADLOCK FALSE
INVARIANT
  OfflineAnnounced
