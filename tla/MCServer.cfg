SPECIFICATION MCSpec
CONSTANTS
  NumBlocks = 3
  Length = 2
  MaxLives = 3
  Absent = Absent
CHECK_DEADLOCK FALSE
INVARIANTS
  OnlineWhenLoaded
  RecordsConsistent
  
  SimulationEnds
  SizesHold
PROPERTIES
  NewsOnly
  BecomesOnline
  ShutdownEnds
  GoneInTheEnd
  
  MovesKeepTheSwarmWhole
  SwarmBecomesWhole
