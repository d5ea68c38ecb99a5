SPECIFICATION FairSpec
CONSTANTS
  t1 = t1
  t2 = t2
  t3 = t3
  p1 = p1
  p2 = p2
  h1 = h1
  h2 = h2
  Stop = Stop
  NoTask = NoTask
  Tasks <- MCTasks
  Pools <- MCPools
  PoolOf <- MCPoolOf
  HandlerOf <- MCHandlerOf
  Kind <- MCKind
  Raising <- MCRaising
  Prefetch = 1
CHECK_DEADLOCK FALSE
INVARIANTS
  TasksConsistent
PROPERTIES
  InferenceFirst
  EveryTaskAnswered
  ShutdownEnds
