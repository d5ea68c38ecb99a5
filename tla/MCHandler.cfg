SPECIFICATION MCSpec
CONSTANTS
  h1 = h1
  h2 = h2
  h3 = h3
  s1 = s1
  Nobody = Nobody
  Handlers <- MCHandlers
  Sessions <- MCSessions
  Owner <- MCOwner
  MaxSteps = 3
CHECK_DEADLOCK FALSE
INVARIANTS
  StepsAnsweredOnce
  QueuesConsistent
  AnswersAreTheWholeChain
  AnswersSeeTheirPrefix
  CutsDoNotMatter
  OnlyTheCapturedPositionDrifts
  EveryPromptOnce
PROPERTIES
  EveryStepAnswered
  ViewsForget
  DispatchEnds
