CONSTANTS
  TicksPerMs <- MCTicksPerMs
  Limit <- MCLimit
  MaxStep <- MCMaxStep
  MaxTime <- MCMaxTime
SPECIFICATION FairLoopSpec
INVARIANTS
  TimeoutNotEarly
  TimeoutHasPolled
  AnswerInTimeTaken
PROPERTIES
  LoopEnds
CHECK_DEADLOCK FALSE
