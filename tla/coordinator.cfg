CONSTANTS
  Executors = {e1, e2}
  MaxCalls = 2
  MaxSteps = 2
  Window = TRUE
  FinishNowait = TRUE
  CallsOutliveRun = TRUE
SPECIFICATION FairSpec
INVARIANTS RoundsAreAnswered GivenInOrder SelectionKeepsAnswer
PROPERTIES CallsReturn SessionEnds
