CONSTANTS
  Executors = {e1}
  MaxCalls = 1
  MaxSteps = 2
  Window = FALSE
  FinishNowait = FALSE
  CallsOutliveRun = FALSE
SPECIFICATION Spec
INVARIANT CrashIsReported
