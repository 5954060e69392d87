SPECIFICATION Spec
CONSTANTS
  Modes = {"isolated", "sequential", "interleaved"}
  NumTasks = 3
  Block <- MCBlock
  MaxLaunches = 2
  MaxInterrupts = 1
  MaxTransients = 1
INVARIANTS
  UninterruptedIsExact
  SkippedWorkIsDone
  OneRelaunchReports
