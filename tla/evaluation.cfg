CONSTANTS
  Sessions = {s1, s2}
  Workers = {1, 2}
  MaxSteps = 1
  MaxActions = 2
  BatchSizes = {1}
  MaxRetries = 1
SPECIFICATION Spec
CONSTRAINT OneRetried
INVARIANTS
  SuccessReportsEverySession
  ReportedIsRecorded
PROPERTIES
  CancelStopsTheRun
  RunEnds
