CONSTANTS
  Runs = {r1, r2}
  Samplers = {q}
  Overlaps = {FALSE, TRUE}
  Overwrite = FALSE
  MaxStarts = 2
  MaxOverlapping = 1
  MaxRetries = 1
  QueriesAnywhere = FALSE
SPECIFICATION FairSpec
CHECK_DEADLOCK FALSE
INVARIANT SomeoneTakesIt
PROPERTIES RunsEnd CompletedSurvives RecordSpec
