CONSTANTS
  a1 = a1
  a2 = a2
  Actors = {a1, a2}
  MaxCrashes = 1
  MaxCalls = 2
  Assignments <- SmallAssignments
SPECIFICATION Spec
INVARIANTS
  AnswersBelong
  CloseHasRun
  NothingForgotten
PROPERTIES
  CallsReturn
CHECK_DEADLOCK FALSE
