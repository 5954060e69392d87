CONSTANTS
  Sessions = {s1, s2}
  MaxSteps = 2
SPECIFICATION Spec
INVARIANTS
  AdoptsItsOwn
  SlotIsGivenBack
  AnsweredInTurn
  ScoredInFull
PROPERTIES
  SessionsFinish
CHECK_DEADLOCK FALSE
