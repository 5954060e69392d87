CONSTANTS
  MaxCalls = 2
  MaxModelCalls = 2
SPECIFICATION FairSpec
INVARIANTS NothingLeftRunning CostIsFinal
PROPERTY Released
