CONSTANTS
  Benchmarks = {"gsm8k", "hotpotqa", "hle", "browsecomp", "swebench", "appworld", "bfcl"}
  MaxInteractions = 3
  LastTurn = 2
  AgentSteps = 3
  MaxReply = 2
  MaxSteps = 3
  MaxActions = 4
SPECIFICATION DialogueSpec
INVARIANTS CallsAreAnswered FinishIsHonest SavedAsRecorded
CHECK_DEADLOCK FALSE
