CONSTANTS
  Loggers = {sync, async}
  Contents = {instructions, question}
  MaxLogged = 2
  MaxRemovals = 1
  MaxRestarts = 1
SPECIFICATION TraceSpec
INVARIANT CallsCanBeRestored
CHECK_DEADLOCK FALSE
