SPECIFICATION FairSpec
CONSTANTS
  None = None
  Requests = {r1, r2}
  Invalid = {r2}
  Replayers = {w1}
  Callers = {}
  MaxReplays = 2
  MaxDlq = 3
  MaxFaults = 2
INVARIANTS
  NothingLeftBehind
PROPERTIES
  EveryDeadLetterPassed
CHECK_DEADLOCK FALSE
