SPECIFICATION Spec
CONSTANTS
  None = None
  Requests = {r1}
  Invalid = {}
  Replayers = {w1}
  Callers = {c1}
  MaxReplays = 1
  MaxDlq = 2
  MaxFaults = 1
INVARIANTS
  NothingLeftBehind
CHECK_DEADLOCK FALSE
