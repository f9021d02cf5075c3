SPECIFICATION Spec
CONSTANTS
  None = None
  Requests = {r1}
  Invalid = {}
  Replayers = {w1, w2}
  Callers = {c1}
  MaxReplays = 1
  MaxDlq = 3
  MaxFaults = 2
SYMMETRY ReplayerSymmetry
INVARIANTS
  CopiesNeedFailures
  PublishedIsSent
CHECK_DEADLOCK FALSE
