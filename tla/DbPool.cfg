SPECIFICATION FairSpec
CONSTANTS
  None = None
  Startup = Startup
  Threads = {t1, t2}
  Pools = {1, 2, 3, 4}
  MaxConn = 2
  Retries = 2
  MaxFaults = 3
INVARIANTS
  CountsAgree
  NoPoolForgotten
PROPERTIES
  NoneCutOff
  RetiredPoolCloses
  StartupCompletes
CHECK_DEADLOCK FALSE
