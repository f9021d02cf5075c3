SPECIFICATION ApiSpec
CONSTANTS
  Clients = {c1, c2}
  Clusters <- MCClusters
  MinReadyStandbys = 2
  MinSyncStandbys = 1
  MaxDelay = 0
  CacheTime = 1
  MaxTime = 2
  MaxChanges = 2
INVARIANTS
  GraceKeepsHttpStatus
CHECK_DEADLOCK FALSE
