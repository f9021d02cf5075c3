SPECIFICATION Spec
CONSTANTS
  None = None
  Prober = prober
  Reader = reader
  Clients = {prober, reader, other}
  Partition = p0
  Partitions = {p0}
  Clusters <- MCClusters
  MinReadyStandbys = 2
  MinSyncStandbys = 1
  MaxDelay = 0
  RequiredStandbys = 2
  RequiredSync = 1
  AllowedDelay = 0
  CacheTime = 2
  SampleCount = 2
  SourceAge = 1
  SampleAge = 1
  ReadinessAge = 1
  ResourceAge = 2
  SummaryAge = 2
  MaxTime = 4
  Starts <- MCStarts
  MaxChanges = 2
INVARIANTS
  DbJudgementIsReal
  NoBacklogIsReal
  WorkerJudgementIsReal
  SummaryIsRecent
CHECK_DEADLOCK FALSE
