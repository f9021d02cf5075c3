SPECIFICATION FairSpec
CONSTANTS
  None = None
  r1 = r1
  r2 = r2
  r3 = r3
  r4 = r4
  r5 = r5
  s1 = s1
  s2 = s2
  p1 = p1
  p2 = p2
  k1 = k1
  k2 = k2
  Requests = {r1, r2, r3, r4, r5}
  Streams = {s1, s2}
  Partitions = {p1, p2}
  Workers = {w1, w2}
  Keys = {k1}
  StreamOf <- TwoStreams
  PartitionOf <- StreamsApart
  KeyOf <- NoKeys
  LegacyKeys = {}
  Kind <- MixedKinds
  RoomSeq <- OldJobAhead
  MaxRetries = 1
  MaxReplays = 0
  MaxPoll = 1
  MaxLog = 2
  MaxFaults = 1
INVARIANTS
  StatusIsBacked
PROPERTIES
  EveryRecordHandled
CHECK_DEADLOCK FALSE
