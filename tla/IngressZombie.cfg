SPECIFICATION Spec
CONSTANTS
  None = None
  r1 = r1
  r2 = r2
  r3 = r3
  r4 = r4
  r5 = r5
  s1 = s1
  s2 = s2
  p1 = p1
  p2 = p2
  k1 = k1
  k2 = k2
  Requests = {r1, r2, r3, r4}
  Streams = {s1}
  Partitions = {p1}
  Workers = {w1, w2}
  Keys = {k1, k2}
  StreamOf <- OneStream
  PartitionOf <- OnePartition
  KeyOf <- SharedAndLegacy
  LegacyKeys = {k2}
  Kind <- AllValid
  RoomSeq <- NoRoomSeq
  MaxRetries = 1
  MaxReplays = 1
  MaxPoll = 2
  MaxLog = 4
  MaxFaults = 3
SYMMETRY CallSymmetry
INVARIANTS
  NoDuplicateEvents
  StreamSequencesDense
  CommittedIsResolved
  StreamOrder
  OutboxMatchesMessages
PROPERTIES
  NothingIsTakenBack
  ImplementsEventStore
CHECK_DEADLOCK FALSE
