SPECIFICATION FairSpec
CONSTANTS
  None = None
  Readers = {c1}
  Resetters = {c2}
  Workers = {w1}
  Requests = {r1}
  Keyed = {}
  MaxStreams = 2
  MaxResets = 1
  MaxFaults = 1
  MaxRetries = 1
INVARIANTS
  RoomIdMonotonicity
  CountsAreExact
  WorkersNeverDeadlock
  AnswersAreOfOneEra
PROPERTIES
  EveryRequestAnswered
CHECK_DEADLOCK FALSE
