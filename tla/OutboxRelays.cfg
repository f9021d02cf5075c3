SPECIFICATION FairSpec
CONSTANTS
  None = None
  Relays = {p1, p2}
  Workers = {w1, w2}
  Malformed = {m1}
  Poison = {d1}
  Unpublishable = {2}
  MaxId = 2
  MaxResets = 1
  MaxFaults = 2
INVARIANTS
  DuplicatesNeedFailures
  NotificationNotLost
  AttemptIsOfItsEvent
PROPERTIES
  EveryEventNotified
CHECK_DEADLOCK FALSE
