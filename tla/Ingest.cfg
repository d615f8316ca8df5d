SPECIFICATION FairSpec
CONSTANTS
  Senders = {s1, s2}
  s1 = s1
  s2 = s2
  Loads <- MCLoads
  Slots = {1, 2}
  Timeout = 1
  Retention = 1
  Skew = 1
  PageSize = 3
  MaxLimit = 2
  DefaultLimit = 1
  Missing = Missing
  MaxClock = 2
  MaxLost = 1
INVARIANTS TypeOK AcknowledgedStays StoredOnce
PROPERTIES DeletesOnlyOld PagingSkipsNothing EverySenderGetsThrough
CHECK_DEADLOCK FALSE
