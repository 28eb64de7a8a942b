SPECIFICATION RequestsSpec
CONSTANTS
  u1 = u1  l1 = l1  l2 = l2  t1 = t1  t2 = t2  k1 = k1  k2 = k2
  Nothing = Nothing
  Users = {u1}
  Lanes = {l1, l2}
  Threads = {t1, t2}
  Keys = {k1}
  UserOf <- TwoLanes
  LaneOf <- OneEach
  MaxConcurrent = 1
  MaxPerLane = 1
  MaxActive = 2
  MaxRequests = 2
  MaxVersion = 1
  MaxStarts = 2
INVARIANTS
  ConcurrencyBounded
PROPERTIES
  RequestsResolve
CHECK_DEADLOCK FALSE
