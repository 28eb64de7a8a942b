SPECIFICATION RequestsSpec
CONSTANTS
  u1 = u1  l1 = l1  l2 = l2  t1 = t1  t2 = t2  k1 = k1  k2 = k2
  Nothing = Nothing
  Users = {u1}
  Lanes = {l1}
  Threads = {t1, t2}
  Keys = {k1, k2}
  UserOf <- OneLane
  LaneOf <- TwoTalks
  MaxConcurrent = 2
  MaxPerLane = 2
  MaxActive = 2
  MaxRequests = 2
  MaxVersion = 0
  MaxStarts = 2
INVARIANTS
  OneLiveTurnPerThread
CHECK_DEADLOCK FALSE
