SPECIFICATION MCSpec
CONSTANTS
  p1 = p1  p2 = p2  p3 = p3  p4 = p4  i1 = i1  i2 = i2  i3 = i3
  NoOwner = NoOwner  Nothing = Nothing
  Processes = {p1, p2, p3, p4}  Pids = {i1, i2, i3}
  PidOf <- ReusedPids  StartedAt <- StartTimes  MaxContenders = 1
  Turns = {"telegram", "web"}  IngressOf <- NamedTurns
  Drains = {0, 2}  PollEvery = 1  SweepBudget = 1  Headroom = 2  LastStop = 0
  Messages = {m}  Taps = {t}  MaxAge = 1  Retention = 2  Redelivery = 2
  MaxClock = 3  MaxBoots = 3
  Alerts = {a1, a2}  MaxActive = 2  MaxAttempts = 1  Batch = 1  Concurrency = 2
  MaxCrashes = 1
INVARIANTS
  TypesOK
  OwnerKeepsLock
  StopsSafe
  UpdatesSafe
  AlertsSafe

  
CHECK_DEADLOCK FALSE
