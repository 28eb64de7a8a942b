SPECIFICATION MCSpec
CONSTANTS
  c1 = c1  c2 = c2  c3 = c3  c4 = c4  c5 = c5  sa = sa  sb = sb
  Nothing = Nothing
  Calls = {c1, c2, c3, c4, c5}
  Signals = {sa, sb}
  SignalOf <- Shared
  MaxConcurrent = 2
  MaxQueued = 2
  Systems = {"y", "z"}  Streams = {"s1", "s2", "s3"}  Pilots = {"c"}
  Accounts = {"u", "v"}  AccountOf <- StreamAccounts
  MaxSessions = 1  MaxPerUser = 1  MaxFailures = 2  MaxMade = 2
  Near <- Apart  Kills = {"k", "l"}  SystemOf <- OneEach  Routes = {"r"}  MaxPlans = 2
  Mails = {"g", "o"}  Regarded = {"y"}  WhereOf <- OnePlace  GateMails = {"g"}
  Viewers = {"v1", "v2"}  Retention = 1  GateRetention = 3  Ttl = 1  FillTime = 2
  MaxRows = 1  Redelivery = 3  MaxHours = 3
  Workers = {"w1", "w2"}  MaxTasks = 3  MaxIterations = 2  MaxModelCalls = 4
  MaxLeaves = 3  MaxCalls = 2
  Owners = {"u", "v"}  Characters = {"a", "b"}  Datasets = {"j"}  Retained = {"j"}
  Syncs = {"c1", "c2"}  OwnerOf <- OneOwner  MaxVersion = 1  MaxMoves = 1
INVARIANTS
  TypesOK
  SlotsAreHeld
  
  AnswersSound
PROPERTIES
  NoOvertaking
  
CHECK_DEADLOCK FALSE
