SPECIFICATION MCSpec
CONSTANTS
  k1 = k1  k2 = k2  topic = topic
  batch = batch  e1 = e1  e2 = e2  prices = prices  o1 = o1  o2 = o2  o3 = o3
  u1 = u1  u2 = u2  third = third  Nothing = Nothing
  Chats = {chat}
  Topics = {topic}
  Kills = {k1, k2}
  KillOf <- Repeating
  TopicsOf <- OneTopic
  PageLimit = 1
  AheadPages = 1
  MaxWatches = 1
  MaxSeq = 3
  MaxStarts = 2
  Tools = {batch, e1, e2, prices}  Batches = {batch}
  Children <- BatchChildren  Leaves <- ToolLeaves
  MaxReads = 1  MaxEsi = 1  MaxQueued = 1  Workers = 2
  Users = {u1, u2}  Callers = {ca, cb, third}  UserOf <- TwoAndOne
  MaxSignIns = 2  MaxGrants = 2
INVARIANTS
  TypesOK
  CursorAfterDelivery
  MonitorsListen
  ToolsSafe
  TokensSafe
PROPERTIES
  NeverSentAgain
  FeedFollows
  CallsEnd
CHECK_DEADLOCK FALSE
