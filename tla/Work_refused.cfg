SPECIFICATION MCSpec
CONSTANTS
  dd = dd
  Modes <- AllModes  Batches <- TwoBatches  MaxTurns = 2  MaxIterations = 3
  MaxRetries = 1  MaxRecoveries = 1  MaxNudges = 1  MaxEmpty = 1  Keep = 1
  Unprompted = FALSE
  Order <- TwoRegions  BookPages <- TwoBooks  MajorMinPages = 2  MajorInterval = 1
  MinorInterval = 2  StaleAfter = 0  CacheWindow = 1  PoolSize = 2  MinRows = 1
  MaxRotation = 1  MaxHour = 2
  Chats = {tg, dc, dd}  DiscordChats = {dc, dd}  UserOf <- TwoUsers
  MaxActive = 2  MaxPerWindow = 2  MaxBotTurns = 3
  Calls = {a, b}  Chars = {k1, k2}  MaxVersion = 1  PagesAt <- TwoPages
  MaxPages = 2  MaxAttempts = 2
  Pairs = {p}  Day = 3  Rebuild = 1  Buffer = 1  Backoff = 1  TopInterval = 1
  Grace = 2  MaxPerTick = 2  Concurrency = 1  MaxTime = 6  MaxChanges = 3
  Pilots = {pilot}  Lists = {"mail"}  MaxId = 2  Members = {"o"}  MaxCrashes = 1
  Nothing = Nothing
INVARIANT
  RefusedMayRetry
CHECK_DEADLOCK FALSE
