SPECIFICATION FairSpec
CONSTANTS
  Kills = {m}
  KillOf <- OneEvent
  Polls = {"location", "death"}
  MaxSeq = 1
  MaxRuns = 2
  MaxStarts = 2
INVARIANTS
  TypeOK
  MonitorIsTrue
PROPERTIES
  AlertedOnce
  FeedGoesOn
CHECK_DEADLOCK FALSE
