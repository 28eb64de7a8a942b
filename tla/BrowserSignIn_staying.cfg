SPECIFICATION Spec
CONSTANTS
  Characters = {c1, c2}
  Threads = {t1}
  KeyOf <- OneKey
  Logins = {i1}
  Purgers = {"cleanup"}
  Unlinkers = {}
  ForSale = {}
  MaxUsers = 3
  MaxLanes = 3
  MaxActors = 1
INVARIANTS
  NothingStaysBehind
SYMMETRY Alike
CHECK_DEADLOCK FALSE
