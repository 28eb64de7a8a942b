SPECIFICATION Spec
CONSTANTS
  Characters = {c1}
  Threads = {t1, t2}
  KeyOf <- OneKey
  Logins = {i1}
  Purgers = {"logout", "cleanup"}
  Unlinkers = {"unlink"}
  ForSale = {c1}
  MaxUsers = 2
  MaxLanes = 2
  MaxActors = 2
INVARIANTS
  TypeOK
  GuestsAndLinksSound
PROPERTIES
  NobodyLoses
SYMMETRY Alike
CHECK_DEADLOCK FALSE
