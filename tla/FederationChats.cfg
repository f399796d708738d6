SPECIFICATION FairSpec
CONSTANTS
  p = p
  q = q
  user = user
  User = user
  m1 = m1
  m2 = m2
  o1 = o1
  Daemons = {p, q}
  ChatMessages = {m1, m2}
  OtherEvents = {}
  MaxAcks = 2
  MaxCrashes = 0
  Limit = 1000
  AcksStored = FALSE
  AckMayFail = FALSE
  FetchMayFail = TRUE
INVARIANTS
  DaemonsKeepDags
PROPERTIES
  ChatMatures
CHECK_DEADLOCK FALSE
