SPECIFICATION Spec
SYMMETRY Symmetry
CONSTANTS
  p = p
  q = q
  user = user
  User = user
  m1 = m1
  m2 = m2
  o1 = o1
  Daemons = {p, q}
  ChatMessages = {m1}
  OtherEvents = {o1}
  MaxAcks = 4
  MaxCrashes = 2
  Limit = 3
  AcksStored = TRUE
  AckMayFail = TRUE
  FetchMayFail = FALSE
INVARIANTS
  TypeOK
  NoAckStorm
  QuietAgreement
CHECK_DEADLOCK FALSE
