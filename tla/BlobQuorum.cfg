\* Five founding members, two keys that may join.
SPECIFICATION FairSpec
CONSTANTS
  k1 = k1
  k2 = k2
  k3 = k3
  k4 = k4
  k5 = k5
  j1 = j1
  j2 = j2
  PublicKeys <- SevenKeys
  InitialParticipants <- FiveFounders
INVARIANTS
  TypeOK
  SealsAreQuorums
PROPERTIES
  EveryoneMayJoin
\* Everybody has joined and attested in the end.
CHECK_DEADLOCK FALSE
