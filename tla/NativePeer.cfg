SPECIFICATION FairPeerSpec
CONSTANTS
  r1 = r1
  t1 = t1
  t2 = t2
  None = None
  Absent = Absent
  Empty = Empty
  Repos = {r1}
  Tasks = {t1, t2}
  Capacity = 2
  MaxVersion = 1
  MaxRounds = 1
  MaxSamples = 1
INVARIANTS
  PeerTypeOK
PROPERTIES
  EveryRoundEnds
  CacheRefreshed
