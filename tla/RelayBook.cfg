\* Three relays, two of them known from the start, and two events that name
\* any of them.
SPECIFICATION Spec
CONSTANTS
  r1 = r1
  r2 = r2
  r3 = r3
  Nobody = nobody
  Relays = {r1, r2, r3}
  Defaults = {r1, r2}
  Rank <- MCRank
  MaxNews = 2
INVARIANTS
  TypeOK
  RequestsAccounted
  DiscoveredOnce
PROPERTIES
  NamedAreDescribed
  NamedAreDiscovered
\* When every loop has ended and no event arrives the page is idle.
CHECK_DEADLOCK FALSE
