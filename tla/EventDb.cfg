\* Three calls of any kind, interleaved row by row, with failing rows and a
\* page that closes between any two rows.
SPECIFICATION Spec
CONSTANTS
  m1 = m1
  m2 = m2
  d = d
  alice = alice
  bob = bob
  relay = relay
  other = other
  None = none
  Events = {m1, m2, d}
  Users = {alice, bob}
  Relays = {relay, other}
  Metadata = {m1, m2}
  Author <- MCAuthor
  Tags <- MCTags
  RelayLists <- MCRelayLists
  MaxCalls = 3
  MaxCloses = 1
INVARIANTS
  ReferencesResolve
  InsertedIsComplete
PROPERTIES
  NothingTakenBack
\* The page may have nothing left to store.
CHECK_DEADLOCK FALSE
