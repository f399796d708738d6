SPECIFICATION FairSpec
CONSTANTS
  PeerOffset = 5
  MinSamples = 3
  Window = 4
  MaxOffset = 7
  MaxPending = 3
  MaxSilent = 3
  OtherOffsets = {3, 7}
  Nothing = Nothing
INVARIANTS TypeOK PersistedIsCurrent StatusIsEarned
PROPERTY RetriesDieOut
