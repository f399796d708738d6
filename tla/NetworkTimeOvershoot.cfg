SPECIFICATION Spec
CONSTANTS
  PeerOffset = 20
  MinSamples = 3
  Window = 4
  MaxOffset = 22
  MaxPending = 1
  MaxSilent = 12
  OtherOffsets = {}
  Nothing = Nothing
INVARIANT NeverOvershoots
