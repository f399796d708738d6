\* One page and a peer on the topic: damaged payloads, failing writes and
\* publications, and a reload at any step.
SPECIFICATION Spec
CONSTANTS
  Bridges = {b1}
  Peers = {p1}
  Nobody = nobody
  Events = {e1}
  MaxSends = 2
  MaxDamaged = 1
  MaxReloads = 2
  MayFail <- Calls
INVARIANTS
  TypeOK
  CarriedOnce
  SeenIsStored
PROPERTIES
  EventsCross
