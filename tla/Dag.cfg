\* Two initial participants, three keys that join, any interleaving of joins
\* with the delivery of six events.
SPECIFICATION Spec
CONSTANTS
  Events <- MCEvents
  PublicKeys = {"a", "b", "c", "d", "x"}
  Parents <- MCParents
  Author <- MCAuthor
  InitialParticipants = {"a", "b"}
INVARIANTS
  TypeOK
  SeenByInherited
  CanonicalOrderIsCausal
  SeenByHasEvidence
  QuorumsOverlap
  TipsCoverEverything
  OrderLeavesNoTrace
PROPERTIES
  CanonicalOrderOnlyGrows
  ImplementsDeliveredDag
