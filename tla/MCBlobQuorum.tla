----------------------------- MODULE MCBlobQuorum -----------------------------
\* Instances of BlobQuorum for TLC.
EXTENDS BlobQuorum

CONSTANTS k1, k2, k3, k4, k5, j1, j2

FiveFounders == {k1, k2, k3, k4, k5}
TwoJoiners == {j1, j2}
SevenKeys == FiveFounders \cup TwoJoiners
=============================================================================
