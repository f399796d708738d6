----------------------------- MODULE MCFederation -----------------------------
\* Instances of Federation for TLC.
EXTENDS FederationDags, TLC

CONSTANTS p, q, user, m1, m2, o1

\* The daemons run the same program (sound where no liveness is checked).
Symmetry == Permutations({p, q})
=============================================================================
