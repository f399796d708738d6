------------------------------ MODULE QuorumRule ------------------------------
(***************************************************************************)
(* The quorum arithmetic shared by the DAG and the blob quorum             *)
(* (Dag::quorum_threshold, BlobQuorum::threshold).                         *)
(***************************************************************************)
EXTENDS Naturals

\* Mutant: a plain majority.
QuorumThresholdMajority(n) == n \div 2

\* ceil(4n/5) of n are required; the callers compare with ">", hence the
\* saturating minus one.
QuorumThreshold(n) ==
  LET required == (4 * n + 4) \div 5
  IN  IF required = 0 THEN 0 ELSE required - 1
=============================================================================
