---------------------------- MODULE MCRelayBook -----------------------------
(* An instance of RelayBook for TLC. *)
EXTENDS RelayBook

CONSTANTS r1, r2, r3

MCRank == [r \in Relays |-> CASE r = r1 -> 1 [] r = r2 -> 2 [] r = r3 -> 3]
=============================================================================
