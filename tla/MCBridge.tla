------------------------------ MODULE MCBridge ------------------------------
(* Instances of Bridge for TLC. *)
EXTENDS Bridge

Calls == {"db", "send"}
=============================================================================
