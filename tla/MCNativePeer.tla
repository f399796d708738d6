---------------------------- MODULE MCNativePeer ----------------------------
(***************************************************************************)
(* One mirrored repository that changes once, two mirror tasks at a time,  *)
(* and a channel of two commands, so that it is often full.                *)
(***************************************************************************)
EXTENDS NativePeer

CONSTANTS r1, t1, t2
=============================================================================
