--------------------------- MODULE MCNetworkTime ---------------------------
(***************************************************************************)
(* NetworkTime.cfg: a peer 5 ms ahead, so that one millisecond is all a    *)
(* sample calls for, and three rounds that overlap.                        *)
(* NetworkTimeOvershoot.cfg: a peer 20 ms ahead, one round at a time, and  *)
(* as many unanswered rounds as it takes.                                  *)
(***************************************************************************)
EXTENDS NetworkTime
=============================================================================
