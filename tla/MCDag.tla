-------------------------------- MODULE MCDag --------------------------------
(***************************************************************************)
(* Instances of Dag for TLC.                                               *)
(* The graph has two roots, a diamond over them, an event by an outsider   *)
(* (x) and an event on top; a child may have a smaller id than its parent: *)
(*                                                                         *)
(*   4 a   6 b   2 b <- {4}   5 c <- {4,6}   1 a <- {2,5}                  *)
(*   3 x <- {1,6}                                                          *)
(*                                                                         *)
(* An event need never be delivered, so every id is also an id whose event *)
(* is missing for ever.  The key d signs nothing.                          *)
(***************************************************************************)
EXTENDS DagInvariant, TLC

MCEvents == 1..6
MCParents ==
  4 :> {} @@ 6 :> {} @@ 2 :> {4} @@ 5 :> {4, 6} @@ 1 :> {2, 5} @@ 3 :> {1, 6}
MCAuthor ==
  4 :> "a" @@ 6 :> "b" @@ 2 :> "b" @@ 5 :> "c" @@ 1 :> "a" @@ 3 :> "x"
=============================================================================
