-------------------------- MODULE MCBundleReceiver --------------------------
(***************************************************************************)
(* Three publications of the bundle of one repository: two data slices and *)
(* the parity slice of both, all naming the manifest                       *)
(* (build_transfer_slice_event); a single data slice; two data slices and  *)
(* their parity in a chain (the native peer).  One of a second repository  *)
(* that fits into a single slice.                                          *)
(***************************************************************************)
EXTENDS BundleReceiver, TLC

CONSTANTS main, other, flat, again, chained, single

Calls == {1, 2, 3}
WantedByCall == <<main, main, other>>
Publishers == {flat, again, chained, single}
PathOf == flat :> main @@ again :> main @@ chained :> main @@ single :> other
PacketsOf == flat :> 3 @@ again :> 1 @@ chained :> 3 @@ single :> 1
ParityOf == [p \in Publishers |-> IF p \in {flat, chained} THEN {3} ELSE {}]
ChainedOf == [p \in Publishers |-> p \in {chained, single}]
=============================================================================
