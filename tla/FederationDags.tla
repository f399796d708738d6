---------------------------- MODULE FederationDags ----------------------------
(***************************************************************************)
(* Federation composed with the DAG of a participant.  In Federation a     *)
(* daemon's Dag is the set of events it has received; module Dag shows     *)
(* (OrderLeavesNoTrace) that between two calls a Dag is a function of that *)
(* set.  Here is what is left to say: the events that users and daemons    *)
(* sign form a graph of the kind Dag is about, however signing, crashes    *)
(* and refused acks interleave, and what Federation reads off the set of   *)
(* received events is that function.                                       *)
(***************************************************************************)
EXTENDS Federation

CONSTANT User    \* the key of the users, which is not in FEDERATION_PUBKEYS

ASSUME UserAssumption == User \notin Daemons

\* Who signed an event.
Signer == [e \in Ids |-> IF e \in Acks THEN e[1] ELSE User]

Graph == INSTANCE EventGraph WITH
  Events <- Ids, PublicKeys <- Daemons \cup {User}, Parents <- parents, Author <- Signer

(***************************************************************************)
(* No event descends from itself, although a daemon that restarts signs    *)
(* anew on what it finds; and the stored events of a daemon, and whom it   *)
(* has seen acknowledge an event, are those of a Dag that was given what   *)
(* the daemon has received since it started.                               *)
(***************************************************************************)
DaemonsKeepDags ==
  /\ Graph!Acyclic
  /\ \A d \in Daemons :
       LET seen == Graph!SeenAlso(Graph!Unseen, Visible(d), Daemons)
       IN  /\ Visible(d) = Graph!Connected(received[d])
           /\ \A e \in Ids : SeenBy(Visible(d), e) = seen[e]
=============================================================================
