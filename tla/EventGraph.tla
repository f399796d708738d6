------------------------------ MODULE EventGraph ------------------------------
(***************************************************************************)
(* The signed events of a federation as a graph.  An event is its id: the  *)
(* id is the hash of the content, so it fixes the author and the parents,  *)
(* which are the ids in the "e" tags (parents_of, src/event.rs).           *)
(***************************************************************************)
EXTENDS Naturals, FiniteSets

CONSTANTS
  Events,       \* event ids
  PublicKeys,   \* public keys, of participants and of outsiders
  Parents,      \* Parents[e]: the ids in the "e" tags of e
  Author        \* Author[e]: the key that signed e

ASSUME GraphAssumption ==
  /\ Parents \in [Events -> SUBSET Events]
  /\ Author \in [Events -> PublicKeys]

\* The id of an event hashes the ids of its parents: no event descends from
\* itself, so some event of a finite set has no parent in the set.
Acyclic ==
  \A S \in SUBSET Events :
     IsFiniteSet(S) /\ S # {} => \E e \in S : Parents[e] \cap S = {}

ASSUME AcyclicAssumption == Acyclic

ParentClosed(S) == \A e \in S : Parents[e] \subseteq S

\* e itself and everything it descends from.
Ancestors(e) ==
  {x \in Events : \A S \in SUBSET Events : e \in S /\ ParentClosed(S) => x \in S}

\* The largest part of D that contains all its parents.
Connected(D) == UNION {S \in SUBSET D : ParentClosed(S)}

\* f gives each event of S its depth: the number of edges on the longest path
\* from it down to an event without parents.
IsDepthMap(f, S) ==
  \A e \in S :
     /\ \A p \in Parents[e] : f[p] < f[e]
     /\ f[e] # 0 => \E p \in Parents[e] : f[e] = f[p] + 1

\* Nobody has seen anything.
Unseen == [e \in Events |-> {}]

\* seen, and the members among the authors of V have seen what V descends from.
SeenAlso(seen, V, members) ==
  [e \in Events |->
     seen[e] \cup {p \in members : \E f \in V : Author[f] = p /\ e \in Ancestors(f)}]
=============================================================================
