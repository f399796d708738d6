----------------------------- MODULE DagInvariant -----------------------------
(***************************************************************************)
(* The inductive invariant of Dag, for TLC (MCDag) and for the proofs      *)
(* (DagProofs).                                                            *)
(***************************************************************************)
EXTENDS Dag

\* What is stored contains its parents and nothing that is buffered.
StoredClosed ==
  /\ events \cap pending = {}
  /\ ParentClosed(events)

\* waiting_for holds e under p exactly if e is buffered and p is a parent of
\* it that is not stored.
WaitingExact ==
  /\ \A e \in pending : \A p \in Missing(e) : e \in waitingFor[p]
  /\ \A p \in Events : \A e \in waitingFor[p] : e \in pending /\ p \in Missing(e)

\* A buffered event whose parents are all stored is on the worklist.
UnblockedInWorklist == \A e \in pending : Missing(e) = {} => e \in toProcess

\* seen_by names participants, and only for stored events.
SeenByStored ==
  \A e \in Events : /\ seenBy[e] \subseteq participants
                    /\ seenBy[e] # {} => e \in events

\* Depth grows along every edge.
DepthIncreases ==
  \A e \in events : \A p \in Parents[e] : depthCache[p] < depthCache[e]

\* children lists the edges of the graph backwards.
ChildrenExact ==
  \A p \in Events : children[p] = {e \in events : p \in Parents[e]}

BufferInv == StoredClosed /\ WaitingExact /\ UnblockedInWorklist
GraphInv == SeenByStored /\ SeenByInherited /\ DepthIncreases
(***************************************************************************)
(* The inductive invariant: what the fields of Dag mean to each other,     *)
(* also while process_unblocked is in the middle of its worklist.          *)
(***************************************************************************)
IInv == TypeOK /\ BufferInv /\ GraphInv

\* What the tips and the refinement of DeliveredDag need besides.
LinksInv == ChildrenExact /\ IsFiniteSet(Received)

\* What the order of delivery leaves behind, besides: nothing in the depths,
\* nor in seen_by while nobody has joined, and nobody ever leaves.
TraceInv ==
  /\ InitialParticipants \subseteq participants
  /\ IsDepthMap(depthCache, events)
  /\ participants = InitialParticipants =>
       seenBy = SeenAlso(Unseen, events, participants)
=============================================================================
