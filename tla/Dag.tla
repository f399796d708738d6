-------------------------------- MODULE Dag --------------------------------
(***************************************************************************)
(* The in-memory DAG of one participant (src/dag.rs): events arrive in any *)
(* order, an event whose parents are not all stored is buffered, storing   *)
(* an event unblocks the buffered events that waited for it, and every     *)
(* stored event of a participant marks all its ancestors as seen by it.    *)
(***************************************************************************)
EXTENDS EventGraph, QuorumRule

CONSTANT InitialParticipants    \* the keys given to Dag::new

\* Ids are 256-bit numbers, of which only the order matters.
ASSUME OrderAssumption == Events \subseteq Nat

ASSUME ParticipantsAssumption ==
  /\ InitialParticipants \subseteq PublicKeys
  /\ IsFiniteSet(InitialParticipants)

VARIABLES
  events,         \* ids of the stored events
  seenBy,         \* participants known to have seen an event
  participants,
  threshold,      \* canonical: seen by MORE than threshold participants
  depthCache,     \* depth of a stored event, 0 for the others
  children,       \* stored events that name an id as parent
  pending,        \* received events with a parent that is not stored
  waitingFor,     \* buffered events to look at when an id is stored
  toProcess       \* the worklist of process_unblocked

graph == <<events, seenBy, depthCache, children>>
buffer == <<pending, waitingFor, toProcess>>
quorum == <<participants, threshold>>
vars == <<events, seenBy, participants, threshold, depthCache, children,
          pending, waitingFor, toProcess>>

Init ==
  /\ events = {}
  /\ seenBy = [e \in Events |-> {}]
  /\ participants = InitialParticipants
  /\ threshold = QuorumThreshold(Cardinality(InitialParticipants))
  /\ depthCache = [e \in Events |-> 0]
  /\ children = [e \in Events |-> {}]
  /\ pending = {}
  /\ waitingFor = [e \in Events |-> {}]
  /\ toProcess = {}

----------------------------------------------------------------------------
(***************************************************************************)
(* The walk of mark_seen_by_ancestors from id: the ids the stack reaches   *)
(* when the parents of an id are pushed only if the id was not yet marked  *)
(* (HashSet::insert returned true) and its event is stored.                *)
(***************************************************************************)
WalkClosed(S, p, stored) ==
  \A x \in S : x \in stored /\ p \notin seenBy[x] => Parents[x] \subseteq S

Reached(id, p, stored) ==
  {x \in Events :
     \A S \in SUBSET Events : id \in S /\ WalkClosed(S, p, stored) => x \in S}

\* Mutant: the walk stops after the parents.
MarkSeenByParents(id, p, stored) ==
  [x \in Events |-> IF x \in {id} \cup Parents[id] THEN seenBy[x] \cup {p}
                                                   ELSE seenBy[x]]

MarkSeenByAncestors(id, p, stored) ==
  LET reached == Reached(id, p, stored)
  IN  [x \in Events |-> IF x \in reached THEN seenBy[x] \cup {p} ELSE seenBy[x]]

\* Mutant: one more than the depth of some parent.
IsDepthOverSomeParent(id, d) ==
  LET known == Parents[id] \cap events
  IN  IF known = {} THEN d = 0 ELSE \E p \in known : d = depthCache[p] + 1

\* compute_depth: one more than the deepest parent, 0 without parents.
IsDepth(id, d) ==
  LET known == Parents[id] \cap events
  IN  /\ \A p \in known : depthCache[p] < d
      /\ d # 0 => \E p \in known : d = depthCache[p] + 1

Depths(id) == {0} \cup {depthCache[p] + 1 : p \in Parents[id] \cap events}

\* Mutant: an outsider's event marks its ancestors too.
StoreMarkingAlways(id) ==
  /\ children' = [x \in Events |-> IF x \in Parents[id]
                                     THEN children[x] \cup {id}
                                     ELSE children[x]]
  /\ \E d \in Depths(id) :
        IsDepth(id, d) /\ depthCache' = [depthCache EXCEPT ![id] = d]
  /\ events' = events \cup {id}
  /\ seenBy' = MarkSeenByAncestors(id, Author[id], events \cup {id})

\* Mutant: the parents are recorded as the children of the event.
StoreInvertingEdges(id) ==
  /\ children' = [children EXCEPT ![id] = @ \cup Parents[id]]
  /\ \E d \in Depths(id) :
        IsDepth(id, d) /\ depthCache' = [depthCache EXCEPT ![id] = d]
  /\ events' = events \cup {id}
  /\ seenBy' = IF Author[id] \in participants
                 THEN MarkSeenByAncestors(id, Author[id], events \cup {id})
                 ELSE seenBy

\* insert_ready
Store(id) ==
  /\ children' = [x \in Events |-> IF x \in Parents[id]
                                     THEN children[x] \cup {id}
                                     ELSE children[x]]
  /\ \E d \in Depths(id) :
        IsDepth(id, d) /\ depthCache' = [depthCache EXCEPT ![id] = d]
  /\ events' = events \cup {id}
  /\ seenBy' = IF Author[id] \in participants
                 THEN MarkSeenByAncestors(id, Author[id], events \cup {id})
                 ELSE seenBy

----------------------------------------------------------------------------
(***************************************************************************)
(* A call of insert or add_participant has the DAG for itself (&mut self), *)
(* so it starts only when the worklist of the previous one is exhausted.   *)
(***************************************************************************)
Idle == toProcess = {}
Received == events \cup pending
Missing(id) == Parents[id] \ events

InsertDuplicate(id) ==
  /\ Idle
  /\ id \in Received
  /\ UNCHANGED vars

\* The parents are all stored: store the event and start the worklist with
\* the events that waited for it.
InsertReady(id) ==
  /\ Idle
  /\ id \notin Received
  /\ Missing(id) = {}
  /\ Store(id)
  /\ toProcess' = waitingFor[id]
  /\ waitingFor' = [waitingFor EXCEPT ![id] = {}]
  /\ UNCHANGED <<pending, participants, threshold>>

\* Mutant: the event is registered under one of its missing parents only.
InsertBufferedOnce(id) ==
  /\ Idle
  /\ id \notin Received
  /\ \E p \in Missing(id) : waitingFor' = [waitingFor EXCEPT ![p] = @ \cup {id}]
  /\ pending' = pending \cup {id}
  /\ UNCHANGED <<graph, quorum, toProcess>>

InsertBuffered(id) ==
  /\ Idle
  /\ id \notin Received
  /\ Missing(id) # {}
  /\ waitingFor' = [x \in Events |-> IF x \in Missing(id)
                                       THEN waitingFor[x] \cup {id}
                                       ELSE waitingFor[x]]
  /\ pending' = pending \cup {id}
  /\ UNCHANGED <<graph, quorum, toProcess>>

\* The two ways an iteration of process_unblocked ends for a popped id: the
\* id is dropped (it is gone from pending, or another parent is missing) ...
UnblockDrop(id) ==
  /\ id \in toProcess
  /\ id \notin pending \/ Missing(id) # {}
  /\ toProcess' = toProcess \ {id}
  /\ UNCHANGED <<graph, quorum, pending, waitingFor>>

\* Mutant: what waited for an unblocked event is forgotten.
UnblockStoreOneLevel(id) ==
  /\ id \in toProcess
  /\ id \in pending
  /\ Missing(id) = {}
  /\ pending' = pending \ {id}
  /\ Store(id)
  /\ toProcess' = toProcess \ {id}
  /\ waitingFor' = [waitingFor EXCEPT ![id] = {}]
  /\ UNCHANGED quorum

\* ... or it is stored, and the events that waited for it join the worklist.
UnblockStore(id) ==
  /\ id \in toProcess
  /\ id \in pending
  /\ Missing(id) = {}
  /\ pending' = pending \ {id}
  /\ Store(id)
  /\ toProcess' = (toProcess \ {id}) \cup waitingFor[id]
  /\ waitingFor' = [waitingFor EXCEPT ![id] = {}]
  /\ UNCHANGED quorum

\* Mutant: the threshold stays that of the smaller membership.
AddParticipantStale(key) ==
  /\ Idle
  /\ key \notin participants
  /\ participants' = participants \cup {key}
  /\ UNCHANGED <<graph, buffer, threshold>>

\* add_participant of a key that is not a participant yet; of one that is,
\* it changes nothing.
AddParticipant(key) ==
  /\ Idle
  /\ key \notin participants
  /\ participants' = participants \cup {key}
  /\ threshold' = QuorumThreshold(Cardinality(participants'))
  /\ UNCHANGED <<graph, buffer>>

Insert(id) == InsertDuplicate(id) \/ InsertReady(id) \/ InsertBuffered(id)
ProcessUnblocked(id) == UnblockDrop(id) \/ UnblockStore(id)

Next ==
  \/ \E id \in Events : Insert(id) \/ ProcessUnblocked(id)
  \/ \E key \in PublicKeys : AddParticipant(key)

Spec == Init /\ [][Next]_vars

----------------------------------------------------------------------------
\* The queries of the DAG.

IsCanonical(id) == Cardinality(seenBy[id]) > threshold
CanonicalEvents == {id \in events : IsCanonical(id)}
Tips == {id \in events : children[id] = {}}
MissingParents == {id \in Events : waitingFor[id] # {}}

\* Mutants: order by how many events build on the event; order by id alone.
BeforeByAcks(a, b) == Cardinality(children[a]) > Cardinality(children[b])
BeforeById(a, b) == a < b

\* canonical_order sorts by (depth, id).  Ids are compared as numbers.
Before(a, b) ==
  \/ depthCache[a] < depthCache[b]
  \/ depthCache[a] = depthCache[b] /\ a < b

----------------------------------------------------------------------------
\* Type correctness of the fields of Dag.
TypeOK ==
  /\ events \subseteq Events
  /\ pending \subseteq Events
  /\ toProcess \subseteq Events
  /\ seenBy \in [Events -> SUBSET PublicKeys]
  /\ participants \subseteq PublicKeys
  /\ IsFiniteSet(participants)
  /\ threshold = QuorumThreshold(Cardinality(participants))
  /\ depthCache \in [Events -> Nat]
  /\ children \in [Events -> SUBSET Events]
  /\ waitingFor \in [Events -> SUBSET Events]

(***************************************************************************)
(* mark_seen_by_ancestors stops at the first marked id.  That loses no     *)
(* ancestor because a parent has been seen by all who saw its child.       *)
(***************************************************************************)
SeenByInherited ==
  \A e \in events : \A p \in Parents[e] : seenBy[e] \subseteq seenBy[p]

\* A canonical event has only canonical ancestors, so canonical_order never
\* lists an event whose parents are not listed, and lists parents first.
CanonicalOrderIsCausal ==
  \A e \in CanonicalEvents : \A p \in Parents[e] :
     p \in CanonicalEvents /\ Before(p, e)

\* Nobody is counted as having seen an event without having signed a stored
\* event that descends from it, and only participants are counted.
SeenByHasEvidence ==
  \A e \in Events : \A p \in seenBy[e] :
     p \in participants /\ \E f \in events : Author[f] = p /\ e \in Ancestors(f)

(***************************************************************************)
(* Two canonical events share at least three fifths of the participants,   *)
(* which is what the threshold of 4/5 (QUORUM_NUMERATOR,                   *)
(* QUORUM_DENOMINATOR) is for.                                             *)
(***************************************************************************)
QuorumsOverlap ==
  \A a, b \in CanonicalEvents :
     5 * Cardinality(seenBy[a] \cap seenBy[b]) >= 3 * Cardinality(participants)

\* tips lists the stored events no stored event names as a parent: what an
\* ack must name for its author to acknowledge everything it has stored.
TipsCoverEverything ==
  \A e \in events : \E t \in Tips : e \in Ancestors(t)

(***************************************************************************)
(* The canonical order only grows (PLAN.md, "once canonical, always        *)
(* canonical"): what is canonical stays canonical unless a participant     *)
(* joins, and two events never swap, whoever joins.                        *)
(***************************************************************************)
CanonicalOrderGrows ==
  /\ participants' = participants => CanonicalEvents \subseteq CanonicalEvents'
  /\ \A a, b \in CanonicalEvents : Before(a, b) <=> Before(a, b)'

CanonicalOrderOnlyGrows == [][CanonicalOrderGrows]_vars

\* Between calls nothing received is held back once all it descends from is
\* there: the promised DAG is the one in the fields.
NothingHeldBack == Idle => Connected(Received) = events

(***************************************************************************)
(* Between calls the order of delivery leaves no trace (PLAN.md: canonical *)
(* ordering is deterministic, so everyone agrees on order).  Nothing is    *)
(* stranded in the buffer, missing_parents names what some received event  *)
(* lacks and no more, and depths and children are those of the stored      *)
(* graph, whatever order process_unblocked pops its worklist in.  Who has  *)
(* seen what is a function of the received events while nobody has joined: *)
(* a key that joins later does not count for what it signed before.        *)
(***************************************************************************)
OrderLeavesNoTrace ==
  Idle =>
    /\ events = Connected(Received)
    /\ IsDepthMap(depthCache, events)
    /\ \A e \in Events : children[e] = {f \in events : e \in Parents[f]}
    /\ MissingParents = (UNION {Parents[e] : e \in Received}) \ events
    /\ participants = InitialParticipants =>
         seenBy = SeenAlso(Unseen, events, participants)

(***************************************************************************)
(* Dag implements DeliveredDag: while the worklist of a call is running,   *)
(* the promised DAG already is what the call will leave behind.  Between   *)
(* calls Connected(Received) = events, so it is what the fields hold.      *)
(***************************************************************************)
Promised ==
  INSTANCE DeliveredDag WITH
    InitialMembers <- InitialParticipants,
    delivered <- Received,
    visible <- Connected(Received),
    seen <- SeenAlso(seenBy, Connected(Received) \ events, participants),
    members <- participants

ImplementsDeliveredDag == Promised!Spec /\ []NothingHeldBack
=============================================================================
