------------------------------ MODULE DagProofs ------------------------------
(***************************************************************************)
(* Theorems about Dag, for every graph of events, every federation and     *)
(* every order of delivery.                                                *)
(***************************************************************************)
EXTENDS DagInvariant, FiniteSetTheorems, TLAPS

-----------------------------------------------------------------------------
\* QuorumThreshold is a natural number.
LEMMA ThresholdType == \A n \in Nat : QuorumThreshold(n) \in Nat
<1> SUFFICES ASSUME NEW n \in Nat PROVE QuorumThreshold(n) \in Nat
  OBVIOUS
<1> DEFINE required == (4 * n + 4) \div 5
<1>1. required \in Nat
  OBVIOUS
<1>2. QuorumThreshold(n) = IF required = 0 THEN 0 ELSE required - 1
  BY DEF QuorumThreshold
<1> HIDE DEF required
<1> QED BY <1>1, <1>2

(***************************************************************************)
(* The walk of mark_seen_by_ancestors reaches its start, is closed under   *)
(* its own rule, and stays within every set that is closed under it.       *)
(***************************************************************************)
LEMMA ReachedIsClosed ==
  ASSUME NEW id \in Events, NEW p, NEW stored
  PROVE  /\ Reached(id, p, stored) \subseteq Events
         /\ id \in Reached(id, p, stored)
         /\ WalkClosed(Reached(id, p, stored), p, stored)
         /\ \A S \in SUBSET Events : id \in S /\ WalkClosed(S, p, stored)
                                       => Reached(id, p, stored) \subseteq S
<1> DEFINE R == Reached(id, p, stored)
<1>1. R \subseteq Events /\ id \in R
  BY DEF Reached
<1>2. \A S \in SUBSET Events : id \in S /\ WalkClosed(S, p, stored) => R \subseteq S
  BY DEF Reached
<1>3. WalkClosed(R, p, stored)
  <2> SUFFICES ASSUME NEW x \in R, x \in stored, p \notin seenBy[x],
                      NEW y \in Parents[x]
               PROVE  y \in R
    BY DEF WalkClosed
  <2>1. x \in Events /\ y \in Events
    BY <1>1, GraphAssumption
  <2>2. ASSUME NEW S \in SUBSET Events, id \in S, WalkClosed(S, p, stored)
        PROVE  y \in S
    BY <1>2, <2>2 DEF WalkClosed
  <2> QED BY <2>1, <2>2 DEF Reached
<1> QED BY <1>1, <1>2, <1>3

-----------------------------------------------------------------------------
(***************************************************************************)
(* What storing an event does to the graph: the facts about insert_ready   *)
(* that both its callers rest on.                                          *)
(***************************************************************************)
LEMMA StoreEffect ==
  ASSUME TypeOK, StoredClosed, GraphInv,
         NEW id \in Events, id \notin events, Missing(id) = {}, Store(id)
  PROVE  /\ events' = events \cup {id}
         /\ ParentClosed(events')
         /\ children' \in [Events -> SUBSET Events]
         /\ depthCache' \in [Events -> Nat]
         /\ seenBy' \in [Events -> SUBSET PublicKeys]
         /\ \A e \in Events : seenBy[e] \subseteq seenBy'[e]
         /\ \A e \in Events : e # id => depthCache'[e] = depthCache[e]
         /\ \A e \in Events : /\ seenBy'[e] \subseteq participants
                              /\ seenBy'[e] # {} => e \in events'
         /\ SeenByInherited'
         /\ DepthIncreases'
<1> USE GraphAssumption
<1>1. events' = events \cup {id} /\ ParentClosed(events')
  BY DEF Store, StoredClosed, ParentClosed, Missing
<1>2. children' \in [Events -> SUBSET Events]
  BY DEF Store, TypeOK
<1>3. PICK d \in Depths(id) : IsDepth(id, d) /\ depthCache' = [depthCache EXCEPT ![id] = d]
  BY DEF Store
<1>4. d \in Nat /\ depthCache' \in [Events -> Nat]
  BY <1>3 DEF Depths, TypeOK
<1>5. \A e \in Events : e # id => depthCache'[e] = depthCache[e]
  BY <1>3, <1>4 DEF TypeOK
<1>6. DepthIncreases'
  <2> SUFFICES ASSUME NEW e \in events', NEW p \in Parents[e]
               PROVE  depthCache'[p] < depthCache'[e]
    BY DEF DepthIncreases
  <2>1. CASE e = id
    <3>1. p \in events /\ p # id
      BY <2>1 DEF Missing
    <3>2. depthCache[p] < d
      BY <1>3, <2>1, <3>1 DEF IsDepth
    <3> QED BY <1>3, <1>5, <2>1, <3>1, <3>2 DEF TypeOK
  <2>2. CASE e # id
    <3>1. e \in events /\ p \in events /\ p # id
      BY <1>1, <2>2 DEF StoredClosed, ParentClosed
    <3> QED BY <1>5, <2>2, <3>1 DEF GraphInv, DepthIncreases, TypeOK
  <2> QED BY <2>1, <2>2
<1>7. /\ seenBy' \in [Events -> SUBSET PublicKeys]
      /\ \A e \in Events : seenBy[e] \subseteq seenBy'[e]
      /\ \A e \in Events : /\ seenBy'[e] \subseteq participants
                           /\ seenBy'[e] # {} => e \in events'
      /\ SeenByInherited'
  <2>1. CASE Author[id] \notin participants
    <3>1. seenBy' = seenBy
      BY <2>1 DEF Store
    <3>2. \A e \in Events : /\ seenBy'[e] \subseteq participants
                            /\ seenBy'[e] # {} => e \in events'
      BY <1>1, <3>1 DEF GraphInv, SeenByStored
    <3>3. SeenByInherited'
      <4> SUFFICES ASSUME NEW e \in events', NEW p \in Parents[e]
                   PROVE  seenBy[e] \subseteq seenBy[p]
        BY <3>1 DEF SeenByInherited
      <4> QED BY <1>1 DEF GraphInv, SeenByStored, SeenByInherited, TypeOK
    <3> QED BY <3>1, <3>2, <3>3 DEF TypeOK
  <2>2. CASE Author[id] \in participants
    <3> DEFINE a == Author[id]
               stored == events \cup {id}
               R == Reached(id, a, stored)
    <3>1. seenBy' = [x \in Events |-> IF x \in R THEN seenBy[x] \cup {a} ELSE seenBy[x]]
      BY <2>2 DEF Store, MarkSeenByAncestors
    <3>2. /\ R \subseteq Events /\ id \in R /\ WalkClosed(R, a, stored)
          /\ \A S \in SUBSET Events : id \in S /\ WalkClosed(S, a, stored) => R \subseteq S
      BY ReachedIsClosed
    <3>3. R \subseteq stored
      <4>1. WalkClosed(stored, a, stored)
        BY <1>1 DEF WalkClosed, ParentClosed
      <4>2. stored \in SUBSET Events /\ id \in stored
        BY DEF TypeOK
      <4> HIDE DEF stored, R
      <4> QED BY <3>2, <4>1, <4>2
    <3> HIDE DEF R
    <3>4. \A e \in Events : /\ seenBy'[e] \subseteq participants
                            /\ seenBy'[e] # {} => e \in events'
      BY <1>1, <2>2, <3>1, <3>3 DEF GraphInv, SeenByStored
    <3>5. SeenByInherited'
      <4> SUFFICES ASSUME NEW e \in events', NEW p \in Parents[e], NEW k \in seenBy'[e]
                   PROVE  k \in seenBy'[p]
        BY DEF SeenByInherited
      <4>1. e \in Events /\ p \in Events /\ e \in stored
        BY <1>1 DEF TypeOK
      <4>2. CASE k \in seenBy[e]
        <5>1. e \in events
          BY <4>1, <4>2 DEF GraphInv, SeenByStored
        <5> QED BY <3>1, <4>1, <4>2, <5>1 DEF GraphInv, SeenByInherited
      <4>3. CASE k \notin seenBy[e]
        <5>1. e \in R /\ k = a
          BY <3>1, <4>1, <4>3
        <5>2. p \in R
          BY <3>2, <4>1, <4>3, <5>1 DEF WalkClosed
        <5> QED BY <3>1, <4>1, <5>1, <5>2
      <4> QED BY <4>2, <4>3
    <3> QED BY <2>2, <3>1, <3>4, <3>5, ParticipantsAssumption DEF TypeOK
  <2> QED BY <2>1, <2>2
<1> QED BY <1>1, <1>2, <1>4, <1>5, <1>6, <1>7

-----------------------------------------------------------------------------
\* The invariant holds of Dag::new.
LEMMA InitInv == Init => IInv
<1> SUFFICES ASSUME Init PROVE IInv
  OBVIOUS
<1>1. TypeOK
  BY ParticipantsAssumption DEF Init, TypeOK
<1>2. BufferInv
  BY DEF Init, BufferInv, StoredClosed, ParentClosed, WaitingExact, UnblockedInWorklist
<1>3. GraphInv
  BY DEF Init, GraphInv, SeenByStored, SeenByInherited, DepthIncreases
<1> QED BY <1>1, <1>2, <1>3 DEF IInv

\* insert of an event whose parents are all stored.
LEMMA InsertReadyInv ==
  ASSUME IInv, NEW id \in Events, InsertReady(id)
  PROVE  IInv'
<1> USE GraphAssumption
<1>1. id \notin events /\ id \notin pending /\ Missing(id) = {} /\ Store(id)
  BY DEF InsertReady, Received
<1>2. /\ pending' = pending /\ participants' = participants /\ threshold' = threshold
      /\ toProcess' = waitingFor[id]
      /\ waitingFor' = [waitingFor EXCEPT ![id] = {}]
  BY DEF InsertReady
<1>3. toProcess = {}
  BY DEF InsertReady, Idle
<1>4. /\ events' = events \cup {id}
      /\ ParentClosed(events')
      /\ children' \in [Events -> SUBSET Events]
      /\ depthCache' \in [Events -> Nat]
      /\ seenBy' \in [Events -> SUBSET PublicKeys]
      /\ \A e \in Events : /\ seenBy'[e] \subseteq participants
                           /\ seenBy'[e] # {} => e \in events'
      /\ SeenByInherited'
      /\ DepthIncreases'
  BY <1>1, StoreEffect DEF IInv, BufferInv
<1>5. TypeOK'
  BY <1>2, <1>4 DEF IInv, TypeOK
<1>6. StoredClosed'
  BY <1>1, <1>2, <1>4 DEF IInv, BufferInv, StoredClosed
<1>7. WaitingExact'
  BY <1>1, <1>2, <1>4 DEF IInv, BufferInv, WaitingExact, Missing, TypeOK
<1>8. UnblockedInWorklist'
  <2> SUFFICES ASSUME NEW e \in pending, Missing(e)' = {} PROVE e \in waitingFor[id]
    BY <1>2 DEF UnblockedInWorklist
  <2>1. Missing(e) # {}
    BY <1>3 DEF IInv, BufferInv, UnblockedInWorklist
  <2>2. id \in Missing(e)
    BY <1>4, <2>1 DEF Missing
  <2> QED BY <2>2 DEF IInv, BufferInv, WaitingExact
<1>9. GraphInv'
  BY <1>2, <1>4 DEF GraphInv, SeenByStored
<1> QED BY <1>5, <1>6, <1>7, <1>8, <1>9 DEF IInv, BufferInv

\* insert of an event with a parent that is not stored.
LEMMA InsertBufferedInv ==
  ASSUME IInv, NEW id \in Events, InsertBuffered(id)
  PROVE  IInv'
<1> USE GraphAssumption
<1>1. /\ id \notin events /\ id \notin pending /\ Missing(id) # {}
      /\ waitingFor' = [x \in Events |-> IF x \in Missing(id)
                                           THEN waitingFor[x] \cup {id}
                                           ELSE waitingFor[x]]
      /\ pending' = pending \cup {id}
      /\ UNCHANGED <<graph, quorum, toProcess>>
  BY DEF InsertBuffered, Received
<1>2. TypeOK'
  BY <1>1 DEF IInv, TypeOK, graph, quorum
<1>3. StoredClosed'
  BY <1>1 DEF IInv, BufferInv, StoredClosed, graph
<1>4. WaitingExact'
  <2>1. \A e \in pending' : \A p \in Missing(e)' : e \in waitingFor'[p]
    BY <1>1 DEF IInv, BufferInv, WaitingExact, Missing, graph, TypeOK
  <2>2. \A p \in Events : \A e \in waitingFor'[p] : e \in pending' /\ p \in Missing(e)'
    BY <1>1 DEF IInv, BufferInv, WaitingExact, Missing, graph, TypeOK
  <2> QED BY <2>1, <2>2 DEF WaitingExact
<1>5. UnblockedInWorklist'
  BY <1>1 DEF IInv, BufferInv, UnblockedInWorklist, Missing, graph
<1>6. GraphInv'
  BY <1>1 DEF IInv, GraphInv, SeenByStored, SeenByInherited, DepthIncreases, graph, quorum
<1> QED BY <1>2, <1>3, <1>4, <1>5, <1>6 DEF IInv, BufferInv

\* An id that process_unblocked pops and drops.
LEMMA UnblockDropInv ==
  ASSUME IInv, NEW id \in Events, UnblockDrop(id)
  PROVE  IInv'
<1>1. /\ id \notin pending \/ Missing(id) # {}
      /\ toProcess' = toProcess \ {id}
      /\ UNCHANGED <<graph, quorum, pending, waitingFor>>
  BY DEF UnblockDrop
<1>2. TypeOK'
  BY <1>1 DEF IInv, TypeOK, graph, quorum
<1>3. BufferInv'
  BY <1>1 DEF IInv, BufferInv, StoredClosed, ParentClosed, WaitingExact,
              UnblockedInWorklist, Missing, graph
<1>4. GraphInv'
  BY <1>1 DEF IInv, GraphInv, SeenByStored, SeenByInherited, DepthIncreases, graph, quorum
<1> QED BY <1>2, <1>3, <1>4 DEF IInv

\* An id that process_unblocked pops and stores.
LEMMA UnblockStoreInv ==
  ASSUME IInv, NEW id \in Events, UnblockStore(id)
  PROVE  IInv'
<1> USE GraphAssumption
<1>1. id \in pending /\ id \notin events /\ Missing(id) = {} /\ Store(id)
  BY DEF UnblockStore, IInv, BufferInv, StoredClosed
<1>2. /\ pending' = pending \ {id} /\ participants' = participants /\ threshold' = threshold
      /\ toProcess' = (toProcess \ {id}) \cup waitingFor[id]
      /\ waitingFor' = [waitingFor EXCEPT ![id] = {}]
  BY DEF UnblockStore, quorum
<1>3. /\ events' = events \cup {id}
      /\ ParentClosed(events')
      /\ children' \in [Events -> SUBSET Events]
      /\ depthCache' \in [Events -> Nat]
      /\ seenBy' \in [Events -> SUBSET PublicKeys]
      /\ \A e \in Events : /\ seenBy'[e] \subseteq participants
                           /\ seenBy'[e] # {} => e \in events'
      /\ SeenByInherited'
      /\ DepthIncreases'
  BY <1>1, StoreEffect DEF IInv, BufferInv
<1>4. TypeOK'
  BY <1>2, <1>3 DEF IInv, TypeOK
<1>5. StoredClosed'
  BY <1>1, <1>2, <1>3 DEF IInv, BufferInv, StoredClosed
<1>6. WaitingExact'
  <2>1. \A e \in pending' : \A p \in Missing(e)' : e \in waitingFor'[p]
    BY <1>2, <1>3 DEF IInv, BufferInv, WaitingExact, Missing, TypeOK
  <2>2. \A p \in Events : \A e \in waitingFor'[p] : e \in pending' /\ p \in Missing(e)'
    <3> SUFFICES ASSUME NEW p \in Events, NEW e \in waitingFor'[p]
                 PROVE  e \in pending' /\ p \in Missing(e)'
      OBVIOUS
    <3>1. p # id /\ e \in waitingFor[p]
      BY <1>2 DEF IInv, TypeOK
    <3>2. e \in pending /\ p \in Missing(e)
      BY <3>1 DEF IInv, BufferInv, WaitingExact
    <3>3. e # id
      BY <1>1, <3>2
    <3> QED BY <1>2, <1>3, <3>1, <3>2, <3>3 DEF Missing
  <2> QED BY <2>1, <2>2 DEF WaitingExact
<1>7. UnblockedInWorklist'
  <2> SUFFICES ASSUME NEW e \in pending, e # id, Missing(e)' = {}
               PROVE  e \in toProcess \/ e \in waitingFor[id]
    BY <1>2 DEF UnblockedInWorklist
  <2>1. CASE Missing(e) = {}
    BY <2>1 DEF IInv, BufferInv, UnblockedInWorklist
  <2>2. CASE Missing(e) # {}
    <3>1. id \in Missing(e)
      BY <1>3, <2>2 DEF Missing
    <3> QED BY <3>1 DEF IInv, BufferInv, WaitingExact
  <2> QED BY <2>1, <2>2
<1>8. GraphInv'
  BY <1>2, <1>3 DEF GraphInv, SeenByStored
<1> QED BY <1>4, <1>5, <1>6, <1>7, <1>8 DEF IInv, BufferInv

\* A key that becomes a participant.
LEMMA AddParticipantInv ==
  ASSUME IInv, NEW key \in PublicKeys, AddParticipant(key)
  PROVE  IInv'
<1>1. /\ participants' = participants \cup {key}
      /\ threshold' = QuorumThreshold(Cardinality(participants'))
      /\ UNCHANGED <<graph, buffer>>
  BY DEF AddParticipant
<1>2. IsFiniteSet(participants')
  BY <1>1, FS_AddElement DEF IInv, TypeOK
<1>3. TypeOK'
  BY <1>1, <1>2 DEF IInv, TypeOK, graph, buffer
<1>4. BufferInv'
  BY <1>1 DEF IInv, BufferInv, StoredClosed, ParentClosed, WaitingExact,
              UnblockedInWorklist, Missing, graph, buffer
<1>5. GraphInv'
  BY <1>1 DEF IInv, GraphInv, SeenByStored, SeenByInherited, DepthIncreases, graph, buffer
<1> QED BY <1>3, <1>4, <1>5 DEF IInv

\* No step of the DAG breaks the invariant.
LEMMA NextInv == IInv /\ [Next]_vars => IInv'
<1> SUFFICES ASSUME IInv, [Next]_vars PROVE IInv'
  OBVIOUS
<1>1. ASSUME UNCHANGED vars PROVE IInv'
  BY <1>1 DEF IInv, TypeOK, BufferInv, StoredClosed, ParentClosed, WaitingExact,
              UnblockedInWorklist, Missing, GraphInv, SeenByStored, SeenByInherited,
              DepthIncreases, vars
<1>2. ASSUME NEW id \in Events, InsertDuplicate(id) PROVE IInv'
  BY <1>1, <1>2 DEF InsertDuplicate
<1>3. ASSUME NEW id \in Events, Insert(id) \/ ProcessUnblocked(id) PROVE IInv'
  BY <1>2, <1>3, InsertReadyInv, InsertBufferedInv, UnblockDropInv, UnblockStoreInv
     DEF Insert, ProcessUnblocked
<1> QED BY <1>1, <1>3, AddParticipantInv DEF Next

-----------------------------------------------------------------------------
\* The inductive invariant holds in every reachable state.
THEOREM Invariance == Spec => []IInv
BY InitInv, NextInv, PTL DEF Spec

\* The fields of Dag keep their types, and threshold always is the one of the
\* current membership.
THEOREM TypeCorrect == Spec => []TypeOK
<1>1. IInv => TypeOK
  BY DEF IInv
<1> QED BY Invariance, <1>1, PTL

\* Who has seen an event has seen its parents, so the early stop of
\* mark_seen_by_ancestors loses nothing.
THEOREM SeenByCorrect == Spec => []SeenByInherited
<1>1. IInv => SeenByInherited
  BY DEF IInv, GraphInv
<1> QED BY Invariance, <1>1, PTL

-----------------------------------------------------------------------------
\* What the counting of the queries rests on: seen_by sets are finite, and a
\* larger one has at least as many members.
LEMMA Counting ==
  ASSUME IInv
  PROVE  /\ threshold \in Nat
         /\ Cardinality(participants) \in Nat
         /\ \A e \in Events : /\ IsFiniteSet(seenBy[e])
                              /\ Cardinality(seenBy[e]) \in Nat
         /\ \A e, f \in Events : seenBy[e] \subseteq seenBy[f]
                => Cardinality(seenBy[e]) <= Cardinality(seenBy[f])
<1>1. IsFiniteSet(participants) /\ Cardinality(participants) \in Nat
  BY FS_CardinalityType DEF IInv, TypeOK
<1>2. threshold \in Nat
  BY <1>1, ThresholdType DEF IInv, TypeOK
<1>3. \A e \in Events : IsFiniteSet(seenBy[e]) /\ Cardinality(seenBy[e]) \in Nat
  BY <1>1, FS_Subset, FS_CardinalityType DEF IInv, GraphInv, SeenByStored
<1>4. \A e, f \in Events : seenBy[e] \subseteq seenBy[f]
         => Cardinality(seenBy[e]) <= Cardinality(seenBy[f])
  BY <1>3, FS_Subset
<1> QED BY <1>1, <1>2, <1>3, <1>4

\* The parents of a canonical event are canonical and come before it, whatever
\* was delivered in which order and whoever joined in between.
THEOREM CanonicalCausal == Spec => []CanonicalOrderIsCausal
<1>1. IInv => CanonicalOrderIsCausal
  <2> SUFFICES ASSUME IInv, NEW e \in CanonicalEvents, NEW p \in Parents[e]
               PROVE  p \in CanonicalEvents /\ Before(p, e)
    BY DEF CanonicalOrderIsCausal
  <2>1. e \in events /\ e \in Events /\ Cardinality(seenBy[e]) > threshold
    BY DEF CanonicalEvents, IsCanonical, IInv, TypeOK
  <2>2. p \in events /\ p \in Events
    BY <2>1, GraphAssumption DEF IInv, BufferInv, StoredClosed, ParentClosed
  <2>3. seenBy[e] \subseteq seenBy[p] /\ depthCache[p] < depthCache[e]
    BY <2>1 DEF IInv, GraphInv, SeenByInherited, DepthIncreases
  <2>4. Cardinality(seenBy[p]) > threshold
    BY <2>1, <2>2, <2>3, Counting
  <2> QED BY <2>2, <2>3, <2>4 DEF CanonicalEvents, IsCanonical, Before
<1> QED BY Invariance, <1>1, PTL

(***************************************************************************)
(* Any two canonical events have been seen by three fifths of the          *)
(* participants in common, for every size of the federation.               *)
(***************************************************************************)
THEOREM CanonicalQuorumsOverlap == Spec => []QuorumsOverlap
<1>1. IInv => QuorumsOverlap
  <2> SUFFICES ASSUME IInv, NEW a \in CanonicalEvents, NEW b \in CanonicalEvents
               PROVE  5 * Cardinality(seenBy[a] \cap seenBy[b])
                        >= 3 * Cardinality(participants)
    BY DEF QuorumsOverlap
  <2> DEFINE n == Cardinality(participants)
             A == seenBy[a]
             B == seenBy[b]
  <2>1. a \in Events /\ b \in Events
    BY DEF CanonicalEvents, IInv, TypeOK
  <2>2. /\ IsFiniteSet(A) /\ IsFiniteSet(B) /\ IsFiniteSet(participants)
        /\ A \cup B \subseteq participants
    BY <2>1, Counting DEF IInv, TypeOK, GraphInv, SeenByStored
  <2>3. /\ n \in Nat /\ Cardinality(A) \in Nat /\ Cardinality(B) \in Nat
    BY <2>1, Counting
  <2>4. 5 * Cardinality(A) >= 4 * n /\ 5 * Cardinality(B) >= 4 * n
    <3>1. Cardinality(A) > threshold /\ Cardinality(B) > threshold
      BY DEF CanonicalEvents, IsCanonical
    <3>2. threshold = QuorumThreshold(n)
      BY DEF IInv, TypeOK
    <3>3. \A k \in Nat : k > QuorumThreshold(n) => 5 * k >= 4 * n
      <4> HIDE DEF n
      <4> DEFINE required == (4 * n + 4) \div 5
      <4>1. required \in Nat /\ 5 * required >= 4 * n
        BY <2>3
      <4>2. QuorumThreshold(n) = IF required = 0 THEN 0 ELSE required - 1
        BY DEF QuorumThreshold
      <4> HIDE DEF required
      <4>3. \A k \in Nat : k > QuorumThreshold(n) => k >= required
        BY <4>1, <4>2
      <4> QED BY <2>3, <4>1, <4>3
    <3> QED BY <2>3, <3>1, <3>2, <3>3
  <2>5. /\ Cardinality(A \cap B) \in Nat
        /\ Cardinality(A \cup B) \in Nat
        /\ Cardinality(A \cup B) = Cardinality(A) + Cardinality(B) - Cardinality(A \cap B)
    BY <2>2, FS_Union, FS_Intersection, FS_CardinalityType
  <2>6. Cardinality(A \cup B) <= n
    BY <2>2, FS_Subset
  <2> HIDE DEF A, B, n
  <2>7. 5 * Cardinality(A \cap B) >= 3 * n
    BY <2>3, <2>4, <2>5, <2>6
  <2> QED BY <2>7 DEF A, B, n
<1> QED BY Invariance, <1>1, PTL

-----------------------------------------------------------------------------
\* Storing an event takes nothing away from the canonical order.
LEMMA StoreGrows ==
  ASSUME IInv, IInv', NEW id \in Events, id \notin events, Missing(id) = {},
         Store(id), UNCHANGED quorum
  PROVE  CanonicalOrderGrows
<1>1. /\ events' = events \cup {id}
      /\ \A e \in Events : seenBy[e] \subseteq seenBy'[e]
      /\ \A e \in Events : e # id => depthCache'[e] = depthCache[e]
  BY StoreEffect DEF IInv, BufferInv
<1>2. \A e \in Events : /\ IsFiniteSet(seenBy'[e])
                        /\ Cardinality(seenBy[e]) \in Nat
                        /\ Cardinality(seenBy'[e]) \in Nat
  <2>1. IsFiniteSet(participants)' /\ \A e \in Events : seenBy'[e] \subseteq participants'
    BY DEF IInv, TypeOK, GraphInv, SeenByStored
  <2>2. \A e \in Events : IsFiniteSet(seenBy'[e]) /\ Cardinality(seenBy'[e]) \in Nat
    BY <2>1, FS_Subset, FS_CardinalityType
  <2> QED BY <2>2, Counting
<1>3. \A e \in Events : Cardinality(seenBy[e]) <= Cardinality(seenBy'[e])
  BY <1>1, <1>2, FS_Subset
<1>4. threshold' = threshold /\ threshold \in Nat
  BY Counting DEF quorum
<1>5. CanonicalEvents \subseteq Events \cap events
  BY DEF CanonicalEvents, IInv, TypeOK
<1>6. CanonicalEvents \subseteq CanonicalEvents'
  <2> SUFFICES ASSUME NEW e \in CanonicalEvents PROVE e \in CanonicalEvents'
    OBVIOUS
  <2>1. e \in events' /\ e \in Events /\ Cardinality(seenBy[e]) > threshold
    BY <1>1, <1>5 DEF CanonicalEvents, IsCanonical
  <2>2. Cardinality(seenBy'[e]) > threshold'
    BY <1>2, <1>3, <1>4, <2>1
  <2> QED BY <2>1, <2>2 DEF CanonicalEvents, IsCanonical
<1>7. \A e \in CanonicalEvents : depthCache'[e] = depthCache[e]
  BY <1>1, <1>5
<1>8. \A a, b \in CanonicalEvents : Before(a, b) <=> Before(a, b)'
  BY <1>7 DEF Before
<1> QED BY <1>6, <1>8 DEF CanonicalOrderGrows

\* No step takes anything away either.
LEMMA NextGrows ==
  ASSUME IInv, IInv', [Next]_vars
  PROVE  [CanonicalOrderGrows]_vars
<1>1. ASSUME UNCHANGED <<graph, quorum>> PROVE CanonicalOrderGrows
  BY <1>1 DEF CanonicalOrderGrows, CanonicalEvents, IsCanonical, Before, graph, quorum
<1>2. ASSUME NEW id \in Events, InsertReady(id) PROVE CanonicalOrderGrows
  BY <1>2, StoreGrows DEF InsertReady, Received, quorum
<1>3. ASSUME NEW id \in Events, UnblockStore(id) PROVE CanonicalOrderGrows
  <2>1. id \notin events
    BY <1>3 DEF UnblockStore, IInv, BufferInv, StoredClosed
  <2> QED BY <1>3, <2>1, StoreGrows DEF UnblockStore
<1>4. ASSUME NEW id \in Events, InsertBuffered(id) \/ UnblockDrop(id)
      PROVE  CanonicalOrderGrows
  BY <1>1, <1>4 DEF InsertBuffered, UnblockDrop
<1>5. ASSUME NEW id \in Events, InsertDuplicate(id) PROVE UNCHANGED vars
  BY <1>5 DEF InsertDuplicate
<1>6. ASSUME NEW key \in PublicKeys, AddParticipant(key)
      PROVE  CanonicalOrderGrows
  BY <1>6 DEF AddParticipant, CanonicalOrderGrows, Before, graph
<1> QED BY <1>2, <1>3, <1>4, <1>5, <1>6 DEF Next, Insert, ProcessUnblocked

\* The canonical order only grows between two joins, and never swaps two
\* events, for every graph, federation and order of delivery.
THEOREM CanonicalOrderGrowing == Spec => CanonicalOrderOnlyGrows
<1>1. IInv /\ IInv' /\ [Next]_vars => [CanonicalOrderGrows]_vars
  BY NextGrows
<1> QED BY Invariance, <1>1, PTL DEF Spec, CanonicalOrderOnlyGrows

-----------------------------------------------------------------------------
\* The walk of mark_seen_by_ancestors stays within the ancestors of its start.
LEMMA ReachedAreAncestors ==
  ASSUME NEW id \in Events, NEW p, NEW stored
  PROVE  Reached(id, p, stored) \subseteq Ancestors(id)
<1>1. \A S \in SUBSET Events : ParentClosed(S) => WalkClosed(S, p, stored)
  BY DEF ParentClosed, WalkClosed
<1> QED BY <1>1 DEF Reached, Ancestors

\* Storing an event marks only events it descends from, and only for its
\* author.
LEMMA StoreEvidence ==
  ASSUME IInv, SeenByHasEvidence, NEW id \in Events, Store(id),
         participants' = participants
  PROVE  SeenByHasEvidence'
<1>1. events' = events \cup {id}
  BY DEF Store
<1>2. \A e \in Events : \A p \in seenBy'[e] :
         \/ p \in seenBy[e]
         \/ p = Author[id] /\ p \in participants /\ e \in Ancestors(id)
  BY ReachedAreAncestors DEF Store, MarkSeenByAncestors
<1> SUFFICES ASSUME NEW e \in Events, NEW p \in seenBy'[e]
             PROVE  /\ p \in participants'
                    /\ \E f \in events' : Author[f] = p /\ e \in Ancestors(f)
  BY DEF SeenByHasEvidence, Ancestors, ParentClosed
<1>3. CASE p \in seenBy[e]
  BY <1>1, <1>3 DEF SeenByHasEvidence
<1>4. CASE p = Author[id] /\ p \in participants /\ e \in Ancestors(id)
  BY <1>1, <1>4
<1> QED BY <1>2, <1>3, <1>4

\* Nobody is ever counted as having seen an event without a signed, stored
\* event that descends from it.
THEOREM SeenByEvidence == Spec => []SeenByHasEvidence
<1>1. Init => SeenByHasEvidence
  BY DEF Init, SeenByHasEvidence
<1>2. IInv /\ SeenByHasEvidence /\ [Next]_vars => SeenByHasEvidence'
  <2> SUFFICES ASSUME IInv, SeenByHasEvidence, [Next]_vars
               PROVE  SeenByHasEvidence'
    OBVIOUS
  <2>1. ASSUME events' = events, seenBy' = seenBy, participants \subseteq participants'
        PROVE  SeenByHasEvidence'
    BY <2>1 DEF SeenByHasEvidence, Ancestors, ParentClosed
  <2>2. ASSUME NEW id \in Events, InsertReady(id) \/ UnblockStore(id)
        PROVE  SeenByHasEvidence'
    BY <2>2, StoreEvidence DEF InsertReady, UnblockStore, quorum
  <2>3. ASSUME NEW id \in Events,
               InsertDuplicate(id) \/ InsertBuffered(id) \/ UnblockDrop(id)
        PROVE  SeenByHasEvidence'
    BY <2>1, <2>3 DEF InsertDuplicate, InsertBuffered, UnblockDrop, vars, graph, quorum
  <2>4. ASSUME NEW key \in PublicKeys, AddParticipant(key)
        PROVE  SeenByHasEvidence'
    BY <2>1, <2>4 DEF AddParticipant, graph
  <2>5. ASSUME UNCHANGED vars PROVE SeenByHasEvidence'
    BY <2>1, <2>5 DEF vars
  <2> QED BY <2>2, <2>3, <2>4, <2>5 DEF Next, Insert, ProcessUnblocked
<1> QED BY Invariance, <1>1, <1>2, PTL DEF Spec

-----------------------------------------------------------------------------
(***************************************************************************)
(* The edges backwards, the finiteness of what was received, and what the  *)
(* tips and the promised DAG are because of them.                          *)
(***************************************************************************)

\* The steps of the DAG, without the choice of their argument.
LEMMA StepCases ==
  ASSUME [Next]_vars
  PROVE  \/ UNCHANGED vars
         \/ \E id \in Events : \/ InsertReady(id)
                               \/ InsertBuffered(id)
                               \/ UnblockDrop(id)
                               \/ UnblockStore(id)
         \/ \E key \in PublicKeys : AddParticipant(key)
BY DEF Next, Insert, ProcessUnblocked, InsertDuplicate

\* insert_ready records the event under its parents and nowhere else.
LEMMA StoreLinks ==
  ASSUME TypeOK, ChildrenExact, NEW id \in Events, Store(id)
  PROVE  ChildrenExact'
<1>1. /\ events' = events \cup {id}
      /\ children' = [x \in Events |-> IF x \in Parents[id]
                                         THEN children[x] \cup {id}
                                         ELSE children[x]]
  BY DEF Store
<1> QED BY <1>1 DEF ChildrenExact

\* What was received grows by at most one event at a time.
LEMMA NextReceived ==
  ASSUME IInv, [Next]_vars
  PROVE  \/ Received' = Received
         \/ \E id \in Events : Received' = Received \cup {id}
<1>1. ASSUME NEW id \in Events, UnblockStore(id) PROVE Received' = Received
  BY <1>1 DEF UnblockStore, Store, Received
<1>2. ASSUME NEW id \in Events, InsertReady(id) \/ InsertBuffered(id)
      PROVE  Received' = Received \cup {id}
  BY <1>2 DEF InsertReady, InsertBuffered, Store, Received, graph
<1>3. ASSUME \/ UNCHANGED vars
             \/ \E id \in Events : UnblockDrop(id)
             \/ \E key \in PublicKeys : AddParticipant(key)
      PROVE  Received' = Received
  BY <1>3 DEF vars, UnblockDrop, AddParticipant, Received, graph, buffer
<1> QED BY StepCases, <1>1, <1>2, <1>3

LEMMA LinksInvariance == Spec => []LinksInv
<1>1. Init => LinksInv
  BY FS_EmptySet DEF Init, LinksInv, ChildrenExact, Received
<1>2. IInv /\ LinksInv /\ [Next]_vars => LinksInv'
  <2> SUFFICES ASSUME IInv, LinksInv, [Next]_vars PROVE LinksInv'
    OBVIOUS
  <2>1. IsFiniteSet(Received)'
    BY NextReceived, FS_AddElement DEF LinksInv
  <2>2. ASSUME UNCHANGED <<events, children>> PROVE ChildrenExact'
    BY <2>2 DEF LinksInv, ChildrenExact
  <2>3. ASSUME NEW id \in Events, InsertReady(id) \/ UnblockStore(id)
        PROVE  ChildrenExact'
    BY <2>3, StoreLinks DEF InsertReady, UnblockStore, LinksInv, IInv
  <2>4. ASSUME \/ UNCHANGED vars
               \/ \E id \in Events : InsertBuffered(id) \/ UnblockDrop(id)
               \/ \E key \in PublicKeys : AddParticipant(key)
        PROVE  ChildrenExact'
    BY <2>2, <2>4 DEF vars, InsertBuffered, UnblockDrop, AddParticipant, graph
  <2>5. ChildrenExact'
    BY StepCases, <2>3, <2>4
  <2> QED BY <2>1, <2>5 DEF LinksInv
<1> QED BY Invariance, <1>1, <1>2, PTL DEF Spec

\* The ancestors of an event are the smallest set that contains it and all
\* parents of its members.
LEMMA AncestorsLeast ==
  ASSUME NEW e \in Events
  PROVE  /\ Ancestors(e) \subseteq Events
         /\ e \in Ancestors(e)
         /\ ParentClosed(Ancestors(e))
         /\ \A S \in SUBSET Events : e \in S /\ ParentClosed(S) => Ancestors(e) \subseteq S
<1>1. ParentClosed(Ancestors(e))
  <2> SUFFICES ASSUME NEW x \in Ancestors(e), NEW y \in Parents[x],
                      NEW S \in SUBSET Events, e \in S, ParentClosed(S)
               PROVE  y \in Events /\ y \in S
    BY GraphAssumption DEF ParentClosed, Ancestors
  <2>1. x \in S /\ x \in Events
    BY DEF Ancestors
  <2> QED BY <2>1, GraphAssumption DEF ParentClosed
<1> QED BY <1>1 DEF Ancestors

\* Descent is transitive along an edge.
LEMMA AncestorsOfParent ==
  ASSUME NEW e \in Events, NEW p \in Parents[e]
  PROVE  Ancestors(p) \subseteq Ancestors(e)
<1>1. p \in Events /\ p \in Ancestors(e)
  BY AncestorsLeast, GraphAssumption DEF ParentClosed
<1> QED BY <1>1, AncestorsLeast

\* A stored event takes the place of the tips it names.
LEMMA StoreTips ==
  ASSUME IInv, LinksInv, LinksInv', TipsCoverEverything,
         NEW id \in Events, id \notin events, Missing(id) = {}, Store(id)
  PROVE  TipsCoverEverything'
<1>1. events' = events \cup {id} /\ Parents[id] \subseteq events /\ events \subseteq Events
  BY DEF Store, Missing, IInv, TypeOK
<1>2. id \in Tips'
  <2>1. \A e \in events : id \notin Parents[e]
    BY DEF IInv, BufferInv, StoredClosed, ParentClosed
  <2> QED BY <1>1, <2>1 DEF Tips, LinksInv, ChildrenExact
<1>3. \A t \in Tips : t \in Tips' \/ t \in Parents[id]
  BY <1>1 DEF Tips, LinksInv, ChildrenExact
<1> SUFFICES ASSUME NEW e \in events' PROVE \E t \in Tips' : e \in Ancestors(t)
  BY DEF TipsCoverEverything, Ancestors, ParentClosed
<1>4. CASE e = id
  BY <1>2, <1>4, AncestorsLeast
<1>5. CASE e \in events
  <2>1. PICK t \in Tips : e \in Ancestors(t)
    BY <1>5 DEF TipsCoverEverything
  <2>2. CASE t \in Parents[id]
    BY <1>2, <2>1, <2>2, AncestorsOfParent
  <2> QED BY <1>3, <2>1, <2>2
<1> QED BY <1>1, <1>4, <1>5

\* Every stored event is an ancestor of a tip, so an ack that names the tips
\* acknowledges all of them, for every graph and order of delivery.
THEOREM TipsCover == Spec => []TipsCoverEverything
<1>1. Init => TipsCoverEverything
  BY DEF Init, TipsCoverEverything
<1>2. IInv /\ LinksInv /\ LinksInv' /\ TipsCoverEverything /\ [Next]_vars
        => TipsCoverEverything'
  <2> SUFFICES ASSUME IInv, LinksInv, LinksInv', TipsCoverEverything, [Next]_vars
               PROVE  TipsCoverEverything'
    OBVIOUS
  <2>1. ASSUME UNCHANGED <<events, children>> PROVE TipsCoverEverything'
    BY <2>1 DEF TipsCoverEverything, Tips, Ancestors, ParentClosed
  <2>2. ASSUME NEW id \in Events, InsertReady(id) \/ UnblockStore(id)
        PROVE  TipsCoverEverything'
    <3>1. id \notin events /\ Missing(id) = {} /\ Store(id)
      BY <2>2 DEF InsertReady, UnblockStore, Received, IInv, BufferInv, StoredClosed
    <3> QED BY <3>1, StoreTips
  <2>3. ASSUME \/ UNCHANGED vars
               \/ \E id \in Events : InsertBuffered(id) \/ UnblockDrop(id)
               \/ \E key \in PublicKeys : AddParticipant(key)
        PROVE  TipsCoverEverything'
    BY <2>1, <2>3 DEF vars, InsertBuffered, UnblockDrop, AddParticipant, graph
  <2> QED BY StepCases, <2>2, <2>3
<1> QED BY Invariance, LinksInvariance, <1>1, <1>2, PTL DEF Spec

-----------------------------------------------------------------------------
(***************************************************************************)
(* Dag implements DeliveredDag.                                            *)
(***************************************************************************)

\* Connected(D) is the largest part of D that contains all its parents.
LEMMA ConnectedLargest ==
  ASSUME NEW D
  PROVE  /\ Connected(D) \subseteq D
         /\ ParentClosed(Connected(D))
         /\ \A S \in SUBSET D : ParentClosed(S) => S \subseteq Connected(D)
BY DEF Connected, ParentClosed

\* Between calls, an event that is buffered lacks an event that is not there:
\* a chain of buffered events that wait for each other would have to be a
\* cycle or go on for ever.
LEMMA NothingIsHeldBack == IInv /\ LinksInv => NothingHeldBack
<1> SUFFICES ASSUME IInv, LinksInv, Idle PROVE Connected(Received) = events
  BY DEF NothingHeldBack
<1> DEFINE held == Connected(Received) \ events
<1>1. events \subseteq Connected(Received)
  BY ConnectedLargest DEF IInv, BufferInv, StoredClosed, Received
<1>2. held \subseteq pending /\ held \subseteq Events
  BY ConnectedLargest DEF Received, IInv, TypeOK
<1>3. IsFiniteSet(held)
  <2>1. held \subseteq Received
    BY ConnectedLargest
  <2> QED BY <2>1, FS_Subset DEF LinksInv
<1>4. ASSUME NEW e \in held, Parents[e] \cap held = {} PROVE FALSE
  <2>1. Parents[e] \subseteq events
    BY <1>4, ConnectedLargest DEF ParentClosed
  <2>2. e \in pending /\ Missing(e) = {}
    BY <1>2, <2>1 DEF Missing
  <2> QED BY <2>2 DEF IInv, BufferInv, UnblockedInWorklist, Idle
<1>5. held = {}
  BY <1>2, <1>3, <1>4, AcyclicAssumption DEF Acyclic
<1> QED BY <1>1, <1>5, ConnectedLargest

(***************************************************************************)
(* insert_ready marks as seen by a member all that its event descends      *)
(* from: where mark_seen_by_ancestors stops, everything further back is    *)
(* marked already.                                                         *)
(***************************************************************************)
LEMMA StoreSeesAncestors ==
  ASSUME IInv, NEW id \in Events, id \notin events, Missing(id) = {}, Store(id)
  PROVE  seenBy' = SeenAlso(seenBy, {id}, participants)
<1> DEFINE a == Author[id]
           stored == events \cup {id}
           R == Reached(id, a, stored)
           S == R \cup {x \in events : a \in seenBy[x]}
<1>1. CASE a \notin participants
  <2>1. seenBy' = seenBy
    BY <1>1 DEF Store
  <2>2. SeenAlso(seenBy, {id}, participants) = [e \in Events |-> seenBy[e]]
    BY <1>1 DEF SeenAlso
  <2> QED BY <2>1, <2>2 DEF IInv, TypeOK
<1>2. CASE a \in participants
  <2>1. seenBy' = [x \in Events |-> IF x \in R THEN seenBy[x] \cup {a} ELSE seenBy[x]]
    BY <1>2 DEF Store, MarkSeenByAncestors
  <2>2. R \subseteq Ancestors(id)
    BY ReachedAreAncestors
  <2>3. Ancestors(id) \subseteq S
    <3>1. /\ R \subseteq Events /\ id \in R /\ WalkClosed(R, a, stored)
          /\ \A T \in SUBSET Events : id \in T /\ WalkClosed(T, a, stored) => R \subseteq T
      BY ReachedIsClosed
    <3>2. R \subseteq stored
      <4>1. WalkClosed(stored, a, stored)
        BY DEF WalkClosed, Missing, IInv, BufferInv, StoredClosed, ParentClosed
      <4>2. stored \in SUBSET Events /\ id \in stored
        BY DEF IInv, TypeOK
      <4> HIDE DEF stored, R
      <4> QED BY <3>1, <4>1, <4>2
    <3> HIDE DEF R
    <3>3. ParentClosed(S)
      <4> SUFFICES ASSUME NEW x \in S, NEW y \in Parents[x] PROVE y \in S
        BY DEF ParentClosed
      <4>1. CASE x \in events /\ a \in seenBy[x]
        BY <4>1 DEF IInv, BufferInv, StoredClosed, ParentClosed, GraphInv, SeenByInherited
      <4>2. CASE x \in R /\ a \notin seenBy[x]
        BY <3>1, <3>2, <4>2 DEF WalkClosed
      <4>3. CASE x \in R /\ x \notin events
        <5>1. x = id /\ a \notin seenBy[x]
          BY <3>2, <4>3 DEF IInv, GraphInv, SeenByStored
        <5> QED BY <4>2, <4>3, <5>1
      <4> QED BY <4>1, <4>2, <4>3
    <3>4. S \in SUBSET Events /\ id \in S
      BY <3>1 DEF IInv, TypeOK
    <3> HIDE DEF S
    <3> QED BY <3>3, <3>4, AncestorsLeast
  <2>4. SeenAlso(seenBy, {id}, participants)
          = [e \in Events |-> IF e \in Ancestors(id) THEN seenBy[e] \cup {a} ELSE seenBy[e]]
    <3>1. \A e \in Events :
            {p \in participants : \E f \in {id} : Author[f] = p /\ e \in Ancestors(f)}
              = IF e \in Ancestors(id) THEN {a} ELSE {}
      BY <1>2
    <3> QED BY <3>1 DEF SeenAlso
  <2>5. \A e \in Events : e \in R \/ a \in seenBy[e] <=> e \in Ancestors(id) \/ a \in seenBy[e]
    BY <2>2, <2>3
  <2> HIDE DEF R, S, a
  <2>6. \A e \in Events : (IF e \in R THEN seenBy[e] \cup {a} ELSE seenBy[e])
                         = (IF e \in Ancestors(id) THEN seenBy[e] \cup {a} ELSE seenBy[e])
    BY <2>5
  <2> QED BY <2>1, <2>4, <2>6
<1> QED BY <1>1, <1>2

\* Marking for one set of events and then for another marks for their union.
LEMMA SeenAlsoUnion ==
  ASSUME NEW seen, NEW V, NEW W, NEW members
  PROVE  SeenAlso(SeenAlso(seen, V, members), W, members)
           = SeenAlso(seen, V \cup W, members)
<1>1. \A e \in Events :
        SeenAlso(seen, V, members)[e]
          = seen[e] \cup {p \in members : \E f \in V : Author[f] = p /\ e \in Ancestors(f)}
  BY DEF SeenAlso
<1>2. \A e \in Events :
        SeenAlso(SeenAlso(seen, V, members), W, members)[e]
          = SeenAlso(seen, V \cup W, members)[e]
  BY <1>1 DEF SeenAlso
<1> QED BY <1>2 DEF SeenAlso

\* The members' view of what DeliveredDag calls seen, and of what is visible.
SeenInThePromise == SeenAlso(seenBy, Connected(Received) \ events, participants)

\* A worklist iteration that stores an event changes nothing of the promise.
LEMMA UnblockStoreStutters ==
  ASSUME IInv, NEW id \in Events, UnblockStore(id)
  PROVE  UNCHANGED <<Received, participants, SeenInThePromise>>
<1>1. /\ id \in pending /\ id \notin events /\ Missing(id) = {} /\ Store(id)
      /\ events' = events \cup {id} /\ pending' = pending \ {id}
      /\ participants' = participants
  BY DEF UnblockStore, Store, quorum, IInv, BufferInv, StoredClosed
<1>2. Received' = Received
  BY <1>1 DEF Received
<1>3. id \in Connected(Received)
  <2>1. ParentClosed(events \cup {id}) /\ events \cup {id} \subseteq Received
    BY <1>1 DEF Missing, Received, IInv, BufferInv, StoredClosed, ParentClosed
  <2> QED BY <2>1, ConnectedLargest
<1>4. seenBy' = SeenAlso(seenBy, {id}, participants)
  BY <1>1, StoreSeesAncestors
<1>5. {id} \cup (Connected(Received) \ events') = Connected(Received) \ events
  BY <1>1, <1>3
<1>6. SeenInThePromise' = SeenAlso(seenBy', Connected(Received) \ events', participants)
  BY <1>1, <1>2 DEF SeenInThePromise, SeenAlso, Connected, ParentClosed, Ancestors
<1> QED BY <1>1, <1>2, <1>4, <1>5, <1>6, SeenAlsoUnion DEF SeenInThePromise

\* A call of insert is the delivery of its event, whether it stores or buffers.
LEMMA InsertDelivers ==
  ASSUME IInv, LinksInv, NEW id \in Events, InsertReady(id) \/ InsertBuffered(id)
  PROVE  /\ Received' = Received \cup {id}
         /\ SeenInThePromise' =
              SeenAlso(SeenInThePromise,
                       Connected(Received') \ Connected(Received), participants)
         /\ participants' = participants
<1> DEFINE C == Connected(Received')
<1>1. Connected(Received) = events
  BY NothingIsHeldBack DEF NothingHeldBack, InsertReady, InsertBuffered
<1>2. Received' = Received \cup {id} /\ participants' = participants
  BY DEF InsertReady, InsertBuffered, Store, Received, graph, quorum
<1>3. SeenInThePromise' = SeenAlso(seenBy', C \ events', participants)
  BY <1>2 DEF SeenInThePromise, SeenAlso, Connected, ParentClosed, Ancestors
<1>4. SeenInThePromise = seenBy
  <2>1. SeenInThePromise = [e \in Events |-> seenBy[e]]
    BY <1>1 DEF SeenInThePromise, SeenAlso
  <2> QED BY <2>1 DEF IInv, TypeOK
<1>5. CASE InsertReady(id)
  <2>1. /\ id \notin events /\ Missing(id) = {} /\ Store(id)
        /\ events' = events \cup {id}
    BY <1>5 DEF InsertReady, Received, Store
  <2>2. id \in C
    <3>1. ParentClosed(events \cup {id}) /\ events \cup {id} \subseteq Received'
      BY <1>2, <2>1 DEF Missing, Received, IInv, BufferInv, StoredClosed, ParentClosed
    <3> QED BY <3>1, ConnectedLargest
  <2>3. {id} \cup (C \ events') = C \ events
    BY <2>1, <2>2
  <2>4. seenBy' = SeenAlso(seenBy, {id}, participants)
    BY <2>1, StoreSeesAncestors
  <2> HIDE DEF C
  <2> QED BY <1>1, <1>2, <1>3, <1>4, <2>3, <2>4, SeenAlsoUnion DEF C
<1>6. CASE InsertBuffered(id)
  BY <1>1, <1>2, <1>3, <1>4, <1>6 DEF InsertBuffered, graph
<1> QED BY <1>5, <1>6

\* A participant joins between calls: nothing is held back that it would have
\* to be marked for.
LEMMA AddParticipantJoins ==
  ASSUME IInv, LinksInv, NEW key \in PublicKeys, AddParticipant(key)
  PROVE  /\ participants' = participants \cup {key}
         /\ UNCHANGED <<Received, SeenInThePromise>>
<1>1. /\ participants' = participants \cup {key}
      /\ UNCHANGED <<events, pending, seenBy>>
  BY DEF AddParticipant, graph, buffer
<1>2. Connected(Received) = events
  BY NothingIsHeldBack DEF NothingHeldBack, AddParticipant
<1>3. UNCHANGED SeenInThePromise
  BY <1>1, <1>2 DEF SeenInThePromise, SeenAlso, Connected, ParentClosed, Received, Ancestors
<1> QED BY <1>1, <1>3 DEF Received

\* The operators of the promise are those of Dag.
LEMMA PromisedOperators ==
  /\ \A D : Promised!Connected(D) = Connected(D)
  /\ \A seen, V, members : Promised!SeenAlso(seen, V, members) = SeenAlso(seen, V, members)
BY DEF Promised!Connected, Promised!ParentClosed, Promised!SeenAlso, Promised!Ancestors,
       Connected, ParentClosed, SeenAlso, Ancestors

(***************************************************************************)
(* Whatever the order of delivery, a participant's DAG is the one its      *)
(* history of deliveries and joins promises: every step of the fields of   *)
(* Dag is a delivery, a join, or work that changes nothing of the promise, *)
(* and between calls nothing promised is held back.                        *)
(***************************************************************************)
THEOREM Refinement == Spec => ImplementsDeliveredDag
<1>1. Init => Promised!Init
  <2> SUFFICES ASSUME Init PROVE Promised!Init
    OBVIOUS
  <2>1. Received = {} /\ Connected(Received) = {}
    BY ConnectedLargest DEF Init, Received
  <2>2. SeenAlso(seenBy, Connected(Received) \ events, participants) = [e \in Events |-> {}]
    BY <2>1 DEF Init, SeenAlso
  <2> QED BY <2>1, <2>2 DEF Init, Promised!Init
<1>2. IInv /\ LinksInv /\ [Next]_vars => [Promised!Next]_(Promised!deliveredVars)
  <2> SUFFICES ASSUME IInv, LinksInv, [Next]_vars
               PROVE  Promised!Next \/ UNCHANGED Promised!deliveredVars
    OBVIOUS
  <2>1. ASSUME UNCHANGED <<Received, participants, SeenInThePromise>>
        PROVE  UNCHANGED Promised!deliveredVars
    BY <2>1 DEF Promised!deliveredVars, SeenInThePromise, Connected, ParentClosed
  <2>2. ASSUME NEW id \in Events, UnblockStore(id)
        PROVE  UNCHANGED Promised!deliveredVars
    BY <2>1, <2>2, UnblockStoreStutters
  <2>3. ASSUME UNCHANGED vars \/ \E id \in Events : UnblockDrop(id)
        PROVE  UNCHANGED Promised!deliveredVars
    <3>1. UNCHANGED <<events, pending, seenBy, participants>>
      BY <2>3 DEF vars, UnblockDrop, graph, quorum
    <3> QED BY <2>1, <3>1 DEF Received, SeenInThePromise, SeenAlso, Connected,
                              ParentClosed, Ancestors
  <2>4. ASSUME NEW id \in Events, InsertReady(id) \/ InsertBuffered(id)
        PROVE  Promised!Next
    <3>1. Promised!Deliver(id)
      BY <2>4, InsertDelivers, PromisedOperators DEF Promised!Deliver, SeenInThePromise
    <3> QED BY <3>1 DEF Promised!Next
  <2>5. ASSUME NEW key \in PublicKeys, AddParticipant(key) PROVE Promised!Next
    <3>1. Promised!Join(key)
      BY <2>5, AddParticipantJoins
         DEF Promised!Join, SeenInThePromise, Connected, ParentClosed
    <3> QED BY <3>1 DEF Promised!Next
  <2> QED BY StepCases, <2>2, <2>3, <2>4, <2>5
<1>3. IInv /\ LinksInv => NothingHeldBack
  BY NothingIsHeldBack
<1> QED
  BY Invariance, LinksInvariance, <1>1, <1>2, <1>3, PTL
     DEF Spec, ImplementsDeliveredDag, Promised!Spec

-----------------------------------------------------------------------------
(***************************************************************************)
(* The order of delivery leaves no trace.                                  *)
(***************************************************************************)

\* A stored event is one deeper than its deepest parent, and counts for its
\* author at all its ancestors.
LEMMA StoreTrace ==
  ASSUME IInv, TraceInv, NEW id \in Events, id \notin events, Missing(id) = {},
         Store(id), participants' = participants
  PROVE  TraceInv'
<1>1. events' = events \cup {id} /\ Parents[id] \subseteq events
  BY DEF Store, Missing
<1>2. PICK d \in Depths(id) : IsDepth(id, d) /\ depthCache' = [depthCache EXCEPT ![id] = d]
  BY DEF Store
<1>3. /\ depthCache'[id] = d
      /\ \A e \in events : depthCache'[e] = depthCache[e]
  BY <1>2 DEF IInv, TypeOK
<1>4. \A e \in events : Parents[e] \subseteq events
  BY DEF IInv, BufferInv, StoredClosed, ParentClosed
<1>5. IsDepthMap(depthCache, events)'
  <2>1. ASSUME NEW e \in events
        PROVE  /\ \A p \in Parents[e] : depthCache'[p] < depthCache'[e]
               /\ depthCache'[e] # 0 =>
                    \E p \in Parents[e] : depthCache'[e] = depthCache'[p] + 1
    BY <1>3, <1>4 DEF TraceInv, IsDepthMap
  <2>2. /\ \A p \in Parents[id] : depthCache'[p] < depthCache'[id]
        /\ depthCache'[id] # 0 =>
             \E p \in Parents[id] : depthCache'[id] = depthCache'[p] + 1
    BY <1>1, <1>2, <1>3 DEF IsDepth
  <2> QED BY <1>1, <2>1, <2>2 DEF IsDepthMap
<1>6. ASSUME participants = InitialParticipants
      PROVE  seenBy' = SeenAlso(Unseen, events', participants)
  <2>1. seenBy = SeenAlso(Unseen, events, participants)
    BY <1>6 DEF TraceInv
  <2>2. seenBy' = SeenAlso(seenBy, {id}, participants)
    BY <1>1, StoreSeesAncestors
  <2> QED BY <1>1, <2>1, <2>2, SeenAlsoUnion
<1>7. (participants = InitialParticipants =>
         seenBy = SeenAlso(Unseen, events, participants))'
  BY <1>6 DEF SeenAlso, Ancestors, ParentClosed, Unseen
<1> QED BY <1>5, <1>7 DEF TraceInv

LEMMA TraceInvariance == Spec => []TraceInv
<1>1. Init => TraceInv
  <2> SUFFICES ASSUME Init PROVE TraceInv
    OBVIOUS
  <2>1. SeenAlso(Unseen, {}, participants) = [e \in Events |-> {}]
    BY DEF SeenAlso, Unseen
  <2> QED BY <2>1 DEF Init, TraceInv, IsDepthMap
<1>2. IInv /\ TraceInv /\ [Next]_vars => TraceInv'
  <2> SUFFICES ASSUME IInv, TraceInv, [Next]_vars PROVE TraceInv'
    OBVIOUS
  <2>1. ASSUME UNCHANGED <<graph, participants>> PROVE TraceInv'
    BY <2>1 DEF TraceInv, IsDepthMap, SeenAlso, Ancestors, ParentClosed, Unseen, graph
  <2>2. ASSUME NEW id \in Events, InsertReady(id) PROVE TraceInv'
    BY <2>2, StoreTrace DEF InsertReady, Received
  <2>3. ASSUME NEW id \in Events, UnblockStore(id) PROVE TraceInv'
    BY <2>3, StoreTrace DEF UnblockStore, quorum, IInv, BufferInv, StoredClosed
  <2>4. ASSUME \/ UNCHANGED vars
               \/ \E id \in Events : InsertBuffered(id) \/ UnblockDrop(id)
        PROVE  TraceInv'
    BY <2>1, <2>4 DEF vars, InsertBuffered, UnblockDrop, graph, quorum
  <2>5. ASSUME NEW key \in PublicKeys, AddParticipant(key) PROVE TraceInv'
    <3>1. /\ key \notin participants /\ participants' = participants \cup {key}
          /\ UNCHANGED <<events, depthCache>>
      BY <2>5 DEF AddParticipant, graph
    <3>2. /\ InitialParticipants \subseteq participants'
          /\ participants' # InitialParticipants
      BY <3>1 DEF TraceInv
    <3> QED BY <3>1, <3>2 DEF TraceInv, IsDepthMap
  <2> QED BY StepCases, <2>2, <2>3, <2>4, <2>5
<1> QED BY Invariance, <1>1, <1>2, PTL DEF Spec

(***************************************************************************)
(* Between calls the stored events, their depths, the tips, what is        *)
(* missing and, as long as nobody has joined, who has seen what, depend on *)
(* the set of received events only: two participants that have received    *)
(* the same events in different orders hold the same DAG.                  *)
(***************************************************************************)
THEOREM DeliveryOrderForgotten == Spec => []OrderLeavesNoTrace
<1>1. IInv /\ LinksInv /\ TraceInv => OrderLeavesNoTrace
  <2> SUFFICES ASSUME IInv, LinksInv, TraceInv, Idle
               PROVE  /\ events = Connected(Received)
                      /\ MissingParents = (UNION {Parents[e] : e \in Received}) \ events
    BY DEF OrderLeavesNoTrace, LinksInv, ChildrenExact, TraceInv
  <2>1. events = Connected(Received)
    BY NothingIsHeldBack DEF NothingHeldBack
  <2>2. MissingParents = (UNION {Parents[e] : e \in Received}) \ events
    <3>1. \A e \in events : Parents[e] \subseteq events
      BY DEF IInv, BufferInv, StoredClosed, ParentClosed
    <3>2. Received \subseteq Events /\ \A e \in Received : Parents[e] \subseteq Events
      BY GraphAssumption DEF IInv, TypeOK, Received
    <3> QED BY <3>1, <3>2 DEF MissingParents, Received, Missing, IInv, BufferInv, WaitingExact
  <2> QED BY <2>1, <2>2
<1> QED BY Invariance, LinksInvariance, TraceInvariance, <1>1, PTL

(***************************************************************************)
(* Depths depend on the graph only: two participants give the same depth   *)
(* to every event that both have stored, whatever else they have stored    *)
(* and however compute_depth came by it, so (depth, id) orders the events  *)
(* they share alike.                                                       *)
(***************************************************************************)
THEOREM DepthsAgree ==
  ASSUME NEW S \in SUBSET Events, IsFiniteSet(S), ParentClosed(S),
         NEW T \in SUBSET Events, ParentClosed(T),
         NEW f \in [Events -> Nat], IsDepthMap(f, S),
         NEW g \in [Events -> Nat], IsDepthMap(g, T)
  PROVE  \A e \in S \cap T : f[e] = g[e]
<1> DEFINE D == {e \in S \cap T : f[e] # g[e]}
<1>1. IsFiniteSet(D) /\ D \subseteq Events
  BY FS_Subset
<1>2. ASSUME NEW e \in D, Parents[e] \cap D = {} PROVE FALSE
  <2>1. /\ e \in Events /\ f[e] \in Nat /\ g[e] \in Nat /\ f[e] # g[e]
        /\ \A p \in Parents[e] : p \in Events /\ f[p] \in Nat /\ f[p] = g[p]
    BY <1>2, GraphAssumption DEF ParentClosed
  <2>2. /\ \A p \in Parents[e] : f[p] < f[e] /\ g[p] < g[e]
        /\ f[e] # 0 => \E p \in Parents[e] : f[e] = f[p] + 1
        /\ g[e] # 0 => \E p \in Parents[e] : g[e] = g[p] + 1
    BY DEF IsDepthMap
  <2>3. f[e] <= g[e]
    BY <2>1, <2>2
  <2>4. g[e] <= f[e]
    BY <2>1, <2>2
  <2> QED BY <2>1, <2>3, <2>4
<1> HIDE DEF D
<1>3. D = {}
  BY <1>1, <1>2, AcyclicAssumption DEF Acyclic
<1> QED BY <1>3 DEF D
=============================================================================
