------------------------- MODULE NetworkTimeProofs -------------------------
(***************************************************************************)
(* The safety properties of the network clock, for every offset of the     *)
(* peer, window and number of overlapping rounds. Both are inductive once  *)
(* the number of pending rounds is known to be a natural number.           *)
(***************************************************************************)
EXTENDS NetworkTime, FiniteSetTheorems, WellFoundedInduction, TLAPS

Pending == unheard \in Nat /\ heard \in Nat

IInv == Pending /\ PersistedIsCurrent /\ StatusIsEarned

LEMMA InitIInv == Init => IInv
  BY DEF Init, IInv, Pending, PersistedIsCurrent, StatusIsEarned

\* Starting a round leaves the offset and its copy in storage alone.
LEMMA StartSyncIInv == ASSUME IInv, StartSync PROVE IInv'
  <1>1. Pending'
    BY DEF IInv, Pending, StartSync
  <1>2. PersistedIsCurrent'
    BY DEF IInv, PersistedIsCurrent, StartSync, storage
  <1>3. StatusIsEarned'
    BY DEF IInv, Pending, StatusIsEarned, StartSync, Fallback
  <1> QED BY <1>1, <1>2, <1>3 DEF IInv

\* Recalibrating moves and persists the offset together, or records that it
\* could not be persisted, and settles the status.
LEMMA RecalibrateKeeps ==
  ASSUME IInv, NEW kept, RecalibrateOffset(kept)
  PROVE  PersistedIsCurrent' /\ StatusIsEarned'
  <1>1. CASE Len(kept) < MinSamples /\ status' = Fallback
             /\ UNCHANGED <<offset, synced, storage>>
    BY <1>1 DEF IInv, PersistedIsCurrent, StatusIsEarned, Fallback, storage
  <1>2. CASE synced' = TRUE /\ status' = "available" /\ Store(offset')
    BY <1>2 DEF PersistedIsCurrent, StatusIsEarned, Store
  <1> QED BY <1>1, <1>2 DEF RecalibrateOffset

\* Every step keeps the invariant.
LEMMA NextIInv == ASSUME IInv, [Next]_vars PROVE IInv'
  <1>1. CASE SyncNow
    BY <1>1, StartSyncIInv DEF SyncNow
  <1>2. CASE LoopTick
    BY <1>2, StartSyncIInv DEF LoopTick
  <1>3. CASE RetryFires
    BY <1>3, StartSyncIInv DEF RetryFires
  <1>4. CASE PageVisible
    BY <1>4, StartSyncIInv DEF PageVisible
  <1>5. CASE AttachNode
    BY <1>5 DEF AttachNode, rounds, clock, storage, IInv, Pending, PersistedIsCurrent, StatusIsEarned
  <1>6. CASE Response
    BY <1>6 DEF Response, clock, storage, IInv, Pending, PersistedIsCurrent, StatusIsEarned
  <1>7. CASE FinishSync
    <2>1. Pending'
      BY <1>7 DEF FinishSync, FinishHeard, FinishUnheard, IInv, Pending
    <2>2. PersistedIsCurrent' /\ StatusIsEarned'
      BY <1>7, RecalibrateKeeps DEF FinishSync
    <2> QED BY <2>1, <2>2 DEF IInv
  <1>8. CASE ResetState
    BY <1>8 DEF ResetState, Store, rounds, IInv, Pending, PersistedIsCurrent, StatusIsEarned
  <1>9. CASE Reload
    <2>1. Pending'
      BY <1>9 DEF Reload, Load, Pending
    <2>2. ASSUME Load, Restore PROVE PersistedIsCurrent' /\ StatusIsEarned'
      BY <2>2 DEF Load, Restore, PersistedIsCurrent, StatusIsEarned
    <2>3. ASSUME Load, RestoreNothing PROVE PersistedIsCurrent' /\ StatusIsEarned'
      BY <2>3 DEF Load, RestoreNothing, PersistedIsCurrent, StatusIsEarned
    <2> QED BY <1>9, <2>1, <2>2, <2>3 DEF Reload, IInv
  <1>10. CASE Subscribed
    BY <1>10, StartSyncIInv DEF Subscribed
  <1>11. CASE ReattachNode
    BY <1>11 DEF ReattachNode, rounds, clock, storage, IInv, Pending, PersistedIsCurrent, StatusIsEarned
  <1>12. CASE OtherPage
    BY <1>12 DEF OtherPage, rounds, IInv, Pending, PersistedIsCurrent, StatusIsEarned
  <1>13. CASE UNCHANGED vars
    BY <1>13 DEF vars, rounds, clock, storage, IInv, Pending, PersistedIsCurrent, StatusIsEarned
  <1> QED
    BY <1>1, <1>2, <1>3, <1>4, <1>5, <1>6, <1>7, <1>8, <1>9, <1>10,
       <1>11, <1>12, <1>13 DEF Next

LEMMA Invariance == Spec => []IInv
  BY InitIInv, NextIInv, PTL DEF Spec

(***************************************************************************)
(* A page that is loaded again goes on with the offset in use, unless      *)
(* storage refused the last write or another page wrote after it: local    *)
(* storage is never behind recalibrateOffset, resetState and the rounds    *)
(* that outlive a reset for any other reason.                              *)
(***************************************************************************)
THEOREM PersistedAlways == Spec => []PersistedIsCurrent
  <1>1. IInv => PersistedIsCurrent
    BY DEF IInv
  <1> QED BY <1>1, Invariance, PTL

(***************************************************************************)
(* Events are judged (validateEventTimestamp) only by a calibrated clock,  *)
(* and a calibrated clock is suspended only while a round is under way.    *)
(***************************************************************************)
THEOREM StatusAlwaysEarned == Spec => []StatusIsEarned
  <1>1. IInv => StatusIsEarned
    BY DEF IInv
  <1> QED BY <1>1, Invariance, PTL

----------------------------------------------------------------------------
(***************************************************************************)
(* The median is one of the samples: a set of levels that is not empty has *)
(* a least one, as the levels are subsets of the finite set of positions.  *)
(***************************************************************************)
LEMMA LeastSet ==
  ASSUME NEW D, IsFiniteSet(D), NEW T, T \subseteq SUBSET D, T # {}
  PROVE  \E X \in T : \A Y \in T : Y \subseteq X => Y = X
<1>1. IsWellFoundedOn(StrictSubsetOrdering(D), SUBSET D)
  BY FS_StrictSubsetOrderingWellFounded, FS_FiniteSubsetsOfFinite
<1>2. PICK X \in T : \A Y \in T : ~(<<Y, X>> \in StrictSubsetOrdering(D))
  BY <1>1, WFMin
<1>3. ASSUME NEW Y \in T, Y \subseteq X PROVE Y = X
  BY <1>2, <1>3 DEF StrictSubsetOrdering
<1> QED BY <1>3

LEMMA MedianIsInt ==
  ASSUME NEW s \in Seq(Int), Len(s) > 0
  PROVE  Median(s) \in Int
<1> DEFINE D == DOMAIN s
<1>1. /\ Len(s) \in Nat /\ D = 1 .. Len(s) /\ D # {}
      /\ \A i \in D : s[i] \in Int
  <2>1. Len(s) \in Nat /\ D = 1 .. Len(s) /\ \A i \in D : s[i] \in Int
    OBVIOUS
  <2>2. 1 \in D
    BY <2>1
  <2> QED BY <2>1, <2>2
<1>2. IsFiniteSet(D) /\ Cardinality(D) = Len(s)
  <2>1. PICK n : n = Len(s)
    OBVIOUS
  <2>2. IsFiniteSet(1 .. n) /\ Cardinality(1 .. n) = IF 1 > n THEN 0 ELSE n - 1 + 1
    <3>1. 1 \in Int /\ n \in Int
      BY <1>1, <2>1
    <3> QED BY <3>1, FS_Interval
  <2>3. Cardinality(1 .. n) = n
    <3>1. n \in Nat /\ n >= 1
      BY <2>1
    <3> QED BY <2>2, <3>1
  <2> QED BY <1>1, <2>1, <2>2, <2>3
<1> HIDE DEF D
<1>3. \A i, j \in D : s[j] < s[i] => Level(s, j) \subseteq Level(s, i) /\ Level(s, j) # Level(s, i)
  BY <1>1 DEF Level, D
\* The greatest sample has all of them up to it.
<1>4. Heavy(s) # {}
  <2>1. PICK i \in D : \A j \in D :
          D \ Level(s, j) \subseteq D \ Level(s, i) => D \ Level(s, j) = D \ Level(s, i)
    <3> DEFINE T == {D \ Level(s, i) : i \in D}
    <3>1. T \subseteq SUBSET D /\ T # {}
      BY <1>1
    <3> HIDE DEF T
    <3>2. PICK X \in T : \A Y \in T : Y \subseteq X => Y = X
      BY <1>2, <3>1, LeastSet
    <3>3. PICK i \in D : X = D \ Level(s, i)
      BY DEF T
    <3>4. \A j \in D : D \ Level(s, j) \in T
      BY DEF T
    <3>5. ASSUME NEW j \in D, D \ Level(s, j) \subseteq D \ Level(s, i)
          PROVE  D \ Level(s, j) = D \ Level(s, i)
      <4>1. D \ Level(s, j) \in T
        BY <3>4
      <4> QED BY <3>2, <3>3, <3>5, <4>1
    <3> QED BY <3>5
  <2>2. \A j \in D : Level(s, j) \subseteq D
    BY DEF Level, D
  <2>3. ASSUME NEW j \in D PROVE s[j] <= s[i]
    <3>1. SUFFICES ASSUME s[i] < s[j] PROVE FALSE
      BY <1>1
    <3>2. Level(s, i) \subseteq Level(s, j) /\ Level(s, i) # Level(s, j)
      BY <1>3, <3>1
    <3> QED BY <2>1, <2>2, <3>2
  <2>4. Level(s, i) = D
    BY <2>3 DEF Level, D
  <2>5. 2 * Cardinality(Level(s, i)) >= Len(s)
    BY <1>1, <1>2, <2>4
  <2> QED BY <2>5 DEF Heavy, D
<1>5. \E i \in Heavy(s) : \A j \in Heavy(s) : s[i] <= s[j]
  <2> DEFINE T == {Level(s, i) : i \in Heavy(s)}
  <2>1. T \subseteq SUBSET D /\ T # {}
    BY <1>4 DEF Level, D
  <2> HIDE DEF T
  <2>2. PICK X \in T : \A Y \in T : Y \subseteq X => Y = X
    BY <1>2, <2>1, LeastSet
  <2>3. PICK i \in Heavy(s) : X = Level(s, i)
    BY DEF T
  <2>4. i \in D /\ Heavy(s) \subseteq D
    BY DEF Heavy, D
  <2>5. ASSUME NEW j \in Heavy(s) PROVE s[i] <= s[j]
    <3>1. SUFFICES ASSUME s[j] < s[i] PROVE FALSE
      BY <1>1, <2>4
    <3>2. Level(s, j) \subseteq Level(s, i) /\ Level(s, j) # Level(s, i)
      BY <1>3, <2>4, <3>1
    <3>3. Level(s, j) \in T
      BY DEF T
    <3> QED BY <2>2, <2>3, <3>2, <3>3
  <2> QED BY <2>5
<1>6. \A i \in Heavy(s) : s[i] \in Int
  BY <1>1 DEF Heavy, D
<1> QED BY <1>5, <1>6 DEF Median

----------------------------------------------------------------------------
\* Starting a round keeps the types of what it changes.
LEMMA StartSyncType ==
  ASSUME TypeOK, StartSync
  PROVE  /\ unheard' \in Nat /\ heard' = heard /\ unheard' + heard' <= MaxPending
         /\ status' \in {"checking", "available", "unavailable"}
         /\ UNCHANGED <<silent, peerSamples, offset, synced, stored, lost>>
<1>1. unheard \in Nat /\ heard \in Nat /\ MaxPending \in Nat /\ unheard + heard <= MaxPending
  BY NetworkTimeAssumption DEF TypeOK
<1> QED BY <1>1 DEF TypeOK, StartSync, Fallback, storage

\* Recalibrating moves the offset by a number: the median of some samples.
LEMMA RecalibrateType ==
  ASSUME TypeOK, NEW kept \in Seq(Int), Len(kept) <= Window, RecalibrateOffset(kept)
  PROVE  /\ peerSamples' \in Seq(Int) /\ Len(peerSamples') <= Window
         /\ offset' \in Int /\ synced' \in BOOLEAN
         /\ status' \in {"checking", "available", "unavailable"}
         /\ stored' \in Int \union {Nothing} /\ lost' \in BOOLEAN
<1>1. peerSamples' = kept
  BY DEF RecalibrateOffset
<1>2. CASE status' = Fallback /\ UNCHANGED <<offset, synced, storage>>
  BY <1>1, <1>2 DEF TypeOK, Fallback, storage
<1>3. CASE Len(kept) >= MinSamples /\ offset' = Clamped(offset + Median(kept))
           /\ synced' = TRUE /\ status' = "available" /\ Store(offset')
  <2>1. Median(kept) \in Int
    BY <1>3, MedianIsInt, NetworkTimeAssumption
  <2>2. offset' \in Int
    BY <1>3, <2>1, NetworkTimeAssumption DEF TypeOK, Clamped
  <2>3. stored' \in Int \union {Nothing} /\ lost' \in BOOLEAN
    BY <1>3, <2>2 DEF TypeOK, Store
  <2> QED BY <1>1, <1>3, <2>2, <2>3
<1> QED BY <1>2, <1>3 DEF RecalibrateOffset

LEMMA ResponseType == ASSUME TypeOK, Response PROVE TypeOK'
<1>1. /\ unheard' \in Nat /\ heard' \in Nat /\ unheard' + heard' <= MaxPending
  BY NetworkTimeAssumption DEF TypeOK, Response
<1>2. Damped(PeerOffset - offset) \in Int
  BY NetworkTimeAssumption DEF TypeOK, Damped
<1>3. PICK d \in Int : peerSamples' = Recent(Append(peerSamples, d))
  BY <1>2 DEF Response
<1>4. peerSamples' \in Seq(Int) /\ Len(peerSamples') <= Window
  <2>1. /\ Append(peerSamples, d) \in Seq(Int)
        /\ Len(Append(peerSamples, d)) = Len(peerSamples) + 1
        /\ Len(peerSamples) \in Nat /\ Len(peerSamples) <= Window
    BY DEF TypeOK
  <2> DEFINE s == Append(peerSamples, d)
  <2>2. CASE Len(s) > Window
    <3>1. s # <<>> /\ Tail(s) \in Seq(Int) /\ Len(Tail(s)) = Len(s) - 1
      BY <2>1, <2>2, NetworkTimeAssumption
    <3> QED BY <1>3, <2>1, <2>2, <3>1, NetworkTimeAssumption DEF Recent
  <2>3. CASE ~(Len(s) > Window)
    BY <1>3, <2>1, <2>3, NetworkTimeAssumption DEF Recent
  <2> QED BY <2>2, <2>3
<1> QED BY <1>1, <1>4 DEF Response, clock, storage, TypeOK

LEMMA FinishSyncType == ASSUME TypeOK, FinishSync PROVE TypeOK'
<1>1. /\ unheard' \in Nat /\ heard' \in Nat /\ unheard' + heard' <= MaxPending
      /\ retries' \in 0 .. MaxPending /\ silent' \in 0 .. MaxSilent
  <2>1. /\ unheard \in Nat /\ heard \in Nat /\ unheard + heard <= MaxPending
        /\ retries \in 0 .. MaxPending /\ silent \in 0 .. MaxSilent
        /\ MaxPending \in Nat /\ MaxSilent \in Nat
    BY NetworkTimeAssumption DEF TypeOK
  <2> QED BY <2>1 DEF FinishSync, FinishHeard, FinishUnheard
<1>2. PICK stale \in 0 .. Len(peerSamples) :
        RecalibrateOffset(SubSeq(peerSamples, stale + 1, Len(peerSamples)))
  BY DEF FinishSync
<1> DEFINE kept == SubSeq(peerSamples, stale + 1, Len(peerSamples))
<1>3. kept \in Seq(Int) /\ Len(kept) <= Window
  <2>1. peerSamples \in Seq(Int) /\ Len(peerSamples) \in Nat /\ Len(peerSamples) <= Window
        /\ Window \in Nat
    BY NetworkTimeAssumption DEF TypeOK
  <2> QED BY <2>1
<1> HIDE DEF kept
<1>4. /\ peerSamples' \in Seq(Int) /\ Len(peerSamples') <= Window
      /\ offset' \in Int /\ synced' \in BOOLEAN
      /\ status' \in {"checking", "available", "unavailable"}
      /\ stored' \in Int \union {Nothing} /\ lost' \in BOOLEAN
  BY <1>2, <1>3, RecalibrateType DEF kept
<1> QED BY <1>1, <1>4 DEF FinishSync, TypeOK

LEMMA NoSamples == <<>> \in Seq(Int) /\ Len(<<>>) <= Window
<1>1. Len(<<>>) = 0 /\ <<>> \in Seq(Int)
  OBVIOUS
<1> QED BY <1>1, NetworkTimeAssumption

LEMMA NextType == ASSUME TypeOK, [Next]_vars PROVE TypeOK'
<1>1. CASE SyncNow
  BY <1>1, StartSyncType DEF SyncNow, TypeOK
<1>2. CASE LoopTick
  BY <1>2, StartSyncType DEF LoopTick, TypeOK
<1>3. CASE RetryFires
  <2>1. retries' \in 0 .. MaxPending
    BY <1>3, NetworkTimeAssumption DEF RetryFires, TypeOK
  <2>2. StartSync /\ UNCHANGED <<node, loop>>
    BY <1>3 DEF RetryFires
  <2> QED BY <2>1, <2>2, StartSyncType DEF TypeOK
<1>4. CASE PageVisible
  BY <1>4, StartSyncType DEF PageVisible, TypeOK
<1>5. CASE AttachNode
  BY <1>5 DEF AttachNode, rounds, clock, storage, TypeOK
<1>6. CASE Response
  BY <1>6, ResponseType
<1>7. CASE FinishSync
  BY <1>7, FinishSyncType
<1>8. CASE ResetState
  <2>1. peerSamples' \in Seq(Int) /\ Len(peerSamples') <= Window
    BY <1>8, NoSamples DEF ResetState
  <2>2. UNCHANGED <<node, unheard, heard, retries, silent>> /\ loop' = FALSE
    BY <1>8 DEF ResetState, rounds
  <2>3. /\ synced' \in BOOLEAN /\ offset' \in Int /\ stored' \in Int \union {Nothing} /\ lost' \in BOOLEAN
        /\ status' \in {"checking", "available", "unavailable"}
    <3>1. synced' \in BOOLEAN
      BY <1>8 DEF ResetState
    <3>2. offset' \in Int
      BY <1>8 DEF ResetState
    <3>3. stored' \in Int \union {Nothing} /\ lost' \in BOOLEAN
      BY <1>8 DEF ResetState, Store, TypeOK
    <3>4. status' \in {"checking", "available", "unavailable"}
      BY <1>8 DEF ResetState
    <3> QED BY <3>1, <3>2, <3>3, <3>4
  <2> QED BY <2>1, <2>2, <2>3 DEF TypeOK
<1>9. CASE Reload
  <2>1. peerSamples' \in Seq(Int) /\ Len(peerSamples') <= Window
    BY <1>9, NoSamples DEF Reload, Load
  <2>2. /\ unheard' = 0 /\ heard' = 0 /\ retries' = 0 /\ UNCHANGED silent
        /\ node' = FALSE /\ loop' = FALSE
    BY <1>9 DEF Reload, Load
  <2>3. /\ unheard' + heard' <= MaxPending /\ retries' \in 0 .. MaxPending
        /\ silent' \in 0 .. MaxSilent
    BY <2>2, NetworkTimeAssumption DEF TypeOK
  <2>4. /\ synced' \in BOOLEAN /\ offset' \in Int /\ stored' \in Int \union {Nothing} /\ lost' \in BOOLEAN
        /\ status' \in {"checking", "available", "unavailable"}
    <3>1. synced' \in BOOLEAN
      BY <1>9 DEF Reload, Load, Restore, RestoreNothing, TypeOK
    <3>2. offset' \in Int
      BY <1>9 DEF Reload, Load, Restore, RestoreNothing, TypeOK
    <3>3. stored' \in Int \union {Nothing} /\ lost' \in BOOLEAN
      BY <1>9 DEF Reload, Load, Restore, RestoreNothing, TypeOK
    <3>4. status' \in {"checking", "available", "unavailable"}
      BY <1>9 DEF Reload, Load, Restore, RestoreNothing, TypeOK
    <3> QED BY <3>1, <3>2, <3>3, <3>4
  <2> QED BY <2>1, <2>2, <2>3, <2>4 DEF TypeOK
<1>10. CASE Subscribed
  BY <1>10, StartSyncType DEF Subscribed, TypeOK
<1>11. CASE ReattachNode
  BY <1>11 DEF ReattachNode, rounds, clock, storage, TypeOK
<1>12. CASE OtherPage
  BY <1>12, NetworkTimeAssumption DEF OtherPage, rounds, TypeOK
<1>13. CASE UNCHANGED vars
  BY <1>13 DEF vars, rounds, clock, storage, TypeOK
<1> QED
  BY <1>1, <1>2, <1>3, <1>4, <1>5, <1>6, <1>7, <1>8, <1>9, <1>10,
     <1>11, <1>12, <1>13 DEF Next

(***************************************************************************)
(* The clock keeps its types: the window of samples never outgrows what    *)
(* recalibrateOffset reads, the interval runs only with a node, and the    *)
(* offset stays a number, since the median is always one of the samples.   *)
(***************************************************************************)
THEOREM TypeCorrect == Spec => []TypeOK
<1>1. Init => TypeOK
  <2> SUFFICES ASSUME Init PROVE TypeOK
    OBVIOUS
  <2>1. peerSamples \in Seq(Int) /\ Len(peerSamples) <= Window
    BY NoSamples DEF Init
  <2>2. /\ unheard \in Nat /\ heard \in Nat /\ unheard + heard <= MaxPending
        /\ retries \in 0 .. MaxPending /\ silent \in 0 .. MaxSilent /\ offset \in Int
    BY NetworkTimeAssumption DEF Init
  <2>3. /\ node \in BOOLEAN /\ loop \in BOOLEAN /\ synced \in BOOLEAN /\ (loop => node)
        /\ status \in {"checking", "available", "unavailable"}
        /\ stored \in Int \union {Nothing} /\ lost \in BOOLEAN
    BY DEF Init
  <2> QED BY <2>1, <2>2, <2>3 DEF TypeOK
<1>2. TypeOK /\ [Next]_vars => TypeOK'
  BY NextType
<1> QED BY <1>1, <1>2, PTL DEF Spec
=============================================================================
