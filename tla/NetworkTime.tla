---------------------------- MODULE NetworkTime ----------------------------
(***************************************************************************)
(* The network clock of a browser page (demo/shared/network-time.mjs):     *)
(* rounds of synchronisation that a timer, retries and events of peers     *)
(* start and that overlap, a window of samples, the damped offset, and     *)
(* what local storage keeps of it.                                         *)
(*                                                                         *)
(* One peer answers, whose clock is PeerOffset ahead of the local one, so  *)
(* that the samples have equal weights. A sample is kept as the move it    *)
(* calls for: the damped median is the median of the damped samples.       *)
(***************************************************************************)
EXTENDS Integers, Sequences, FiniteSets

CONSTANTS
  PeerOffset,
  MinSamples,      \* MIN_SAMPLES_FOR_RECALIBRATION
  Window,          \* SAMPLE_WINDOW
  MaxOffset,       \* bound: an offset as large as this grows no more
  MaxPending,      \* bound: rounds under way, and retries scheduled
  MaxSilent,       \* bound: rounds that no peer answers
  OtherOffsets,    \* offsets that other pages of the origin may store
  Nothing

ASSUME NetworkTimeAssumption ==
  /\ PeerOffset \in Nat
  /\ MinSamples \in Nat \ {0}
  /\ Window \in Nat /\ Window >= MinSamples
  /\ MaxOffset \in Nat /\ MaxOffset >= PeerOffset
  /\ MaxPending \in Nat \ {0}
  /\ MaxSilent \in Nat
  /\ OtherOffsets \subseteq Int
  /\ Nothing \notin Int

VARIABLES
  node,            \* a libp2p node is attached
  loop,            \* the interval of scheduleSyncLoop runs
  unheard, heard,  \* pendingRequests without and with a response
  retries,         \* timeouts that will start another round
  silent,          \* rounds that ended without a response
  peerSamples,     \* the move each sample of the window calls for, oldest first
  offset,          \* offsetMs
  synced,          \* lastSyncAt is set
  status,
  stored,          \* the offset in local storage, or Nothing
  lost             \* history: what this page last stored or read did not get
                   \* through, or another page has written since

rounds == <<unheard, heard, retries, silent>>
storage == <<stored, lost>>
clock == <<offset, synced, status, storage>>
vars == <<node, loop, rounds, peerSamples, clock>>

\* Math.round(delta * DAMPING_FACTOR)
Damped(delta) == (delta + 5) \div 10

Init ==
  /\ node = FALSE /\ loop = FALSE
  /\ unheard = 0 /\ heard = 0 /\ retries = 0 /\ silent = 0
  /\ peerSamples = <<>>
  /\ offset = 0 /\ synced = FALSE /\ status = "checking"
  /\ stored = Nothing /\ lost = FALSE

----------------------------------------------------------------------------
\* The status when nothing can be recalibrated.
Fallback == IF synced THEN "available" ELSE "unavailable"

\* The first half of syncNetworkTime, up to the wait for responses.
StartSync ==
  /\ unheard + heard < MaxPending
  /\ IF node THEN /\ status' = "checking"
                  /\ unheard' = unheard + 1
             ELSE /\ status' = Fallback
                  /\ UNCHANGED unheard
  /\ UNCHANGED <<heard, silent, peerSamples, offset, synced, storage>>

\* syncNow, a peer that connects or disconnects, setTopic
SyncNow == StartSync /\ UNCHANGED <<node, loop, retries>>

LoopTick == loop /\ StartSync /\ UNCHANGED <<node, loop, retries>>

RetryFires ==
  /\ retries > 0
  /\ retries' = retries - 1
  /\ StartSync
  /\ UNCHANGED <<node, loop>>

\* Mutant: the interval is scheduled without a node.
PageVisibleAlways == loop' = TRUE /\ StartSync /\ UNCHANGED <<node, retries>>

\* visibilitychange: the interval is scheduled again, and a round started.
PageVisible == loop' = node /\ StartSync /\ UNCHANGED <<node, retries>>

\* attachNode: the node is set before it has subscribed, which may fail.
AttachNode ==
  /\ ~node
  /\ node' = TRUE
  /\ UNCHANGED <<loop, rounds, peerSamples, clock>>

\* ... and, when it has subscribed, the interval and a first round start.
Subscribed == node /\ loop' = TRUE /\ StartSync /\ UNCHANGED <<node, retries>>

\* attachNode, for the node that is attached already.
ReattachNode ==
  /\ node
  /\ loop' = TRUE
  /\ UNCHANGED <<node, rounds, peerSamples, clock>>

\* What recalibrateOffset reads of the samples: peerSamples.slice(-SAMPLE_WINDOW)
Recent(samples) == IF Len(samples) > Window THEN Tail(samples) ELSE samples

\* A response to a round under way.
Response ==
  /\ \/ /\ unheard > 0
        /\ unheard' = unheard - 1
        /\ heard' = heard + 1
     \/ /\ heard > 0
        /\ UNCHANGED <<unheard, heard>>
  /\ peerSamples' = Recent(Append(peerSamples, Damped(PeerOffset - offset)))
  /\ UNCHANGED <<node, loop, retries, silent, clock>>

----------------------------------------------------------------------------
\* weightedMedian for equal weights: the least sample with no less than half
\* of them up to it.
Level(samples, i) == {j \in DOMAIN samples : samples[j] <= samples[i]}

Heavy(samples) == {i \in DOMAIN samples : 2 * Cardinality(Level(samples, i)) >= Len(samples)}

Median(samples) ==
  samples[CHOOSE i \in Heavy(samples) : \A j \in Heavy(samples) : samples[i] <= samples[j]]

Clamped(o) == IF o > MaxOffset THEN MaxOffset ELSE o

\* persistState, and the end of resetState: local storage may throw, which is
\* caught, and keeps what it had.
Store(value) ==
  \/ stored' = value /\ lost' = FALSE
  \/ UNCHANGED stored /\ lost' = TRUE

\* Mutant: the offset is persisted before it is moved.
RecalibrateOffsetEarly(kept) ==
  /\ peerSamples' = kept
  /\ \/ /\ Len(kept) < MinSamples
        /\ status' = Fallback
        /\ UNCHANGED <<offset, synced, storage>>
     \/ /\ Len(kept) >= MinSamples
        /\ offset' = Clamped(offset + Median(kept))
        /\ synced' = TRUE
        /\ status' = "available"
        /\ Store(offset)

\* Mutant: too few samples leave the status alone.
RecalibrateOffsetQuietly(kept) ==
  /\ peerSamples' = kept
  /\ \/ /\ Len(kept) < MinSamples
        /\ UNCHANGED <<status, offset, synced, storage>>
     \/ /\ Len(kept) >= MinSamples
        /\ offset' = Clamped(offset + Median(kept))
        /\ synced' = TRUE
        /\ status' = "available"
        /\ Store(offset')

\* recalibrateOffset, once the stale samples have been evicted.
RecalibrateOffset(kept) ==
  /\ peerSamples' = kept
  /\ \/ /\ Len(kept) < MinSamples
        /\ status' = Fallback
        /\ UNCHANGED <<offset, synced, storage>>
     \/ /\ Len(kept) >= MinSamples
        /\ offset' = Clamped(offset + Median(kept))
        /\ synced' = TRUE
        /\ status' = "available"
        /\ Store(offset')

\* Mutant: a round is tried again whether it was answered or not.
FinishHeardRetrying ==
  /\ heard > 0
  /\ heard' = heard - 1
  /\ retries < MaxPending
  /\ retries' = retries + 1
  /\ UNCHANGED <<unheard, silent>>

\* The second half of syncNetworkTime, for a round somebody answered ...
FinishHeard ==
  /\ heard > 0
  /\ heard' = heard - 1
  /\ UNCHANGED <<unheard, retries, silent>>

\* ... and for one nobody did, which is tried again.
FinishUnheard ==
  /\ unheard > 0
  /\ unheard' = unheard - 1
  /\ silent < MaxSilent /\ retries < MaxPending
  /\ silent' = silent + 1
  /\ retries' = retries + 1
  /\ UNCHANGED heard

FinishSync ==
  /\ FinishHeard \/ FinishUnheard
  /\ \E stale \in 0 .. Len(peerSamples) :
       RecalibrateOffset(SubSeq(peerSamples, stale + 1, Len(peerSamples)))
  /\ UNCHANGED <<node, loop>>

----------------------------------------------------------------------------
\* resetState: pending rounds and retries go on.
ResetState ==
  /\ offset' = 0 /\ synced' = FALSE /\ status' = "checking"
  /\ Store(Nothing)
  /\ peerSamples' = <<>>
  /\ loop' = FALSE
  /\ UNCHANGED <<node, rounds>>

\* The page is loaded again.
Load ==
  /\ node' = FALSE /\ loop' = FALSE
  /\ unheard' = 0 /\ heard' = 0 /\ retries' = 0
  /\ peerSamples' = <<>>
  /\ UNCHANGED <<silent, stored>>

\* restoreState: whatever is stored, by this page or another one, ...
Restore ==
  /\ stored # Nothing
  /\ offset' = stored /\ synced' = TRUE /\ status' = "available"
  /\ lost' = FALSE

\* ... or nothing, if there is nothing or storage cannot be read.
RestoreNothing ==
  /\ offset' = 0 /\ synced' = FALSE /\ status' = "checking"
  /\ lost' = (stored # Nothing)

Reload == Load /\ (Restore \/ RestoreNothing)

\* Another page of the origin persists or resets its clock under the same key.
OtherPage ==
  /\ stored' \in OtherOffsets \cup {Nothing}
  /\ lost' = TRUE
  /\ UNCHANGED <<node, loop, rounds, peerSamples, offset, synced, status>>

Next ==
  \/ SyncNow \/ LoopTick \/ RetryFires \/ PageVisible
  \/ AttachNode \/ Subscribed \/ ReattachNode
  \/ Response \/ FinishSync
  \/ ResetState \/ Reload \/ OtherPage

Spec == Init /\ [][Next]_vars

(***************************************************************************)
(* Timers fire (RetryFires), and every round ends when its wait is over.   *)
(* Peers answer again once MaxSilent rounds have gone unanswered: a round  *)
(* then gets a response before it ends.                                    *)
(***************************************************************************)
Fairness ==
  /\ SF_vars(RetryFires)
  /\ WF_vars(FinishSync)
  /\ SF_vars(unheard > 0 /\ Response)

FairSpec == Spec /\ Fairness

----------------------------------------------------------------------------
TypeOK ==
  /\ node \in BOOLEAN /\ loop \in BOOLEAN /\ synced \in BOOLEAN
  /\ unheard \in Nat /\ heard \in Nat /\ unheard + heard <= MaxPending
  /\ retries \in 0 .. MaxPending /\ silent \in 0 .. MaxSilent
  /\ peerSamples \in Seq(Int) /\ Len(peerSamples) <= Window
  /\ offset \in Int
  /\ status \in {"checking", "available", "unavailable"}
  /\ stored \in Int \cup {Nothing} /\ lost \in BOOLEAN
  /\ loop => node

(***************************************************************************)
(* What the next page load restores from local storage is the offset in    *)
(* use, however rounds, resets and reloads overlap, unless storage refused *)
(* this page's last write or another page of the origin wrote after it:    *)
(* every change of the offset is also one of what is stored.  Without a    *)
(* calibration the clock is the local one in any case.                     *)
(***************************************************************************)
PersistedIsCurrent ==
  /\ ~lost => stored = IF synced THEN offset ELSE Nothing
  /\ ~synced => offset = 0

(***************************************************************************)
(* validateEventTimestamp judges events only while the status is           *)
(* "available": it is so only after a calibration, and a calibrated clock  *)
(* is "checking" only while some round is really under way.                *)
(***************************************************************************)
StatusIsEarned ==
  /\ status = "available" => synced
  /\ status = "checking" /\ synced => unheard + heard > 0

(***************************************************************************)
(* Every unanswered round schedules a retry, next to the interval and to   *)
(* the retries of other rounds; when peers answer again these die out.     *)
(***************************************************************************)
RetriesDieOut == <>[](retries = 0)

(***************************************************************************)
(* "we move only a fraction of the way toward the target each round"       *)
(* (recalibrateOffset): the offset never moves past the clock of the       *)
(* peers.                                                                  *)
(***************************************************************************)
NeverOvershoots == 0 <= offset /\ offset <= PeerOffset
=============================================================================
