------------------------------ MODULE Federation ------------------------------
(***************************************************************************)
(* The federation: daemons (src/native_cli.rs, run_federation) that watch  *)
(* chat messages and acks on a set of relays, keep the same DAG            *)
(* (src/dag.rs) each, and acknowledge what they insert.                    *)
(*                                                                         *)
(* Between two events a daemon's Dag is a function of the events it has    *)
(* received (module Dag implements DeliveredDag), so a daemon's DAG is the *)
(* set received[d]; Visible(d) is what the Dag stores and the rest of      *)
(* received[d] is what it buffers.  An event's parents are fixed when it   *)
(* is signed, and with them its ancestors.                                 *)
(*                                                                         *)
(* Relays are external: they store what they store, and pass every         *)
(* accepted event once to every daemon that is subscribed, in any order.   *)
(* A new subscription is answered with Limit stored events per relay at    *)
(* most: what a daemon was not told then is missed[d].                     *)
(* The bounds are the events in ChatMessages and OtherEvents, MaxAcks acks *)
(* per daemon and MaxCrashes crashes in all.                               *)
(***************************************************************************)
EXTENDS Naturals, FiniteSets, QuorumRule

CONSTANTS
  Daemons,        \* FEDERATION_PUBKEYS, each run by one daemon
  ChatMessages,   \* kind 42 events, signed by users outside the federation
  OtherEvents,    \* their events of other kinds, which no daemon subscribes to
  MaxAcks,        \* how many acks one daemon signs at most
  MaxCrashes,
  Limit,          \* of the filter: how many stored events a relay answers with
  AcksStored,     \* do relays store acks (kind 21000), or only forward them?
  AckMayFail,     \* may every relay refuse an ack?
  FetchMayFail    \* may a fetch of a missing parent time out?

ASSUME FederationAssumption ==
  /\ MaxAcks \in Nat
  /\ MaxCrashes \in Nat
  /\ Limit \in Nat
  /\ AcksStored \in BOOLEAN
  /\ AckMayFail \in BOOLEAN
  /\ FetchMayFail \in BOOLEAN
  /\ ChatMessages \cap OtherEvents = {}

Acks == Daemons \X (1..MaxAcks)
Ids == ChatMessages \cup OtherEvents \cup Acks
Subscribed == ChatMessages \cup Acks    \* the filter: kinds 42 and 21000

\* An event has one kind: no user's event is an ack.
ASSUME KindsAssumption == (ChatMessages \cup OtherEvents) \cap Acks = {}

VARIABLES
  \* the signed events
  signed,       \* ids of the events signed so far
  published,    \* those that some relay has accepted
  parents,      \* their "e" tags
  ancestors,    \* an event and everything it descends from
  \* the relays
  stored,       \* what a query or a new subscription returns
  \* each daemon
  up,           \* the process runs
  received,     \* events its Dag was given since it started
  fetching,     \* missing parents handle_event is still fetching
  scheduled,    \* acks sleeping in spawned tasks
  incoming,     \* events on their way to the daemon
  made,         \* acks signed, the next one is made[d] + 1
  missed,       \* stored events the daemon's subscription left out
  crashes

eventVars == <<signed, parents, ancestors>>
relayVars == <<published, stored>>
daemonVars == <<up, received, fetching, scheduled, missed>>
vars == <<signed, published, parents, ancestors, stored, up, received,
          fetching, scheduled, incoming, made, missed, crashes>>

Init ==
  /\ signed = {}
  /\ published = {}
  /\ parents = [e \in Ids |-> {}]
  /\ ancestors = [e \in Ids |-> {}]
  /\ stored = {}
  /\ up = [d \in Daemons |-> TRUE]
  /\ received = [d \in Daemons |-> {}]
  /\ fetching = [d \in Daemons |-> {}]
  /\ scheduled = [d \in Daemons |-> {}]
  /\ incoming = [d \in Daemons |-> {}]
  /\ made = [d \in Daemons |-> 0]
  /\ missed = [d \in Daemons |-> {}]
  /\ crashes = 0

----------------------------------------------------------------------------
\* Mutant: an event is stored as soon as its own parents have arrived.
ConnectedToParents(D) == {e \in D : parents[e] \subseteq D}

\* The Dag that has been given the events D: its stored events, its tips,
\* who has seen an event, and which events are canonical.
ConnectedPart(D) == {e \in D : ancestors[e] \subseteq D}
TipsOf(V) == {e \in V : \A f \in V : e \notin parents[f]}
SeenBy(V, e) ==
  {d \in Daemons : \E n \in 1..MaxAcks : <<d, n>> \in V /\ e \in ancestors[<<d, n>>]}
CanonicalIn(V) ==
  {e \in V : Cardinality(SeenBy(V, e)) > QuorumThreshold(Cardinality(Daemons))}

Visible(d) == ConnectedPart(received[d])
Canonical(d) == CanonicalIn(Visible(d))

Sign(e, ps) ==
  /\ signed' = signed \cup {e}
  /\ parents' = [parents EXCEPT ![e] = ps]
  /\ ancestors' = [ancestors EXCEPT ![e] = {e} \cup UNION {ancestors[p] : p \in ps}]

\* A relay accepts e and passes it on to the subscriptions it matches.
Broadcast(e, storing) ==
  /\ published' = published \cup {e}
  /\ stored' = IF storing THEN stored \cup {e} ELSE stored
  /\ incoming' = [d \in Daemons |-> IF up[d] /\ e \in Subscribed
                                      THEN incoming[d] \cup {e}
                                      ELSE incoming[d]]

----------------------------------------------------------------------------
(***************************************************************************)
(* A user's client signs an event on the tips of its own DAG, which holds  *)
(* any connected part of what was published, and publishes it.             *)
(***************************************************************************)
PublishUserEvent(m) ==
  /\ m \notin signed
  /\ \E D \in SUBSET published :
        D = ConnectedPart(D) /\ Sign(m, TipsOf(D))
  /\ Broadcast(m, TRUE)
  /\ UNCHANGED <<daemonVars, made, crashes>>

\* Mutant: the ack names one of the unseen tips only.
MaybeAckOneTip(d, V) ==
  LET unacked == {t \in TipsOf(V) : d \notin SeenBy(V, t)}
      ack == <<d, made[d] + 1>>
  IN  IF unacked = {}
        THEN UNCHANGED <<eventVars, scheduled, made>>
        ELSE /\ made[d] < MaxAcks
             /\ Sign(ack, {CHOOSE t \in unacked : TRUE})
             /\ scheduled' = [scheduled EXCEPT ![d] = @ \cup {ack}]
             /\ made' = [made EXCEPT ![d] = @ + 1]

\* Mutant: the ack is scheduled although it could not be signed.
MaybeAckUnsigned(d, V) ==
  LET unacked == {t \in TipsOf(V) : d \notin SeenBy(V, t)}
      ack == <<d, made[d] + 1>>
  IN  IF unacked = {}
        THEN UNCHANGED <<eventVars, scheduled, made>>
        ELSE /\ made[d] < MaxAcks
             /\ scheduled' = [scheduled EXCEPT ![d] = @ \cup {ack}]
             /\ made' = [made EXCEPT ![d] = @ + 1]
             /\ UNCHANGED eventVars

(***************************************************************************)
(* maybe_ack: sign an ack of all tips if one of them is not yet seen by    *)
(* this daemon, and let a spawned task publish it within ten seconds.  The *)
(* daemon's own Dag gets the ack when a relay sends it back.               *)
(***************************************************************************)
MaybeAck(d, V) ==
  LET unacked == {t \in TipsOf(V) : d \notin SeenBy(V, t)}
      ack == <<d, made[d] + 1>>
  IN  IF unacked = {}
        THEN UNCHANGED <<eventVars, scheduled, made>>
        ELSE /\ made[d] < MaxAcks
             /\ Sign(ack, TipsOf(V))
             /\ scheduled' = [scheduled EXCEPT ![d] = @ \cup {ack}]
             /\ made' = [made EXCEPT ![d] = @ + 1]

\* The notification loop is sequential: it takes the next event when
\* handle_event of the previous one, its fetches included, has returned.
Takes(d, e) ==
  /\ up[d]
  /\ fetching[d] = {}
  /\ e \in incoming[d]
  /\ incoming' = [incoming EXCEPT ![d] = @ \ {e}]
  /\ received' = [received EXCEPT ![d] = @ \cup {e}]
  /\ UNCHANGED <<relayVars, up, missed, crashes>>

\* handle_event, Duplicate.
HandleDuplicate(d, e) ==
  /\ Takes(d, e)
  /\ e \in received[d]
  /\ UNCHANGED <<eventVars, fetching, scheduled, made>>

\* Mutant: every inserted event is acknowledged, not only chat messages.
HandleInsertedAll(d, e) ==
  /\ Takes(d, e)
  /\ e \notin received[d]
  /\ parents[e] \subseteq Visible(d)
  /\ MaybeAck(d, ConnectedPart(received[d] \cup {e}))
  /\ UNCHANGED fetching

\* handle_event, Inserted: what waited for e is in the Dag now too; only a
\* chat message that is itself inserted makes the daemon acknowledge.
HandleInserted(d, e) ==
  /\ Takes(d, e)
  /\ e \notin received[d]
  /\ parents[e] \subseteq Visible(d)
  /\ IF e \in ChatMessages
       THEN MaybeAck(d, ConnectedPart(received[d] \cup {e}))
       ELSE UNCHANGED <<eventVars, scheduled, made>>
  /\ UNCHANGED fetching

\* handle_event, Buffered: missing_parents of ALL buffered events are read
\* before the lock on the Dag is released, and fetched after it.
HandleBuffered(d, e) ==
  /\ Takes(d, e)
  /\ e \notin received[d]
  /\ ~(parents[e] \subseteq Visible(d))
  /\ fetching' = [fetching EXCEPT ![d] =
                    (UNION {parents[f] : f \in received'[d]}) \ Visible(d)]
  /\ UNCHANGED <<eventVars, scheduled, made>>

(***************************************************************************)
(* fetch_missing asks the relays for one id after the other.  What they    *)
(* store comes in as one more notification; a failure is only logged.      *)
(***************************************************************************)
Fetch(d, e) ==
  /\ up[d]
  /\ e \in fetching[d]
  /\ fetching' = [fetching EXCEPT ![d] = @ \ {e}]
  /\ \/ /\ e \in stored
        /\ incoming' = [incoming EXCEPT ![d] = @ \cup {e}]
     \/ /\ e \notin stored \/ FetchMayFail
        /\ UNCHANGED incoming
  /\ UNCHANGED <<eventVars, relayVars, up, received, scheduled, made, missed, crashes>>

\* The spawned task wakes up and some relay accepts the ack.
PublishAck(d, a) ==
  /\ up[d]
  /\ a \in scheduled[d]
  /\ scheduled' = [scheduled EXCEPT ![d] = @ \ {a}]
  /\ Broadcast(a, AcksStored)
  /\ UNCHANGED <<eventVars, up, received, fetching, made, missed, crashes>>

\* No relay accepts the ack: that is only logged, the ack is gone, and the
\* daemon signs another one when the next chat message is inserted.
AckRefused(d, a) ==
  /\ AckMayFail
  /\ up[d]
  /\ a \in scheduled[d]
  /\ scheduled' = [scheduled EXCEPT ![d] = @ \ {a}]
  /\ UNCHANGED <<eventVars, relayVars, up, received, fetching, incoming, made, missed,
                 crashes>>

\* The process ends: the Dag, the sleeping tasks and the subscription are gone.
Crash(d) ==
  /\ up[d]
  /\ crashes < MaxCrashes
  /\ crashes' = crashes + 1
  /\ up' = [up EXCEPT ![d] = FALSE]
  /\ received' = [received EXCEPT ![d] = {}]
  /\ fetching' = [fetching EXCEPT ![d] = {}]
  /\ scheduled' = [scheduled EXCEPT ![d] = {}]
  /\ incoming' = [incoming EXCEPT ![d] = {}]
  /\ missed' = [missed EXCEPT ![d] = {}]
  /\ UNCHANGED <<eventVars, relayVars, made>>

\* What relays may answer a new subscription with: a relay leaves stored
\* events out only if it has sent Limit of them.
Answers == {S \in SUBSET (stored \cap Subscribed) :
              S = stored \cap Subscribed \/ Cardinality(S) >= Limit}

\* Mutant: the new process subscribes to new events only.
RestartLive(d) ==
  /\ ~up[d]
  /\ up' = [up EXCEPT ![d] = TRUE]
  /\ UNCHANGED <<eventVars, relayVars, received, fetching, scheduled, incoming, made, missed,
                 crashes>>

\* A new process starts with an empty Dag and subscribes to kinds 42 and
\* 21000, limit 1000; the relays answer with what they store of them.
Restart(d) ==
  /\ ~up[d]
  /\ up' = [up EXCEPT ![d] = TRUE]
  /\ \E S \in Answers :
       /\ incoming' = [incoming EXCEPT ![d] = S]
       /\ missed' = [missed EXCEPT ![d] = (stored \cap Subscribed) \ S]
  /\ UNCHANGED <<eventVars, relayVars, received, fetching, scheduled, made, crashes>>

Handle(d, e) == HandleDuplicate(d, e) \/ HandleInserted(d, e) \/ HandleBuffered(d, e)

Next ==
  \/ \E m \in ChatMessages \cup OtherEvents : PublishUserEvent(m)
  \/ \E d \in Daemons :
       \/ \E e \in Ids : Handle(d, e) \/ Fetch(d, e)
       \/ \E a \in Acks : PublishAck(d, a) \/ AckRefused(d, a)
       \/ Crash(d)
       \/ Restart(d)

Spec == Init /\ [][Next]_vars

(***************************************************************************)
(* The daemon's loop goes on as long as there are notifications, timers    *)
(* fire, and a process that ended is started again.  Users need not write. *)
(***************************************************************************)
FairSpec ==
  /\ Spec
  /\ \A d \in Daemons :
       /\ \A e \in Ids : WF_vars(Handle(d, e)) /\ WF_vars(Fetch(d, e))
       /\ \A a \in Acks : WF_vars(PublishAck(d, a))
       /\ WF_vars(Restart(d))

----------------------------------------------------------------------------
TypeOK ==
  /\ signed \subseteq Ids
  /\ published \subseteq signed
  /\ parents \in [Ids -> SUBSET Ids]
  /\ ancestors \in [Ids -> SUBSET Ids]
  /\ stored \subseteq Ids
  /\ up \in [Daemons -> BOOLEAN]
  /\ received \in [Daemons -> SUBSET Ids]
  /\ fetching \in [Daemons -> SUBSET Ids]
  /\ scheduled \in [Daemons -> SUBSET Acks]
  /\ incoming \in [Daemons -> SUBSET Ids]
  /\ made \in [Daemons -> 0..MaxAcks]
  /\ missed \in [Daemons -> SUBSET Ids]
  /\ crashes \in 0..MaxCrashes

(***************************************************************************)
(* Acks do not breed acks: a daemon signs at most one per chat message and *)
(* life of its process, however the events reach it.                       *)
(***************************************************************************)
NoAckStorm ==
  \A d \in Daemons :
     made[d] <= Cardinality(signed \cap ChatMessages) * (crashes + 1)

\* Nothing is under way between relays and daemons.
Quiet ==
  \A d \in Daemons :
     up[d] /\ incoming[d] = {} /\ fetching[d] = {} /\ scheduled[d] = {}

\* The limit of its subscription has cost the daemon nothing, or it has been
\* given since what the limit left out.
CaughtUp(d) == missed[d] \subseteq received[d]

(***************************************************************************)
(* When nothing is under way any more, all daemons that have caught up     *)
(* hold the same DAG and find the same events canonical, and every chat    *)
(* message that was published is in it with all it descends from, also     *)
(* where that is nothing the daemons subscribe to.                         *)
(***************************************************************************)
QuietAgreement ==
  Quiet =>
    /\ \A c, d \in Daemons : CaughtUp(c) /\ CaughtUp(d) =>
         Visible(c) = Visible(d) /\ Canonical(c) = Canonical(d)
    /\ \A d \in Daemons : CaughtUp(d) => published \cap ChatMessages \subseteq Visible(d)

\* A chat message that descends from chat messages only becomes canonical at
\* every daemon.
ChatMatures ==
  \A d \in Daemons : \A m \in ChatMessages :
     (m \in signed /\ ancestors[m] \subseteq ChatMessages) ~> m \in Canonical(d)
=============================================================================
