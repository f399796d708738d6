------------------------------- MODULE Bridge -------------------------------
(***************************************************************************)
(* Pages that carry Nostr events between relays and a libp2p topic:        *)
(* demo/shared/bridge-page.mjs with bridge-protocol.mjs (the envelope) and *)
(* bridge-cache.mjs (what a reload remembers).                             *)
(*                                                                         *)
(* A handler is a job that runs from one await to the next; between two    *)
(* steps of a job every other handler may run, and the page may reload.    *)
(* All relays are one set of events, but a page hears only of the events   *)
(* its one subscription serves: at most 500 stored ones of each relay it   *)
(* knew when it started, and what those relays accept from then on.        *)
(***************************************************************************)
EXTENDS Naturals

CONSTANTS
  Bridges,      \* the pages, one node each
  Peers,        \* other nodes on the topic, which send envelopes of their own
  Nobody,       \* an empty origin_peer_id
  Events,
  MaxSends,     \* bound: envelopes the other nodes send
  MaxDamaged,   \* bound: how many of them do not verify
  MaxReloads,   \* bound: reloads of pages
  MayFail       \* which awaited calls may fail: a subset of {"db", "send"}

Directions == {"nostr->libp2p", "libp2p->nostr", "libp2p->libp2p"}

VARIABLES
  relays,        \* events some relay holds
  topic,         \* history: events the libp2p topic has carried
  served,        \* served[b]: events the relays b subscribed to send it
  inbox,         \* inbox[b]: envelopes on the way to b
  seenRelay, seenLibp2p, seenProcessed,   \* ids b has seen
  timer,         \* timer[b]: a write of the cache is scheduled
  cache,         \* cache[b]: the ids in local storage
  db,            \* db[b]: events in IndexedDB
  jobs,          \* jobs[b]: handlers waiting on an await
  carried,       \* carried[b][d][e]: history, publications this session
  restored,      \* restored[b]: history, ids known when the session began
  spoilt,        \* spoilt[b]: history, ids met damaged, cut off or failed
  sends, damaged, reloads                 \* counters for the bounds

seen == <<seenRelay, seenLibp2p, seenProcessed>>
bounds == <<sends, damaged, reloads>>
vars == <<relays, topic, served, inbox, seen, timer, cache, db, jobs, carried, restored,
          spoilt, bounds>>

Envelope == [event : Events, direction : Directions,
             origin : Bridges \union Peers \union {Nobody}, genuine : BOOLEAN]

\* What handleNostrEvent works on, in the form of an envelope.
FromRelay(e) == [event |-> e, direction |-> "nostr->libp2p",
                 origin |-> Nobody, genuine |-> TRUE]

\* A handler of the envelope env; onRelay is its seenOnRelayBefore.
Job == [via : {"relay", "libp2p"}, env : Envelope, onRelay : BOOLEAN,
        at : {"store", "toLibp2p", "toRelays", "forward"}]

Init ==
  /\ relays = {} /\ topic = {}
  /\ served = [b \in Bridges |-> {}]
  /\ inbox = [b \in Bridges |-> {}]
  /\ seenRelay = [b \in Bridges |-> {}]
  /\ seenLibp2p = [b \in Bridges |-> {}]
  /\ seenProcessed = [b \in Bridges |-> {}]
  /\ timer = [b \in Bridges |-> FALSE]
  /\ cache = [b \in Bridges |-> [relay |-> {}, libp2p |-> {}]]
  /\ db = [b \in Bridges |-> {}]
  /\ jobs = [b \in Bridges |-> {}]
  /\ carried = [b \in Bridges |-> [d \in Directions |-> [e \in Events |-> 0]]]
  /\ restored = [b \in Bridges |-> {}]
  /\ spoilt = [b \in Bridges |-> {}]
  /\ sends = 0 /\ damaged = 0 /\ reloads = 0

-----------------------------------------------------------------------------
(* The networks outside the pages. *)

\* Relays accept e, and pass it on to the pages near that subscribed to one of
\* them; a relay a page learned of later has no subscription of its to serve.
Accept(e) ==
  \E near \in SUBSET Bridges :
    /\ relays' = relays \union {e}
    /\ served' = [b \in Bridges |-> IF b \in near THEN served[b] \union {e}
                                                  ELSE served[b]]

\* To one relay now, and perhaps to another later.
UserPublishes(e) ==
  /\ Accept(e)
  /\ UNCHANGED <<topic, inbox, seen, timer, cache, db, jobs, carried, restored,
                 spoilt, bounds>>

\* A topic message reaches every subscribed page, the sender's own included
\* (the node is configured with emitSelf).
Gossip(env) ==
  /\ inbox' = [b \in Bridges |-> inbox[b] \union {env}]
  /\ topic' = topic \union {e \in {env.event} : env.genuine}

\* A peer sends a bare event, which is read as an envelope without an
\* origin, or an envelope of its own.
PeerSends(env) ==
  /\ sends < MaxSends
  /\ env.genuine \/ damaged < MaxDamaged
  /\ env.origin \in Peers \union {Nobody}
  /\ Gossip(env)
  /\ sends' = sends + 1
  /\ damaged' = IF env.genuine THEN damaged ELSE damaged + 1
  /\ UNCHANGED <<relays, served, seen, timer, cache, db, jobs, carried, restored,
                 spoilt, reloads>>

-----------------------------------------------------------------------------
(* The handlers, up to their first await. *)

StartRelayJob(b, e) ==
  jobs' = [jobs EXCEPT ![b] = @ \union
             {[via |-> "relay", env |-> FromRelay(e), onRelay |-> TRUE,
               at |-> "store"]}]

\* A plausible bug: only the ids seen on relays make a duplicate.
HandleNostrEventPerSide(b, e) ==
  /\ e \in served[b]
  /\ seenRelay' = [seenRelay EXCEPT ![b] = @ \union {e}]
  /\ seenProcessed' = [seenProcessed EXCEPT ![b] = @ \union {e}]
  /\ timer' = [timer EXCEPT ![b] = TRUE]
  /\ IF e \in seenRelay[b] THEN UNCHANGED jobs ELSE StartRelayJob(b, e)
  /\ UNCHANGED <<relays, topic, served, inbox, seenLibp2p, cache, db, carried,
                 restored, spoilt, bounds>>

HandleNostrEvent(b, e) ==
  /\ e \in served[b]
  /\ seenRelay' = [seenRelay EXCEPT ![b] = @ \union {e}]
  /\ seenProcessed' = [seenProcessed EXCEPT ![b] = @ \union {e}]
  /\ timer' = [timer EXCEPT ![b] = TRUE]
  /\ IF e \in seenProcessed[b] THEN UNCHANGED jobs ELSE StartRelayJob(b, e)
  /\ UNCHANGED <<relays, topic, served, inbox, seenLibp2p, cache, db, carried,
                 restored, spoilt, bounds>>

\* An envelope is worth a job when its event verifies and its id comes over
\* libp2p for the first time.
TakesUp(b, env) == env.genuine /\ env.event \notin seenLibp2p[b]

\* A plausible bug: the relay test comes after the id has been marked.
StartLibp2pJobMarked(b, env) ==
  jobs' = [jobs EXCEPT ![b] = @ \union
             {[via |-> "libp2p", env |-> env,
               onRelay |-> env.event \in seenProcessed'[b], at |-> "store"]}]

\* A plausible bug: the event goes out before it is stored.
StartLibp2pJobUnstored(b, env) ==
  jobs' = [jobs EXCEPT ![b] = @ \union
             {[via |-> "libp2p", env |-> env,
               onRelay |-> env.event \in seenRelay[b], at |-> "toRelays"]}]

StartLibp2pJob(b, env) ==
  jobs' = [jobs EXCEPT ![b] = @ \union
             {[via |-> "libp2p", env |-> env,
               onRelay |-> env.event \in seenRelay[b], at |-> "store"]}]

\* The id is marked before the event is verified.
HandleLibp2pMessage(b, env) ==
  /\ env \in inbox[b]
  /\ inbox' = [inbox EXCEPT ![b] = @ \ {env}]
  /\ seenLibp2p' = [seenLibp2p EXCEPT ![b] = @ \union {env.event}]
  /\ seenProcessed' = [seenProcessed EXCEPT ![b] = @ \union {env.event}]
  /\ timer' = [timer EXCEPT ![b] = TRUE]
  /\ IF TakesUp(b, env) THEN StartLibp2pJob(b, env) ELSE UNCHANGED jobs
  /\ spoilt' = [spoilt EXCEPT ![b] =
       @ \union {e \in {env.event} \ seenProcessed[b] : ~env.genuine}]
  /\ UNCHANGED <<relays, topic, served, seenRelay, cache, db, carried, restored,
                 bounds>>

-----------------------------------------------------------------------------
(* The handlers after an await. *)

Continue(b, j, next) ==
  jobs' = [jobs EXCEPT ![b] = (@ \ {j}) \union {[j EXCEPT !.at = n] : n \in next}]

\* forwardLibp2pEvent goes ahead only for an envelope that has not been
\* forwarded and that names another node as its origin.
Forwards(b, env) ==
  /\ env.direction # "libp2p->libp2p"
  /\ env.origin \notin {Nobody, b}

AfterRelays(b, j) == {f \in {"forward"} : Forwards(b, j.env)}

AfterStore(b, j) ==
  CASE j.via = "relay" -> {"toLibp2p"}
    [] j.via = "libp2p" /\ ~j.onRelay -> {"toRelays"}
    [] j.via = "libp2p" /\ j.onRelay -> AfterRelays(b, j)

\* A failed write is caught, and the handler goes on.
StoreEvent(b, j) ==
  /\ j.at = "store"
  /\ \/ /\ db' = [db EXCEPT ![b] = @ \union {j.env.event}]
        /\ UNCHANGED spoilt
     \/ /\ "db" \in MayFail
        /\ spoilt' = [spoilt EXCEPT ![b] = @ \union {j.env.event}]
        /\ UNCHANGED db
  /\ Continue(b, j, AfterStore(b, j))
  /\ UNCHANGED <<relays, topic, served, inbox, seen, timer, cache, carried, restored,
                 bounds>>

Count(b, d, e) == carried' = [carried EXCEPT ![b][d][e] = @ + 1]

Fails(b, e) ==
  /\ "send" \in MayFail
  /\ spoilt' = [spoilt EXCEPT ![b] = @ \union {e}]
  /\ UNCHANGED <<relays, topic, served, inbox, carried>>

PublishToLibp2p(b, j) ==
  /\ j.at = "toLibp2p"
  /\ \/ /\ Gossip(FromRelay(j.env.event))
        /\ Count(b, "nostr->libp2p", j.env.event)
        /\ timer' = [timer EXCEPT ![b] = TRUE]
        /\ UNCHANGED <<relays, served, spoilt>>
     \/ Fails(b, j.env.event) /\ UNCHANGED timer
  /\ Continue(b, j, {})
  /\ UNCHANGED <<seen, cache, db, restored, bounds>>

\* The round over the relays ends and schedules the cache either way.
PublishToRelays(b, j) ==
  /\ j.at = "toRelays"
  /\ \/ /\ Accept(j.env.event)
        /\ Count(b, "libp2p->nostr", j.env.event)
        /\ UNCHANGED <<topic, inbox, spoilt>>
     \/ Fails(b, j.env.event)
  /\ timer' = [timer EXCEPT ![b] = TRUE]
  /\ Continue(b, j, AfterRelays(b, j))
  /\ UNCHANGED <<seen, cache, db, restored, bounds>>

ForwardLibp2pEvent(b, j) ==
  /\ j.at = "forward"
  /\ \/ /\ Gossip([j.env EXCEPT !.direction = "libp2p->libp2p"])
        /\ Count(b, "libp2p->libp2p", j.env.event)
        /\ timer' = [timer EXCEPT ![b] = TRUE]
        /\ UNCHANGED <<relays, served, spoilt>>
     \/ Fails(b, j.env.event) /\ UNCHANGED timer
  /\ Continue(b, j, {})
  /\ UNCHANGED <<seen, cache, db, restored, bounds>>

JobStep(b, j) ==
  \/ StoreEvent(b, j)
  \/ PublishToLibp2p(b, j)
  \/ PublishToRelays(b, j)
  \/ ForwardLibp2pEvent(b, j)
-----------------------------------------------------------------------------
(* The cache and reloads. *)

\* Only a reload reads the cache: with none left it need not be written
\* (a bound on the states, not a condition of the code).
CacheMatters == reloads < MaxReloads

PersistBridgeCache(b) ==
  /\ CacheMatters
  /\ timer[b]
  /\ timer' = [timer EXCEPT ![b] = FALSE]
  /\ cache' = [cache EXCEPT ![b] = [relay |-> seenRelay[b],
                                    libp2p |-> seenLibp2p[b]]]
  /\ UNCHANGED <<relays, topic, served, inbox, seen, db, jobs, carried, restored,
                 spoilt, bounds>>

\* The page of one relay, open in another tab, writes its two catalogues
\* over the whole entry.
RelayPageWrites(b) ==
  /\ CacheMatters
  /\ cache' = [cache EXCEPT ![b] = [relay |-> {}, libp2p |-> {}]]
  /\ UNCHANGED <<relays, topic, served, inbox, seen, timer, db, jobs, carried,
                 restored, spoilt, bounds>>

Remembered(b) == cache[b].relay \union cache[b].libp2p

\* A plausible bug: only one of the two lists counts as processed.
RestoreBridgeCacheHalf(b) ==
  /\ seenRelay' = [seenRelay EXCEPT ![b] = cache[b].relay]
  /\ seenLibp2p' = [seenLibp2p EXCEPT ![b] = cache[b].libp2p]
  /\ seenProcessed' = [seenProcessed EXCEPT ![b] = cache[b].relay]

RestoreBridgeCache(b) ==
  /\ seenRelay' = [seenRelay EXCEPT ![b] = cache[b].relay]
  /\ seenLibp2p' = [seenLibp2p EXCEPT ![b] = cache[b].libp2p]
  /\ seenProcessed' = [seenProcessed EXCEPT ![b] = Remembered(b)]

\* subscribeMany over relaysSnapshot, the relays known at the start, limit 500:
\* of what the relays hold, any part may be what these send.
Subscribe(b) == \E S \in SUBSET relays : served' = [served EXCEPT ![b] = S]

\* The page closes between two steps, and starts again from its cache.
Reload(b) ==
  /\ reloads < MaxReloads
  /\ reloads' = reloads + 1
  /\ Subscribe(b)
  /\ RestoreBridgeCache(b)
  /\ timer' = [timer EXCEPT ![b] = FALSE]
  /\ jobs' = [jobs EXCEPT ![b] = {}]
  /\ inbox' = [inbox EXCEPT ![b] = {}]
  /\ carried' = [carried EXCEPT ![b] = [d \in Directions |-> [e \in Events |-> 0]]]
  /\ restored' = [restored EXCEPT ![b] = Remembered(b)]
  /\ spoilt' = [spoilt EXCEPT ![b] =
       @ \union {j.env.event : j \in jobs[b]} \union {m.event : m \in inbox[b]}]
  /\ UNCHANGED <<relays, topic, cache, db, sends, damaged>>
-----------------------------------------------------------------------------

Next ==
  \/ \E e \in Events : UserPublishes(e)
  \/ \E env \in Envelope : PeerSends(env)
  \/ \E b \in Bridges :
       \/ \E e \in Events : HandleNostrEvent(b, e)
       \/ \E env \in inbox[b] : HandleLibp2pMessage(b, env)
       \/ \E j \in jobs[b] : JobStep(b, j)
       \/ PersistBridgeCache(b)
       \/ RelayPageWrites(b)
       \/ Reload(b)

\* The browser runs every callback and resumes every await; what a relay
\* serves a subscription with arrives, and the topic delivers. Nobody has to
\* publish or reload, and no relay to serve an event.
Fairness ==
  \A b \in Bridges :
    /\ WF_vars(\E e \in served[b] \ seenRelay[b] : HandleNostrEvent(b, e))
    /\ WF_vars(\E env \in inbox[b] : HandleLibp2pMessage(b, env))
    /\ WF_vars(\E j \in jobs[b] : JobStep(b, j))

Spec == Init /\ [][Next]_vars /\ Fairness
-----------------------------------------------------------------------------
(* Properties. *)

\* Relays serve what they hold, the three seen sets are of ids, what was
\* processed is what was seen on either side, and a page has at most one job
\* per event and network.
TypeOK ==
  /\ relays \subseteq Events /\ topic \subseteq Events
  /\ served \in [Bridges -> SUBSET relays]
  /\ inbox \in [Bridges -> SUBSET Envelope]
  /\ seenRelay \in [Bridges -> SUBSET Events]
  /\ seenLibp2p \in [Bridges -> SUBSET Events]
  /\ seenProcessed = [b \in Bridges |-> seenRelay[b] \union seenLibp2p[b]]
  /\ cache \in [Bridges -> [relay : SUBSET Events, libp2p : SUBSET Events]]
  /\ db \in [Bridges -> SUBSET Events] /\ spoilt \in [Bridges -> SUBSET Events]
  /\ carried \in [Bridges -> [Directions -> [Events -> Nat]]]
  /\ jobs \in [Bridges -> SUBSET Job]
  /\ \A b \in Bridges : \A j, k \in jobs[b] :
       j.env.event = k.env.event /\ j.via = k.via => j = k

\* In one session a page publishes an event at most once in each direction,
\* and either from the relays to libp2p or from libp2p to the relays, never
\* both: neither its own echo nor another page's copy starts a second round
\* (markSeen and the tests of handleLibp2pMessage).
OneWayOnce ==
  \A b \in Bridges, e \in Events :
    /\ \A d \in Directions : carried[b][d][e] <= 1
    /\ carried[b]["nostr->libp2p"][e] + carried[b]["libp2p->nostr"][e] <= 1

\* What the cache brought back after a reload is not carried between the
\* networks again (restoreBridgeCacheState fills seenProcessed from both
\* lists; only a first hearing over libp2p may still be forwarded).
NoRepeatAfterReload ==
  \A b \in Bridges : \A e \in restored[b] :
    carried[b]["nostr->libp2p"][e] = 0

\* No event goes round in circles: neither within a session nor after a
\* reload does a page carry it again.
CarriedOnce == OneWayOnce /\ NoRepeatAfterReload

\* A page that has seen an event, and is done with it, has it in IndexedDB,
\* unless the id came with a payload that does not verify, a write failed,
\* or the page closed under the handler.
SeenIsStored ==
  \A b \in Bridges : \A e \in seenProcessed[b] :
    \/ e \in db[b] \union spoilt[b]
    \/ \E j \in jobs[b] : j.env.event = e /\ j.at = "store"

\* An event the relays serve to some page is carried over libp2p in the end,
\* unless every page it is served to was kept from it; the other way round, an
\* event the topic has carried is on some relay in the end.
CrossesToLibp2p ==
  \A e \in Events :
    (\E b \in Bridges : e \in served[b])
      ~> e \in topic \/ \A b \in Bridges : e \in served[b] => e \in spoilt[b]

CrossesToRelays ==
  \A e \in Events :
    e \in topic ~> e \in relays \/ \A b \in Bridges : e \in spoilt[b]

\* No event the pages hear of stays on one side, whatever interleaves with its
\* handlers.
EventsCross == CrossesToLibp2p /\ CrossesToRelays
=============================================================================
