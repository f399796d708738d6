# Verification of nostr-dag

nostr-dag keeps an acknowledged, totally ordered log on top of Nostr relays.
Signed events name their parents in `e` tags and so form a DAG; the members of a
federation acknowledge what they store; an event is *canonical* once more than a
threshold of the members has signed something that descends from it. Around that
core the repository has a federation daemon, quorums over blobs, a transfer
protocol for git bundles, a libp2p peer, and browser pages that share a network
clock and bridge relays to libp2p.

This directory holds TLA+ modules translated from that source, TLC
configurations that check them on small instances, and TLAPS proofs of what
matters most for every instance. `PROJECT.json` lists components, runs, mutants,
the map from definitions to source lines, findings, hazards and theorems.

    tlc -workers 2 -config Dag.cfg MCDag      # a run: module and .cfg as in PROJECT.json
    tlapm DagProofs.tla                       # the proofs

Contents: 1 inventory, 2 modules and their correspondence to the code, 3 runs,
4 fairness, 5 proofs, 6 findings, 7 what is left out, 8 plan.

## 1. Inventory

**The DAG of one participant** (`src/src/dag.rs`). State: `events`, `seen_by`,
`participants`, `threshold`, `depth_cache`, `children`, `pending`, `waiting_for`.
Operations: `insert` (which may run `process_unblocked`), `add_participant`,
queries (`is_canonical`, `canonical_order`, `tips`, `missing_parents`). Hard:
events arrive in any order, are buffered until their parents are stored, and are
released by a worklist; `mark_seen_by_ancestors` stops at the first marked id;
depths are cached when an event is stored; members join at any time. Correct
when buffering loses nothing, when the stored part does not depend on the order
of delivery, when a member is counted only for what it signed, and when the
canonical order is causal and only grows.

**Blob quorum** (`quorum.rs`). State: a DAG of its own, attestations per member,
the cached seal. Operations: `attest`, `add_member`. Hard: every attestation
above the threshold builds a new seal; joins cite a seal that may have been
replaced meanwhile; the threshold moves with the membership.

**Federation daemon** (`native_cli.rs`). State: one `Dag` behind a lock, spawned
tasks with sleeping acks, the relay subscription. Operations: `handle_event`,
`maybe_ack`, `fetch_missing`, `publish_ack_round_robin`, start and end of the
process. Interacts with other daemons and with users only through relays. Hard:
acks sleep while other events arrive, fetches run after the lock is released,
nothing survives a crash, relays forward acks and need not store them (kind
21000 is ephemeral). Correct when acks do not breed acks, when daemons at rest
agree, when every message reaches every DAG and becomes canonical.

**Event builders** (`event.rs`): acks, joins, `parents_of`. No state.

**PIP transfer codec** (`p2p.rs`, `demo/shared/nip34-quorum.mjs`): payloads are
split in halves with parity slices and published as a manifest event and slice
events, either all naming the manifest or each naming the event before it.

**Git over p2p transport** (`demo/shared/git-p2p-transport.mjs`). State: latest
manifest per repository, slices per parent id, one pending request per
repository with its timer. Operations: arrival of an event (gossip or relay),
`requestBundle`, its timeout. Hard: any order, duplicates and losses; several
requests for one repository replace each other's entry while their timers run.

**Native p2p peer** (`p2p_node.rs`). One event loop that reads a
channel of 64 commands and swarm events. State: the bundle cache, mirror
directories on disk, rounds of network time under way, peer tables, a
`PeerRuntime` with a DAG. Operations: commands from timers, stdin, relays and
the tasks it spawns. Hard: a bounded channel written by tasks that wait and by
handlers that drop; mirror tasks that overlap and fail half way; requests that
carry old bytes.

**Browser network time** (`demo/shared/network-time.mjs`). State: offset, status,
samples, scores, rounds under way, timers, local storage. Operations: rounds
started by the interval, by retries and by peer events; responses; reset; page
load. Hard: rounds overlap, samples outlive the offset they were measured
against, resets do not stop what is under way.

**Bridge** (`demo/shared/bridge-page.mjs` and its helpers, `bridge_native.rs`,
`bridge_roundtrip.rs`). State: seen sets per network, the processed set, the
cache of both in local storage, recent lists, peers, verification queue and
backoff, and what is known of relays: a catalogue, the requests under way, the
discovery queue. Operations: events from relays and from libp2p, forwarding,
persisting and restoring the cache, refreshing relay records, discovery,
verification, presence. Hard: the seen sets are read before and used after
awaits; ids are marked before the event is verified; the cache is written 750 ms
late and by another page too; the topic echoes; loops share requests. Correct
when every valid event crosses, goes one way once, is not carried again after a
reload and is stored; and when every relay an event names is subscribed to once
and described.

**DAG page** (`demo/dag/index.html`, `dag-page.mjs`, `dag-actions.mjs`): a `Dag`
through WASM (`lib.rs`) with seed events, acks and reset, in the browser.

**Event stores** (`store.rs`, `demo/shared/dag-db.mjs`): upserts of events, tags,
edges, relays and users, row by row; in the browser each row in a transaction of
its own. Hard: calls that interleave between rows, that fail, or that end with
the page. Correct when no row refers to a missing one, an event handed over is
complete, and a caller that knows less takes nothing back.

**Range-based reconciliation** (`rbsr.rs`) and **BFT clock** (`bft_time.rs`): declared
in `lib.rs` and called by nothing in the repository.

**Others**, each listed in `PROJECT.json` with the reason it is not modelled:
chat, quorum helpers, `pLimit`, the preview server, git helpers and viewers, the
SQLite viewer, page chrome, libp2p configuration, binaries, vendored libraries.

How they interact: users and daemons exchange signed events over relays; the
daemon, the DAG page and the native peer each own a `Dag`; the native peer
answers bundle requests that arrive over gossip or a relay with PIP events,
which the git transport of a page reassembles; the bridge page copies events
between relays and gossip and into the browser's database; every page shares the
network clock, whose queries native peers and other pages answer over gossip.

## 2. The modules

| module | models | role |
| --- | --- | --- |
| `EventGraph` | `parents_of` | the constant graph of signed events |
| `QuorumRule` | `Dag::quorum_threshold` | ceil(4n/5) - 1 |
| `Dag` | `dag.rs` | one participant's DAG, step by step |
| `DeliveredDag` | - | what a DAG promises (abstract) |
| `DagInvariant`, `DagProofs` | - | inductive invariant and proofs |
| `BlobQuorum` | `quorum.rs` | attestations, seals, joins |
| `Federation` | `native_cli.rs`, users, relays | daemons composed through relays |
| `FederationDags`, `FederationProofs` | `event.rs` | the composition with `Dag`, and the proofs of both |
| `BundleReceiver`, `BundleReceiverProofs` | `git-p2p-transport.mjs` | reassembly and requests |
| `NativePeer` | `p2p_node.rs` | command channel, mirrors, time rounds |
| `NativeNodeProofs` | - | proofs about `BlobQuorum` and `NativePeer` |
| `NetworkTime`, `NetworkTimeProofs` | `network-time.mjs` | the shared clock |
| `Bridge`, `BridgeProofs` | `bridge-page.mjs`, `bridge-cache.mjs`, `bridge-protocol.mjs` | events between relays and libp2p |
| `RelayBook`, `RelayBookProofs` | `bridge-page.mjs`, `relays-list.mjs`, `relay-ping.mjs` | relay records and discovery |
| `EventDb`, `EventDbProofs` | `dag-db.mjs`, its callers | the browser's database, row by row |
| `MC*` | - | constants for TLC |

### Dag and DeliveredDag

Variables are the fields of `Dag`, maps as functions over all ids with an empty
value for an absent key, plus `toProcess`, the worklist of `process_unblocked`. An
id determines the event, so author and parents are constants. `insert` is split
where the code loops: `InsertDuplicate`, `InsertReady` and `InsertBuffered` are
its three outcomes, `UnblockDrop` and `UnblockStore` the two outcomes of one
iteration of the worklist. Since `insert` holds `&mut self`, an operation starts
only when the worklist is empty (`Idle`). The worklist is a `Vec` popped at its
end; the model pops in any order, which includes that one. A duplicate in the
`Vec` is popped a second time in the code and then dropped (`pending.remove` finds
nothing), as `UnblockDrop` does. `mark_seen_by_ancestors` is the least set its
stack reaches; `compute_depth` is read from the cache like the code does.
`InsertResult` is implied by the action. `Dag` assumes that ids are numbers
because `canonical_order` compares them; nothing depends on which numbers, and
`EventGraph` does without. `add_participant` never lowers the threshold, so the
comment at dag.rs:281-284 ("if the new threshold is lower") describes a case that
does not occur.

`DeliveredDag` states the promise without buffers: the visible events are the
largest parent-closed part of what was delivered, and a member has seen whatever
lies below an event it signed, from the moment it becomes visible while its
author is a member. The refinement mapping (`Promised`) lets the whole call of
`insert` take effect at its first step; the steps of the worklist stutter.

### BlobQuorum

A member's attestation is identified with the member and a seal with the
attestations it lists. `published` remembers every seal `attest` returned and
`joins` the signed join events on their way, so a joiner can cite an old seal.
Malformed events (wrong kind, type, root or digest) change nothing and are left
out.

### Federation

Because a `Dag` between calls is a function of what it was given
(`OrderLeavesNoTrace` of `Dag`; a daemon's members never change), a daemon's DAG
is the set `received[d]`; `Visible` and `Canonical` are derived. `FederationDags`
makes that step explicit: it instantiates `EventGraph` with the events signed so
far (`Signer` and `parents` for its constants) and states in `DaemonsKeepDags`
that their graph has no cycle, so that `Dag` applies to it, and that `Visible` and
`SeenBy` are what a `Dag` stores and counts that was given `received[d]`.
`HandleDuplicate`, `HandleInserted` and `HandleBuffered` are the outcomes of
`handle_event`, including `maybe_ack` (signs on the current tips and schedules)
and the computation of the missing parents under the lock; `Fetch` is one call of
the loop that follows outside of it, and `Takes` refuses new notifications while
it runs, as the code does by awaiting it in the notification callback.
`PublishAck` is the spawned task waking up, `AckRefused` the same task when no
relay accepts the ack, which is only logged. `Crash` drops everything a process
has in memory and `Restart` subscribes again; the relays answer with all they
store or, when that is more, with some `Limit` events or more of it (`Answers`:
`.limit(1000)` holds for each relay, native_cli.rs:110). The history variable
`missed` keeps what an answer left out, and a daemon has caught up (`CaughtUp`)
when it was given that since, fetched as a missing parent. Users write with
`PublishUserEvent`, on the tips they know. Relays are external: they accept, store
(`AcksStored` says whether acks too) and pass on.

### BundleReceiver

`ProcessManifest` and `ProcessSlice` are a whole `processTransferEvent`,
including the `checkComplete` it ends with; `RequestCached` and `RequestBundle`
are the two ways a call of `requestBundle` starts, `Timeout` its timer. Event
`<<p, 0>>` is the manifest of publication `p` and `<<p, i>>` its i-th slice;
`ParentId` says under which id the slice is filed, for both ways a sender builds
slices. Contents are left out: an answer is the sequence of slices, which
`ReconstructPayload` sorts by sequence number (`Sorted`: some permutation that
sorts, as `Array.prototype.sort` finds one). `Parity` says which slices of a
publication are parity; the receiver counts, sorts and concatenates them like
the others, as the code does. `Carried` is what a publication carries,
`IsBundle` what PIP.md:181 and p2p.rs:697-699 call the payload: the data slices in
order.

### NativePeer

`commands` is the channel; `Send` is `send(..).await` (not enabled while it is
full), `TrySend` drops. One `Handle...` action per command that keeps state;
commands that only publish, dial or print (chat, broadcast, presence, status)
are left out, and so is `Quit`. A mirror task is `mirror_repo_bundle` in the
steps between which other tasks may run: `exists()` (`MirrorBegins`), the awaited
`create_dir_all` (`DirCreated`), the start and the end of `git clone`
(`CloneBegins`, `CloneSucceeds`, `CloneFails`) or `git fetch`, `git bundle` and the
reading of its file, and the command for the loop. So two tasks for one repository
may both find no directory, both make it and both clone into it while it is
empty; one that fails empties it again, also of what the other has cloned, and one
that finds it in use gives up (`MirrorFails`). A repository is its version number; a
mirror directory is `Absent`, `Empty` (created, not cloned) or the version fetched
last. git in an `Empty` directory finds the repository around it, if there is one:
both outcomes are in the model (`FetchEnclosing`, `MirrorFails`). The directory keeps
`Empty` until the clone is complete, though git fills it gradually. A round of network
time is its count of samples; `consensus` is the count behind the last median.

### NetworkTime

One peer answers, `PeerOffset` ahead. `StartSync` and `FinishSync` are the halves
of `syncNetworkTime` around its wait; rounds under way are counted by whether they
have been answered. Peers have one score each, so with one peer the weighted
median is the least sample with no less than half of them up to it (`Median`): the
value at which the running sum of `weightedMedian` reaches half. A sample is
stored as the move it will call for, `Math.round(delta / 10)`; rounding is
monotonic, so the move of the median is the median of the moves. Only the newest
`Window` samples are kept, which are the only ones `recalibrateOffset` reads, and
eviction by age removes any number of the oldest ones. `ResetState` leaves rounds
and retries alone, like `resetState`; `Reload` is a new page that restores from
local storage. Local storage may refuse a write, a removal or a read, which
`persistState`, `resetState` and `restoreState` catch (`Store`, `RestoreNothing`), and
its one key belongs to all pages of the origin: `OtherPage` is the write of
another one. The history variable `lost` says that storage and this page have
parted in one of these ways since the page last wrote or read it.

### Bridge

An asynchronous handler is a job that runs from one await to the next; between two
steps of a job any other handler may run or the page may reload. What
`handleNostrEvent` and `handleLibp2pMessage` do before their first await,
`markSeen` included, is one action each (`HandleNostrEvent`,
`HandleLibp2pMessage`); the rest are steps of the job: `StoreEvent` (the
database), then `PublishToLibp2p`, or `PublishToRelays` and `ForwardLibp2pEvent`.
`Fails` is the catch block of a publication. An envelope keeps what the code reads
of it: the event, the direction, the origin and whether the event verifies. All
relays are one set, since which relay accepts changes nothing else, except for who
hears of it: a page subscribes once, to the relays it knows when it starts and
with a limit of 500 (bridge-page.mjs:1876-1878), and asks relays it learns of
later only for relay info. So `served[b]` is what the relays `b` subscribed to
send it: some of what they hold when it starts (`Subscribe`), and what one of them
accepts later (`Accept`, for any set of pages); `HandleNostrEvent` takes nothing
else. `PersistBridgeCache` is the timer of 750 ms, `RelayPageWrites` the page of
one relay in another tab, which writes an entry without the seen ids, and `Reload`
a page that starts again from its cache. `carried`, `topic`, `restored` and
`spoilt` are history variables: what a page published this session, what the topic
has carried, what the cache brought back, and the ids a page met damaged, cut off
or failed, which are the exceptions of the properties. The condition
`CacheMatters` only keeps states apart that differ in a cache nobody will read.

A page never sets `origin_peer_id` itself, so pages forward only envelopes of other
nodes; that is why `PeerSends` may choose an origin.

### RelayBook

`refreshRelayInfo` starts a loop over relays in the order of `prioritizeRelayUrls`
(`Rank`); a loop awaits one request at a time and `fetchRelayInfo` gives it the one
under way, if any. A request goes through `nip11`, `ping` and `save`, which are its
awaits; both NIP-11 addresses are one step, and `Nip11Fails` is the case in which
neither answers. Its handler reads a variable that is not in scope
(bridge-page.mjs:1060), so what it would have recorded is not, and the loops that
await the request end: `Aborted`. A settled request resumes its waiters in the
same step, as nothing else can run between promise and continuation that touches
them. `RecordRelayInfo` is an event that names relays. Since `info` only has the
three values the code branches on, pings and documents have no content.

### EventDb

A call is the set of the rows it has yet to write, each with its place `at` in the
order of the code (`UpsertEvent` and its parts number them; the rows of the i-th
tag have the places 3i to 3i + 2), and `WriteRow` writes the one of least place: a
transaction that reads the row, merges and puts it back. `RowFails` rejects the
call, as the callers catch it; `PageCloses` ends all calls. The callers are the
bridge page (`StoreFromRelay`, `StoreFromLibp2p`, `StoreVerified`,
`StoreRelayInfo`) and the event page (`CacheEvent`), which decides on a row it
read before it asked the relays. An envelope and the relays' answers name a list of
relays: the first is taken for the source, and the event is recorded on each
(`UpsertEventRelays`). Of an event's row the model keeps whether it has
its `raw_json`.

## 3. Runs

Every property of a passing run is shown to depend on the code by a mutant: an
operator beside the real one (marked as a mutant or a plausible bug) that changes
it the way a plausible bug would, under which TLC finds the property violated.

| run | shows | instance and bounds |
| --- | --- | --- |
| `dag` | the safety properties of the DAG, that the order of delivery leaves no trace in it, growth of the canonical order, refinement of `DeliveredDag` | six events: two roots, a diamond, an outsider's event, ids not in causal order; two members and three joins at any time. Each event may also never arrive |
| `blob_quorum` | seals are quorums, the cached seal is the newest (part of `TypeOK`), everyone who keeps asking joins | five founders (the smallest number for which 4/5 is exact) and two joiners, which move the threshold twice |
| `federation_crash` | no ack storm; at rest all daemons that have caught up agree and have every message | two daemons, two crashes, one chat message on top of an event no daemon subscribes to, acks that relays store or refuse, subscriptions answered with three events or all (`Limit`); symmetric daemons (no liveness) |
| `federation_chats` | daemons keep DAGs of an acyclic graph; chat messages that descend from chat messages become canonical everywhere | two messages, fetches that may fail, acks not stored |
| `bundle_receiver` | answers are all that one publication carries, and the bundle only without parity; no wakeup lost; every promise settles | two requests for one repository, one for another, four publications of both shapes, two of them with a parity slice; any order, loss, repetition |
| `bundle_receiver_cached` | finding | the same |
| `native_peer` | rounds are never forgotten (part of `PeerTypeOK`) and always end; the served bundle becomes current again and again | channel of two commands, two overlapping mirrors of one repository that clone, fetch and fail in any order, one change upstream, one round |
| `network_time` | storage, status and offset agree through overlapping rounds, resets and reloads unless storage failed or another page wrote; retries die out | three overlapping rounds, three unanswered ones, another page that stores one of two offsets or none |
| `network_time_overshoot` | finding | one round at a time |
| `bridge` | no event circulates, none is carried again after a reload, all are stored, and those some page is served or sent cross in the end | one page, one other node, one event; two envelopes of that node with any direction and origin, one of them damaged; two reloads; every call may fail; a subscription may serve the event or not |
| `relay_book` | requests are shared, nobody waits in vain, every relay is described and subscribed to | three relays, two of them default, any of them known before; two events that name any of them |
| `event_db` | rows refer to rows, events are complete, nothing is taken back | three calls of any kind on three events (two versions of a user's metadata, one event with a parent and a relay), found on none or both of two relays, rows that fail, one closing |

Why the bounds are enough. For the DAG, the interesting cases are an event that
waits for two parents, a worklist in which an event unblocks another, a walk that
meets marked ids, and a threshold that moves with events on both sides of it; six
events in the graph of `MCDag` have all of them, and the proofs cover all other
graphs. With two daemons both must acknowledge (a threshold of 1), so each depends
on the other. `DaemonsKeepDags` is checked in `federation_chats`: it looks at
every set of events and is too slow for the larger space of `federation_crash`, so
that it survives crashes is shown by its proof alone. Four acks per daemon
(`MaxAcks`) are more than any execution with two crashes and one message signs,
since `NoAckStorm` bounds them. A `Limit` of three is smaller than what relays
come to store, a message and the acks of several lives, so that answers are cut
off, and large enough that a daemon is told some of it; in `federation_chats`
nothing crashes and the limit is the real one. A channel of two is full as soon as
two commands wait, and is the smallest in which a stale bundle can be queued
behind a new one. For the bridge, ids do not interact, so one event is enough; a
second page would add nothing that the other node does not send already (an
instance with two pages, one reload and no failures was checked as well, and the
proofs hold for any number). Three relays give loops that overlap in one relay and
differ in others, and an order in which a relay comes before the one that fails.
Two calls for one event and a third in between are what an interleaving of rows
needs. Three samples are what the clock needs to move, four hold a window of mixed
ones. `MaxSends`, `MaxDamaged`, `MaxReloads`, `MaxNews`, `MaxCalls`, `MaxCloses`,
`MaxPending`, `MaxSilent`, `MaxOffset` (a clamp), `MaxVersion`, `MaxRounds`,
`MaxSamples`, `Tasks`, `MaxAcks`, `MaxCrashes` and `RelayLists` are the bounds;
each is named in its module.

`CHECK_DEADLOCK FALSE` is set where the system really may stop: everybody has
joined and attested; every message is written and acknowledged; no event arrives
that names or stores anything.

Properties worth knowing beyond their comments: `OrderLeavesNoTrace` says of every
field of `Dag` that outlives a call what it is computed from, so a fault in
buffering, in the worklist, in the depth cache or in the early stop of the walk
shows in it, and the order in which relays deliver does not; of `seen_by` it can
say so only while nobody has joined, because a member counts from its join on
(`SeenByHasEvidence` bounds it after a join). `NothingHeldBack` is its first part
and ties the refinement of `DeliveredDag` to the fields. `CanonicalOrderOnlyGrows`
allows canonical events to be withdrawn only by a join, which raises the threshold
and leaves `seen_by` alone; PLAN.md:232 ("once canonical, always canonical") holds
in exactly that sense. `QuietAgreement` speaks of daemons that have caught up: one
that a limited subscription was not told everything may differ. It is checked with
relays that store acks; if they do not, a daemon that restarts misses acks for
good, as PLAN.md says of ephemeral events. `CacheRefreshed` is `[]<>` and not
`<>[]`, because a gossip request carries the bytes cached when it was queued and
its handler writes them back.

## 4. Fairness

Safety runs assume none. `Federation`: weak fairness of handling a notification
that has arrived, of the fetch loop, of the sleeping ack and of restarting a
process that ended; users need not write and nothing must crash. `BlobQuorum`:
founders attest, events handed over are processed, and who wants to join signs
again for the current seal. `BundleReceiver`: only timers fire; of peers, gossip
and relays nothing is assumed. `NativePeer`: the loop serves its channel, tasks
make progress, waiting senders get room in turn (the channel of tokio is first
in, first out, hence strong fairness), the mirror timer keeps ticking, and git
tried again and again succeeds at some point; a clone need never succeed.
`NetworkTime`: timers fire and rounds end; a spell of silence ends. `Bridge`: the
browser runs every callback and resumes every await, what a relay serves a
subscription with arrives, and the topic delivers; no relay has to serve an event,
and nobody has to publish, persist or reload.
`RelayBook`: a request and a yield end, a ping has a time limit; no event need
arrive.

## 5. Proofs

`tlapm` checks every theorem below for all values of the constants that the named
assumptions of the modules allow. The assumptions only type the constants, except
for these, with the reason the code gives for each:

- `AcyclicAssumption` (`EventGraph`): a finite set of events has one without parents
  in the set. The id of an event is a hash over the ids of its parents.
- `KindsAssumption` (`Federation`): users' events are not acks; acks have a kind of
  their own (21000) and are signed by daemons.
- `UserAssumption` (`FederationDags`): users sign with a key that is not in
  FEDERATION_PUBKEYS, so their events are evidence of no member.
- `EventDbAssumption` (`EventDb`): the value of an `r` tag is a relay; null is neither
  an event nor a relay.
- `RankAssumption` (`RelayBook`): every set of relays has a first one;
  `prioritizeRelayUrls` sorts.

Bounds such as `MaxCrashes`, `MaxAcks`, `MaxCalls` or `MaxPending` are any natural
numbers in the proofs.

Every invariant the runs check is proved, and so are the action properties and the
refinement. What follows is the argument of each module.

| module | theorems | property |
| --- | --- | --- |
| `DagProofs` | `TypeCorrect`, `DeliveryOrderForgotten`, `DepthsAgree`, `SeenByCorrect`, `CanonicalCausal`, `CanonicalQuorumsOverlap`, `CanonicalOrderGrowing`, `SeenByEvidence`, `TipsCover`, `Refinement` | `TypeOK`, `OrderLeavesNoTrace`, `SeenByInherited`, `CanonicalOrderIsCausal`, `QuorumsOverlap`, `CanonicalOrderOnlyGrows`, `SeenByHasEvidence`, `TipsCoverEverything`, `ImplementsDeliveredDag` |
| `NativeNodeProofs` | `TypeCorrect`, `SealsAlwaysQuorums`, `PeerTypeCorrect` | `TypeOK`, `SealsAreQuorums`, `PeerTypeOK` |
| `FederationProofs` | `TypeCorrect`, `AcksDoNotBreed`, `Agreement`, `EveryDaemonKeepsADag` | `TypeOK`, `NoAckStorm`, `QuietAgreement`, `DaemonsKeepDags` |
| `BundleReceiverProofs` | `TypeCorrect`, `WakeupsAreKept`, `AnswersWhole` | `TypeOK`, `NoLostWakeup`, `AnswersAreWhole` |
| `BridgeProofs` | `TypeCorrect`, `CirclesExcluded`, `StoredOrSpoilt` | `TypeOK`, `CarriedOnce`, `SeenIsStored` |
| `RelayBookProofs` | `TypeCorrect`, `RequestsShared`, `DiscoveryExact` | `TypeOK`, `RequestsAccounted`, `DiscoveredOnce` |
| `EventDbProofs` | `ReferencesAlwaysResolve`, `NoRowLost`, `KnowledgeKept` | `ReferencesResolve`, `InsertedIsComplete`, `NothingTakenBack` |
| `NetworkTimeProofs` | `TypeCorrect`, `PersistedAlways`, `StatusAlwaysEarned` | `TypeOK`, `PersistedIsCurrent`, `StatusIsEarned` |

**Dag.** Why `IInv` has its parts. That nothing is stranded is not inductive: in the
middle of the worklist there are events with all parents stored that still wait. So
`UnblockedInWorklist` says such events are on the worklist, and to show that
storing an event puts them there, `WaitingExact` must say that `waiting_for` is
exact in both directions. `SeenByInherited` needs `StoredClosed` (the walk only
pushes parents of stored events) and gives the early stop of the walk; its proof
(`ReachedIsClosed`, `StoreEffect`) shows the set reached is closed under parents
up to ids marked before, which are closed already. `DepthIncreases` needs that
all parents are stored when a depth is cached. `QuorumsOverlap` is counting:
two sets larger than the threshold of n (`Counting`, with the bound on
`QuorumThreshold`) share at least 3n/5 members. None of these uses
`AcyclicAssumption`: an event on a cycle would never be stored.

`DeliveryOrderForgotten` adds `TraceInv` to `IInv` and `ChildrenExact`: every
cached depth is one more than the greatest depth of a parent, and while nobody has
joined a member has seen exactly what lies below the stored events it signed. When
an event is stored its parents are stored already, so no cached depth changes; and
by `StoreEffect` the walk marks what is below the new event for its author and
nothing else (`StoreTrace`). That what is stored is `Connected(Received)` is
`NothingHeldBack`, below. `DepthsAgree` makes the depth a property of the event
alone: of the events two participants have stored and give different depths,
`AcyclicAssumption` yields one all of whose parents they agree on, and then they
agree on it.

`TipsCover` needs `ChildrenExact` (`children` lists exactly the stored events that
name a parent): an event that is stored takes its parents off the tips and covers
whatever they covered.

**Refinement of `DeliveredDag`.** `Refinement` has three parts. The initial states
agree. A step of `insert` or `add_participant` maps to `Deliver` or `Join` of the
abstract DAG, and a step of the worklist to a stutter: the mapping (`Promised`)
computes what is visible from `Received`, which the worklist does not change, and
completes `seenBy` by the events that are still to be stored; storing one of them
moves it from one part to the other. And
`NothingHeldBack`: between calls the stored events are the whole connected part of
what was received. One inclusion is `StoredClosed`. For the other take the events
that are connected and not stored; `Received` is finite, so by `AcyclicAssumption`
one of them has all its parents stored, and it is pending with nothing left to wait
for, which `IInv` excludes when the worklist is empty.

**BlobQuorum.** `Membership` (nobody leaves, only members attest, published seals list
recorded attestations) makes `SealsAreQuorums` inductive; a seal is built above the
threshold of the current members, who include the founders.

**Federation.** `NoAckStorm` bounds the acks of a daemon by what it was given, so the
invariant must account for every ack: `BudgetInv` says the acks signed so far are
paid for by the chat messages inserted in the present life and by at most all of
them in each earlier one. It is kept because a chat message is inserted once per
life (`HandleInserted` requires that it was not received) and because `HandleBuffered`
and `HandleDuplicate` sign nothing. `EventInv` (ancestors are the least set closed
under parents), `AckInv` and `DaemonInv` carry it.

`Agreement` uses a second invariant, `DeliveryInv`: what a running daemon
subscribes to is in its DAG, on its way or in `missed`, and so is every parent of
what it holds, or it is about to be fetched. When nothing is on its way, the DAG
of a daemon that has caught up is closed and contains all published events it
subscribes to with their ancestors, and by `DaemonInv` nothing else: the same set
at every daemon (`QuietDag`). The theorem holds for any `Limit`; that a daemon has
caught up is part of `QuietAgreement`, since the code does not fetch what a
subscription left out unless something names it as a parent. The theorem assumes
`RelaysKeepEnough`: relays store acks or no daemon crashes, and fetches come back
or no event outside of the subscription is ever named. Both instances that are run
satisfy it. It cannot be dropped: a daemon that restarts misses an ack no relay
stored, and a fetch that times out is not repeated until another event is buffered
(native_cli.rs:288-299), so a parent nobody sends again may stay missing.

`EveryDaemonKeepsADag` composes `Federation` with `Dag`. That the graph has no
cycle cannot be assumed here: events are signed in the course of the behaviour, on
whatever tips the signer knows. `SignedAcyclic` is that condition as a state
predicate. It is kept because a new event names only published events
(`StepSigns`) and, being new, is named by none (`SignKeepsAcyclic`): a set of
events without it has a member with no parents in the set, and that member still
has none when the new event is added. `AncestorsOfGraph` identifies the ancestors
`Federation` records at signing with those `EventGraph` defines, and
`SeenByOfGraph` carries this over to who has seen what; both rest on `EventInv`.
Together with `DeliveryOrderForgotten`, what a daemon reads of its `Dag` between
calls is what `Federation` computes from `received[d]`.

**NativePeer.** `PeerTypeOK` says two things that are not about types: a bundle
always comes from a repository and a directory that exist, and no round of network
time leaks. For the first, `TaskInv` says what holds of a mirror task between two
awaits: from `create_dir_all` on the directory is there, and as no task removes
one, a failed clone included, it still is after the next await. For the second,
`RoundsLeft` counts the syncs that wait in the channel against the ids that are
left, so that a new round gets a fresh id within the bound; `Sending` and
`Receiving` are what a step does to the channel, to the commands in it and to that
count, for any capacity. The end of a round is in the channel before its window is
dropped, and leaves it only when `HandleFinalize` takes it. Its proof shares a
module with that of `BlobQuorum`; the definitions of `NativePeer` that every
specification has carry the prefix `Peer`, so that both can be extended.

**BundleReceiver.** `SliceInv`: what is filed under a manifest are slices of that
publication, each once. So a complete list is a permutation of what the
publication carries, and the lemmas `IncreasingIsIdentity` and `SortedIsWhole`
show that sorting it gives that in order, for any length: a strictly increasing
map of 1..n into itself is the identity, by counting and without an induction.
`CarriedIsBundle` compares that with the data slices: they are the same if and
only if no slice is parity, which is the second half of `AnswersAreWhole`.
`ManifestInv` ties an entry to a manifest of its repository and to a request that
still waits.

**Bridge.** `CarriedOnce` has two parts. `OneWayOnce` is not inductive: it needs
to know that a job waiting to publish is the only one that can (`PageInv`: a job's
id is in the seen sets, at most one job per event and network, and what was
carried belongs to an event whose job is past that step). Jobs are told apart by
network because a page may have one from each: a job from a relay excludes a
publication to relays by `onRelay`. `RestoredInv` keeps ids of the cache in the
seen sets for the whole session, which is what makes `NoRepeatAfterReload`
inductive, and `CacheInv` carries `SeenIsStored` over a reload: what the cache
holds is stored, spoilt, or under way.

**RelayBook.** Together the three properties are inductive: a loop awaits either
nobody or a relay some request of which is under way, because requests and
awaiting loops settle together.

**EventDb.** That references resolve is a property of the calls that are under
way: `RowsOK` says that what a row refers to is there, or some row before it in
the same call makes it (`UserSoon`, `RelaySoon`, `EventSoon`). It holds of every
new call (`UpsertEventOK`, `TagRowsOK`, `UpsertEventRelaysOK`), it survives what
other calls write since rows are never deleted (`Grows`, `RowsKept`), and for the
row whose turn it is no row is before it, so what it refers to is there
(`TurnComes`). A call that is cut off owes nothing (`CutOffInv`).
`InsertedIsComplete` needs `Covered`: a row an event lacks is among those some
call for it has yet to write, for every call that inserts it, also when other
calls have written part of it. `OnlyViewed` is the exception of the event page. Of
the invariant `KnowledgeKept` needs only the domains of two stores (`Rows`).

**NetworkTime.** The strengthening of `PersistedIsCurrent` and `StatusIsEarned` is
only that the counters are natural numbers; `PersistedIsCurrent` excepts what
storage or another page has `lost`, and `RecalibrateKeeps` and `ResetState` show
that no step of the page itself parts the two otherwise. For `TypeOK` the median
must be a number: `MedianIsInt` shows that a least sample with half of them up to
it exists, because the sets of samples below one another are subsets of a finite
set and so have a least element (`LeastSet`).

Only model-checked: the liveness properties (`EveryoneMayJoin`, `ChatMatures`,
`EventsCross`, `EveryRequestSettles`, `EveryRoundEnds`, `CacheRefreshed`,
`NamedAreDescribed`, `NamedAreDiscovered`, `RetriesDieOut`) with the fairness they
rest on, and ENABLED in general, which are out of the prover's reach, as are
inductions over data and recursive operators.

## 6. Findings

1. `bundle_receiver_cached`: the receiver counts slices under the manifest's id,
   but the native peer publishes chains in which a slice names the slice before
   it, so a bundle of two or more slices never completes.
2. `network_time_overshoot`: samples are applied again at every round until they
   expire, so the offset moves past the clock of the peers: three samples of a
   peer 20 ms ahead, followed by silence, give 22 ms after eleven rounds.

Seen in the code while modelling it, without a run of their own:

- README.md:9 and PLAN.md:48 promise canonicality by a majority; the code asks for
  more than ceil(4n/5) - 1, three of three (`QuorumThreshold`).
- A chat message that was buffered on arrival is stored later and never
  acknowledged, since only `Inserted` leads to `maybe_ack` (native_cli.rs:166); so
  `ChatMatures` speaks of messages that descend from chat messages.
- After a failed `git clone`, or while one is running, the empty mirror directory
  makes git work on the enclosing repository, and its bundle is published under
  the mirrored URL (p2p_node.rs:1194; `FetchEnclosing`).
- A payload that does not verify marks its id as seen and processed
  (bridge-page.mjs:1758); the genuine event is then taken for a duplicate. The
  properties of `Bridge` except such ids by `spoilt`.
- A NIP-11 request that fails throws in its own error handler
  (bridge-page.mjs:1060 reads `lastError` of the block at 1020) and ends the loops
  that wait for it (`Nip11Fails`).
- `putEvent` of the event page writes a row without `raw_json`, which `upsertEvent`
  never repairs, and no rows for the user and the tags (event.html:257).
- dag-db.mjs:239 says "No-op if the id already exists"; the other rows are written
  again, so an old kind-0 event that is delivered once more moves the metadata
  pointer of its author back (`PutMetadata`).
- `pool.publish` returns an array of promises, which `await` does not wait for, so
  the metrics count every relay as having accepted (bridge-page.mjs:1554).
- The bridge page verifies its own presence events and records them on relays
  without ever storing the event itself (`StoreVerified`).
- The bridge page's forwarding needs an `origin_peer_id`, which no publisher of the
  repository sets outside of tests.
- The browser's `reconstructPayload` (nip34-quorum.mjs:346-358) concatenates parity
  slices with data slices, against PIP.md:181, p2p.rs:697-699 and the tests of
  p2p.rs. `AnswersAreWhole` shows it: what a request resolves with is the bundle if
  and only if the publication has no parity slice, and `packetize_payload` makes
  one for every payload of more than one slice.
- Two mirror tasks that start before the directory is there both clone into it
  (p2p_node.rs:1194-1211), and a clone that fails empties it under the other.
- A daemon that restarts is told at most 1000 stored events by each relay
  (native_cli.rs:110); what it was not told it only asks for when it is a missing
  parent, so it may hold less than the others for good.
- The bridge page subscribes with a limit of 500 to the relays it knows at its
  start (bridge-page.mjs:1876-1878); events of relays it learns of later do not cross.
- network-time.mjs:69-82 and 678-682 ignore storage that fails, and all pages of the
  origin write one key, so a reload may restore another offset than the one in use,
  or one that was reset (`lost`).
- While a round is under way `validateEventTimestamp` accepts everything although
  an offset is known.

## 7. Not modelled, and why

Signatures, ids and digests (an id is its event); wording, logging, rendering and
metrics; the internals of libp2p, relay pools, git and the browser (external,
modelled from their use); `Quit` and standard input of the peer; the answering
side of network time (it keeps no state); topics; trust scores of several peers;
`git-bundle-http.mjs` (a fetch); of the bridge page its presence messages, the
verification queue beyond what it writes to the database, recent lists and
`syncEventToServer`; `rbsr.rs` and `bft_time.rs`, which nothing calls. Components
with status `not_modelled` give their reason in `PROJECT.json`; those called
planned there are in the plan below.

## 8. Plan

In this order, most important first.

1. `PacketTree`: `recursive_packetize`, `calculate_parity` and
   `reconstruct_payload` as functions, exhaustively for short payloads; the two
   reconstructions (Rust and browser) compared.
2. The SQLite store as a second instance of `EventDb` (one process, no
   interleaving, statements that fail half way).
3. `PeerRuntime` and the peer table of the native peer; the DAG page.
4. The bridge page's verification queue with its backoff, and presence.
5. `pLimit` and relay queries; the preview server's bounded stores.
