------------------------------ MODULE EventDb -------------------------------
(***************************************************************************)
(* The browser's event database, demo/shared/dag-db.mjs, under the calls   *)
(* that bridge-page.mjs and the event page (bridge/event.html) make of it, *)
(* which share it when both are open.                                      *)
(*                                                                         *)
(* Every row is read and written in a transaction of its own, and a call   *)
(* awaits one row after the other. So a call is the set of the rows it has *)
(* yet to write, each with its place in the call; the row of least place   *)
(* is written in one step, and calls interleave at every row. The page may *)
(* close between any two rows.                                             *)
(***************************************************************************)
EXTENDS Naturals, Sequences

CONSTANTS
  Events, Users, Relays,
  Author,       \* Author[e]: the user who signed e
  Metadata,     \* the events of kind 0
  Tags,         \* Tags[e]: its tags, each a pair of a name and a value
  None,         \* null
  RelayLists,   \* the lists of relays that an event may be said to be on
  MaxCalls,     \* bound: calls made
  MaxCloses     \* bound: how often the page closes

ASSUME EventDbAssumption ==
  /\ Author \in [Events -> Users]
  /\ Metadata \subseteq Events
  /\ None \notin Events \union Relays
  /\ RelayLists \subseteq Seq(Relays)
  /\ MaxCalls \in Nat /\ MaxCloses \in Nat
  /\ \A e \in Events :
       /\ Len(Tags[e]) \in Nat /\ DOMAIN Tags[e] = 1 .. Len(Tags[e])
       /\ \A i \in DOMAIN Tags[e] : Tags[e][i][1] = "r" => Tags[e][i][2] \in Relays

VARIABLES
  users, tags, edges,   \* keys in the stores of these names
  events,        \* events[e]: "absent", "raw" with its raw_json, or "bare"
  relays,        \* relays[r]: "absent", "bare", or "info" with a NIP-11 record
  userRelays,    \* userRelays[u][r]: the event that lists r for u, or None
  eventRelays,   \* eventRelays[e][r]: "absent", "seen" or "verified"
  source,        \* source[e]: source_relay of the row of e
  pointer,       \* pointer[u]: metadata_event_id of the row of u
  calls,         \* calls[i]: the rows call i has yet to write
  pending,       \* pending[i]: history, the event call i inserts, or None
  inserted,      \* history: events some upsertEvent has finished
  viewed,        \* history: events the event page has asked the relays for
  closes         \* times the page has closed

db == <<users, events, tags, edges, relays, userRelays, eventRelays, source,
        pointer>>
vars == <<db, calls, pending, inserted, viewed, closes>>

-----------------------------------------------------------------------------
(* The rows a call writes, each at its place. *)

Row(at, store, key, value) == [at |-> at, store |-> store, key |-> key, value |-> value]

UpsertUser(at, u) == {Row(at, "users", u, None)}
UpsertRelay(at, r) == {Row(at, "relays", r, "bare")}
SetRelayInfo(at, r) == {Row(at, "relays", r, "info")}
UpsertUserRelay(at, u, r, e) == {Row(at, "user_relays", <<u, r>>, e)}
SetUserMetadataEvent(at, u, e) == {Row(at, "metadata", u, e)}

\* An event seen on a relay, or verified there.
UpsertEventRelay(at, e, r, state) ==
  UpsertRelay(at, r) \union {Row(at + 1, "event_relays", <<e, r>>, state)}

\* The loop over the relays an event was seen on, two places for each.
UpsertEventRelays(at, e, on) ==
  UNION {UpsertEventRelay(at + 2 * i, e, on[i], "seen") : i \in DOMAIN on}

\* The relay that is taken for the source of an event.
First(on) == IF 1 \in DOMAIN on THEN on[1] ELSE None

\* A plausible bug: the relay an author lists is taken to be known already.
TagRowsNoRelay(e, i) ==
  LET name == Tags[e][i][1]
      value == Tags[e][i][2]
  IN  {Row(3 * i, "tags", <<e, i>>, None)}
      \union (IF name = "e" THEN {Row(3 * i + 1, "dag_edges", <<value, e>>, None)} ELSE {})
      \union (IF name = "r" THEN UpsertUserRelay(3 * i + 2, Author[e], value, e) ELSE {})

\* The rows of the tag at a position: the tag, then an edge for a parent, or
\* a relay that the author lists.
TagRows(e, i) ==
  LET name == Tags[e][i][1]
      value == Tags[e][i][2]
  IN  {Row(3 * i, "tags", <<e, i>>, None)}
      \union (IF name = "e" THEN {Row(3 * i + 1, "dag_edges", <<value, e>>, None)} ELSE {})
      \union (IF name = "r" THEN UpsertRelay(3 * i + 1, value)
                                 \union UpsertUserRelay(3 * i + 2, Author[e], value, e)
                            ELSE {})

AfterTags(e) == 3 * Len(Tags[e]) + 3

\* r is the relay the event came from, or None.
UpsertEvent(e, r) ==
  UpsertUser(0, Author[e])
  \union (IF r = None THEN {} ELSE UpsertRelay(1, r))
  \union {Row(2, "events", e, r)}
  \union (UNION {TagRows(e, i) : i \in DOMAIN Tags[e]})
  \union (IF e \in Metadata THEN SetUserMetadataEvent(AfterTags(e), Author[e], e) ELSE {})

-----------------------------------------------------------------------------

Init ==
  /\ users = {} /\ tags = {} /\ edges = {}
  /\ events = [e \in Events |-> "absent"]
  /\ relays = [r \in Relays |-> "absent"]
  /\ userRelays = [u \in Users |-> [r \in Relays |-> None]]
  /\ eventRelays = [e \in Events |-> [r \in Relays |-> "absent"]]
  /\ source = [e \in Events |-> None]
  /\ pointer = [u \in Users |-> None]
  /\ calls = <<>> /\ pending = <<>>
  /\ inserted = {} /\ viewed = {} /\ closes = 0

Call(rows, e) ==
  /\ Len(calls) < MaxCalls
  /\ calls' = Append(calls, rows)
  /\ pending' = Append(pending, e)
  /\ UNCHANGED <<db, inserted, closes>>

\* handleNostrEvent: the relay an event came from is not known.
StoreFromRelay(e) == Call(UpsertEvent(e, None), e) /\ UNCHANGED viewed

\* handleLibp2pMessage: the first hint is taken for the source, and the event
\* is recorded as seen on each of them.
StoreFromLibp2p(e, hints) ==
  /\ Call(UpsertEvent(e, First(hints))
            \union UpsertEventRelays(AfterTags(e), e, hints), e)
  /\ UNCHANGED viewed

\* processBridgeVerificationQueue has found an event it published on the
\* relay; the presence of the page itself is published and never stored.
StoreVerified(e, r) ==
  /\ Call(UpsertEventRelay(0, e, r, "verified"), None)
  /\ UNCHANGED viewed

\* The event page finds no row, asks the relays, and caches their answer
\* whatever has been written in the meantime.
CacheEvent(e, found) ==
  /\ events[e] = "absent" /\ found # <<>>
  /\ Call({Row(0, "events_overwritten", e, First(found))}
            \union UpsertEventRelays(0, e, found), None)
  /\ viewed' = viewed \union {e}

\* fetchRelayInfo has a NIP-11 document or a ping time.
StoreRelayInfo(r) == Call(SetRelayInfo(0, r), None) /\ UNCHANGED viewed

-----------------------------------------------------------------------------
(* One row: what is there is read, merged with and put back. *)

PutUser(u) ==
  /\ users' = users \union {u}
  /\ UNCHANGED <<events, tags, edges, relays, userRelays, eventRelays,
                 source, pointer>>

\* A plausible bug: the row is replaced, not merged.
PutRelayAnew(r, value) ==
  /\ relays' = [relays EXCEPT ![r] = value]
  /\ UNCHANGED <<users, events, tags, edges, userRelays, eventRelays, source,
                 pointer>>

PutRelay(r, value) ==
  /\ relays' = [relays EXCEPT ![r] = IF @ = "info" THEN "info" ELSE value]
  /\ UNCHANGED <<users, events, tags, edges, userRelays, eventRelays, source,
                 pointer>>

\* upsertEvent writes the row of an event only once.
PutEvent(e, r) ==
  /\ IF events[e] # "absent"
     THEN UNCHANGED <<events, source>>
     ELSE /\ events' = [events EXCEPT ![e] = "raw"]
          /\ source' = [source EXCEPT ![e] = r]
  /\ UNCHANGED <<users, tags, edges, relays, userRelays, eventRelays, pointer>>

\* putEvent of the event page replaces the row by the event itself, which has
\* no raw_json.
OverwriteEvent(e, r) ==
  /\ events' = [events EXCEPT ![e] = "bare"]
  /\ source' = [source EXCEPT ![e] = r]
  /\ UNCHANGED <<users, tags, edges, relays, userRelays, eventRelays, pointer>>

PutTag(key) ==
  /\ tags' = tags \union {key}
  /\ UNCHANGED <<users, events, edges, relays, userRelays, eventRelays,
                 source, pointer>>

PutEdge(key) ==
  /\ edges' = edges \union {key}
  /\ UNCHANGED <<users, events, tags, relays, userRelays, eventRelays,
                 source, pointer>>

PutUserRelay(key, e) ==
  /\ userRelays' = [userRelays EXCEPT ![key[1]][key[2]] = e]
  /\ UNCHANGED <<users, events, tags, edges, relays, eventRelays, source,
                 pointer>>

PutEventRelay(key, state) ==
  /\ eventRelays' = [eventRelays EXCEPT ![key[1]][key[2]] =
                       IF @ = "verified" THEN @ ELSE state]
  /\ UNCHANGED <<users, events, tags, edges, relays, userRelays, source,
                 pointer>>

\* Whichever kind-0 event is handed over last wins, also when it is older
\* than the one the row points to.
PutMetadata(u, e) ==
  /\ pointer' = [pointer EXCEPT ![u] = IF u \in users THEN e ELSE @]
  /\ UNCHANGED <<users, events, tags, edges, relays, userRelays, eventRelays,
                 source>>

Put(row) ==
  \/ row.store = "users" /\ PutUser(row.key)
  \/ row.store = "relays" /\ PutRelay(row.key, row.value)
  \/ row.store = "events" /\ PutEvent(row.key, row.value)
  \/ row.store = "events_overwritten" /\ OverwriteEvent(row.key, row.value)
  \/ row.store = "tags" /\ PutTag(row.key)
  \/ row.store = "dag_edges" /\ PutEdge(row.key)
  \/ row.store = "user_relays" /\ PutUserRelay(row.key, row.value)
  \/ row.store = "event_relays" /\ PutEventRelay(row.key, row.value)
  \/ row.store = "metadata" /\ PutMetadata(row.key, row.value)

\* The row whose turn it is.
NextRow(rows, row) == row \in rows /\ \A other \in rows : row.at <= other.at

\* A plausible bug: an event that is there already needs no other row.
WriteRowNoop(i) ==
  \E row \in calls[i] :
    LET known == row.store = "events" /\ events[row.key] # "absent"
        rest == IF known THEN {} ELSE calls[i] \ {row}
    IN  /\ NextRow(calls[i], row)
        /\ Put(row)
        /\ calls' = [calls EXCEPT ![i] = rest]
        /\ inserted' = IF rest = {} THEN inserted \union ({pending[i]} \ {None})
                                    ELSE inserted
        /\ UNCHANGED <<pending, viewed, closes>>

\* With its last row a call has done what it was asked for.
WriteRow(i) ==
  \E row \in calls[i] :
    /\ NextRow(calls[i], row)
    /\ Put(row)
    /\ calls' = [calls EXCEPT ![i] = @ \ {row}]
    /\ inserted' = IF calls[i] = {row} THEN inserted \union ({pending[i]} \ {None})
                                       ELSE inserted
    /\ UNCHANGED <<pending, viewed, closes>>

\* A transaction fails: the call rejects and its caller carries on.
RowFails(i) ==
  /\ calls[i] # {}
  /\ calls' = [calls EXCEPT ![i] = {}]
  /\ UNCHANGED <<db, pending, inserted, viewed, closes>>

\* The page closes; what was written stays.
PageCloses ==
  /\ closes < MaxCloses
  /\ closes' = closes + 1
  /\ calls' = [i \in DOMAIN calls |-> {}]
  /\ UNCHANGED <<db, pending, inserted, viewed>>

Next ==
  \/ \E e \in Events : StoreFromRelay(e)
  \/ \E e \in Events, hints \in RelayLists : StoreFromLibp2p(e, hints)
  \/ \E e \in Events, r \in Relays : StoreVerified(e, r)
  \/ \E e \in Events, found \in RelayLists : CacheEvent(e, found)
  \/ \E r \in Relays : StoreRelayInfo(r)
  \/ \E i \in DOMAIN calls : WriteRow(i) \/ RowFails(i)
  \/ PageCloses

Spec == Init /\ [][Next]_vars

-----------------------------------------------------------------------------
(* Properties. *)

\* What the stores may hold.
StoresOK ==
  /\ users \subseteq Users
  /\ events \in [Events -> {"absent", "raw", "bare"}]
  /\ relays \in [Relays -> {"absent", "bare", "info"}]
  /\ userRelays \in [Users -> [Relays -> Events \union {None}]]
  /\ eventRelays \in [Events -> [Relays -> {"absent", "seen", "verified"}]]
  /\ source \in [Events -> Relays \union {None}]
  /\ pointer \in [Users -> Events \union {None}]

TypeOK == StoresOK /\ DOMAIN calls = DOMAIN pending /\ Len(calls) <= MaxCalls

Stored == {e \in Events : events[e] # "absent"}

\* No row refers to a row that is missing.  Exceptions are what the event
\* page cached and the row of an event the page published without storing it.
References ==
  /\ \A e \in Events : events[e] = "raw" =>
       Author[e] \in users /\ (source[e] = None \/ relays[source[e]] # "absent")
  /\ \A t \in tags : t[1] \in Stored
  /\ \A k \in edges : k[2] \in Stored
  /\ \A u \in Users, r \in Relays : userRelays[u][r] # None =>
       u \in users /\ relays[r] # "absent" /\ userRelays[u][r] \in Stored
  /\ \A u \in Users : pointer[u] # None =>
       pointer[u] \in Stored \intersect Metadata /\ Author[pointer[u]] = u
  /\ \A e \in Events, r \in Relays :
       /\ eventRelays[e][r] # "absent" => relays[r] # "absent"
       /\ eventRelays[e][r] = "seen" => e \in Stored

\* The stores hold what they may, and whenever the page closes, no row refers
\* to a row that is missing: "Ensure FK targets exist first." (dag-db.mjs:255)
ReferencesResolve == TypeOK /\ References

\* An event that was handed over in full has all its rows, also when an
\* earlier call for it was cut off after the row of the event itself; and it
\* is kept with its raw_json unless the event page came in between.
InsertedIsComplete ==
  \A e \in inserted :
    /\ events[e] = "raw" \/ e \in viewed
    /\ \A i \in DOMAIN Tags[e] :
         /\ <<e, i>> \in tags
         /\ Tags[e][i][1] = "e" => <<Tags[e][i][2], e>> \in edges
         /\ Tags[e][i][1] = "r" => userRelays[Author[e]][Tags[e][i][2]] # None

\* No call that only knows a relay by name takes back that an event was
\* verified there, or the NIP-11 record of the relay.
NothingTakenBack ==
  [][/\ \A e \in Events, r \in Relays :
          eventRelays[e][r] = "verified" => eventRelays'[e][r] = "verified"
     /\ \A r \in Relays : relays[r] = "info" => relays'[r] = "info"]_vars

=============================================================================
