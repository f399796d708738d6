--------------------------- MODULE EventDbProofs ----------------------------
(***************************************************************************)
(* What the rows of EventDb keep, for any events, users and relays, any    *)
(* number of calls, and every way in which their rows interleave.          *)
(***************************************************************************)
EXTENDS EventDb, SequenceTheorems, TLAPS

\* The rows of relays are there for every relay, and for every event.
Rows ==
  /\ DOMAIN relays = Relays
  /\ DOMAIN eventRelays = Events
  /\ \A e \in Events : DOMAIN eventRelays[e] = Relays

\* One step takes back neither kind of knowledge.
Keeps ==
  /\ \A e \in Events, r \in Relays :
       eventRelays[e][r] = "verified" => eventRelays'[e][r] = "verified"
  /\ \A r \in Relays : relays[r] = "info" => relays'[r] = "info"

LEMMA InitRows == Init => Rows
  BY DEF Init, Rows

\* Every store but the two is left alone by a row of another one.
LEMMA PutKeeps == ASSUME Rows, NEW row, Put(row) PROVE Rows' /\ Keeps
  <1>1. CASE UNCHANGED <<relays, eventRelays>>
    BY <1>1 DEF Rows, Keeps
  <1>2. ASSUME NEW r, NEW value, PutRelay(r, value) PROVE Rows' /\ Keeps
    BY <1>2 DEF PutRelay, Rows, Keeps
  <1>3. ASSUME NEW key, NEW state, PutEventRelay(key, state) PROVE Rows' /\ Keeps
    <2>1. relays' = relays
          /\ eventRelays' = [eventRelays EXCEPT ![key[1]][key[2]] =
                               IF @ = "verified" THEN @ ELSE state]
      BY <1>3 DEF PutEventRelay
    <2> QED BY <2>1 DEF Rows, Keeps
  <1>4. \/ UNCHANGED <<relays, eventRelays>>
        \/ \E r, value : PutRelay(r, value)
        \/ \E key, state : PutEventRelay(key, state)
    BY DEF Put, PutUser, PutEvent, OverwriteEvent, PutTag, PutEdge,
           PutUserRelay, PutMetadata
  <1> QED BY <1>1, <1>2, <1>3, <1>4

\* Only a row that is written changes the database.
LEMMA NextKeeps == ASSUME Rows, [Next]_vars PROVE Rows' /\ Keeps
  <1>1. ASSUME NEW i \in DOMAIN calls, WriteRow(i) PROVE Rows' /\ Keeps
    BY <1>1, PutKeeps DEF WriteRow
  <1>2. CASE UNCHANGED db
    BY <1>2 DEF db, Rows, Keeps
  <1>3. UNCHANGED db \/ \E i \in DOMAIN calls : WriteRow(i)
    BY DEF Next, vars, db, Call, StoreFromRelay, StoreFromLibp2p, StoreVerified,
           CacheEvent, StoreRelayInfo, RowFails, PageCloses
  <1> QED BY <1>1, <1>2, <1>3

LEMMA RowsAlways == Spec => []Rows
  <1>1. Rows /\ [Next]_vars => Rows'
    BY NextKeeps
  <1> QED BY InitRows, <1>1, PTL DEF Spec

\* A relay once verified for an event stays verified, and a relay once
\* described by NIP-11 stays described: the merges of upsertEventRelay and
\* upsertRelay lose nothing, whichever call writes last.
THEOREM KnowledgeKept == Spec => NothingTakenBack
  <1>1. Rows /\ [Next]_vars => [Keeps]_vars
    BY NextKeeps
  <1> QED BY RowsAlways, <1>1, PTL DEF Spec, NothingTakenBack, Keeps

-----------------------------------------------------------------------------
(***************************************************************************)
(* References: the invariant of the calls that are under way.              *)
(***************************************************************************)

\* A user, a relay, an event has its row, or a row before this place of the
\* call makes it.
UserSoon(rows, at, u) ==
  u \in users \/ \E w \in rows : w.at < at /\ w.store = "users" /\ w.key = u

RelaySoon(rows, at, r) ==
  relays[r] # "absent" \/ \E w \in rows : w.at < at /\ w.store = "relays" /\ w.key = r

EventSoon(rows, at, e) ==
  \/ e \in Stored
  \/ \E w \in rows : w.at < at /\ w.store \in {"events", "events_overwritten"} /\ w.key = e

\* Rows write what their store may hold.
RowTyped(row) ==
  /\ row.at \in Nat
  /\ row.store = "users" => row.key \in Users
  /\ row.store = "relays" => row.key \in Relays /\ row.value \in {"bare", "info"}
  /\ row.store = "events" => row.key \in Events /\ row.value \in Relays \union {None}
  /\ row.store = "events_overwritten" =>
       row.key \in Events \intersect viewed /\ row.value \in Relays
  /\ row.store = "user_relays" =>
       row.key[1] \in Users /\ row.key[2] \in Relays /\ row.value \in Events
  /\ row.store = "event_relays" =>
       /\ row.key[1] \in Events /\ row.key[2] \in Relays
       /\ row.value \in {"seen", "verified"}
  /\ row.store = "metadata" =>
       row.key \in Users /\ row.value \in Metadata /\ Author[row.value] = row.key

\* What a row refers to is there when its turn comes.
RowReady(rows, row) ==
  /\ row.store = "events" =>
       /\ UserSoon(rows, row.at, Author[row.key])
       /\ row.value = None \/ RelaySoon(rows, row.at, row.value)
  /\ row.store = "tags" => EventSoon(rows, row.at, row.key[1])
  /\ row.store = "dag_edges" => EventSoon(rows, row.at, row.key[2])
  /\ row.store = "user_relays" =>
       /\ UserSoon(rows, row.at, row.key[1])
       /\ RelaySoon(rows, row.at, row.key[2])
       /\ EventSoon(rows, row.at, row.value)
  /\ row.store = "event_relays" =>
       /\ RelaySoon(rows, row.at, row.key[2])
       /\ row.value = "seen" => EventSoon(rows, row.at, row.key[1])
  /\ row.store = "metadata" => EventSoon(rows, row.at, row.value)

RowsOK(rows) == \A row \in rows : RowTyped(row) /\ RowReady(rows, row)

\* All rows of e are there, or among these.
Covered(rows, e) ==
  /\ e \in Stored \/ \E w \in rows : w.store = "events" /\ w.key = e
  /\ \A i \in DOMAIN Tags[e] :
       /\ <<e, i>> \in tags \/ \E w \in rows : w.store = "tags" /\ w.key = <<e, i>>
       /\ Tags[e][i][1] = "e" =>
            \/ <<Tags[e][i][2], e>> \in edges
            \/ \E w \in rows : w.store = "dag_edges" /\ w.key = <<Tags[e][i][2], e>>
       /\ Tags[e][i][1] = "r" =>
            \/ userRelays[Author[e]][Tags[e][i][2]] # None
            \/ \E w \in rows : w.store = "user_relays" /\ w.key = <<Author[e], Tags[e][i][2]>>

(***************************************************************************)
(* Calls are under way: their rows refer to what is there or comes before  *)
(* them, and a call that inserts an event still has the rows the event     *)
(* lacks.                                                                  *)
(***************************************************************************)
CallsInv ==
  /\ pending \in Seq(Events \union {None}) /\ Len(calls) = Len(pending)
  /\ \A i \in DOMAIN calls :
       /\ RowsOK(calls[i])
       /\ calls[i] # {} /\ pending[i] # None => Covered(calls[i], pending[i])

\* Only the event page takes raw_json from an event.
OnlyViewed == \A e \in Events : events[e] = "bare" => e \in viewed

\* Events that were inserted lack no row.
InsertedInv == inserted \subseteq Events /\ \A e \in inserted : Covered({}, e)

IsSequence(s) == \E S : s \in Seq(S)

IInv == ReferencesResolve /\ OnlyViewed /\ IsSequence(calls) /\ CallsInv /\ InsertedInv

-----------------------------------------------------------------------------
(***************************************************************************)
(* A row is put.                                                           *)
(***************************************************************************)

\* Rows are never deleted.
Grows ==
  /\ users \subseteq users' /\ tags \subseteq tags' /\ edges \subseteq edges'
  /\ \A e \in Events : events[e] # "absent" => events'[e] # "absent"
  /\ \A r \in Relays : relays[r] # "absent" => relays'[r] # "absent"
  /\ \A u \in Users, r \in Relays : userRelays[u][r] # None => userRelays'[u][r] # None

\* The row is there.
Written(row) ==
  /\ row.store = "users" => row.key \in users'
  /\ row.store = "relays" => relays'[row.key] # "absent"
  /\ row.store \in {"events", "events_overwritten"} => events'[row.key] # "absent"
  /\ row.store = "tags" => row.key \in tags'
  /\ row.store = "dag_edges" => row.key \in edges'
  /\ row.store = "user_relays" => userRelays'[row.key[1]][row.key[2]] # None

Good == StoresOK /\ References /\ OnlyViewed

LEMMA PutUserEffect ==
  ASSUME Good, UNCHANGED viewed, NEW row, RowTyped(row), row.store = "users", PutUser(row.key)
  PROVE  Good' /\ Grows /\ Written(row)
  BY DEF Good, StoresOK, References, OnlyViewed, Stored, RowTyped, PutUser, Grows, Written

LEMMA PutRelayEffect ==
  ASSUME Good, UNCHANGED viewed, NEW row, RowTyped(row), row.store = "relays",
         PutRelay(row.key, row.value)
  PROVE  Good' /\ Grows /\ Written(row)
  BY DEF Good, StoresOK, References, OnlyViewed, Stored, RowTyped, PutRelay, Grows, Written

LEMMA PutEventEffect ==
  ASSUME Good, UNCHANGED viewed, NEW row, RowTyped(row), RowReady({}, row),
         row.store = "events", PutEvent(row.key, row.value)
  PROVE  Good' /\ Grows /\ Written(row)
  <1> DEFINE k == row.key
  <1>1. /\ k \in Events /\ row.value \in Relays \union {None}
        /\ Author[k] \in users /\ (row.value = None \/ relays[row.value] # "absent")
    BY DEF RowTyped, RowReady, UserSoon, RelaySoon
  <1>2. /\ UNCHANGED <<users, tags, edges, relays, userRelays, eventRelays, pointer>>
        /\ \/ events[k] # "absent" /\ UNCHANGED <<events, source>>
           \/ /\ events[k] = "absent"
              /\ events' = [events EXCEPT ![k] = "raw"]
              /\ source' = [source EXCEPT ![k] = row.value]
    BY DEF PutEvent
  <1> HIDE DEF k
  <1>3. StoresOK'
    BY <1>1, <1>2 DEF Good, StoresOK
  <1>4. /\ events'[k] # "absent"
        /\ \/ events'[k] = "raw" /\ source'[k] = row.value
           \/ events'[k] = events[k] /\ source'[k] = source[k]
        /\ \A e \in Events \ {k} : events'[e] = events[e] /\ source'[e] = source[e]
    BY <1>1, <1>2 DEF Good, StoresOK
  <1>5. Stored \subseteq Stored'
    BY <1>4 DEF Stored
  <1>6. References' /\ OnlyViewed'
    BY <1>1, <1>2, <1>4, <1>5 DEF Good, References, OnlyViewed
  <1> QED BY <1>2, <1>3, <1>4, <1>6 DEF Good, Grows, Written, k

LEMMA OverwriteEventEffect ==
  ASSUME Good, UNCHANGED viewed, NEW row, RowTyped(row),
         row.store = "events_overwritten", OverwriteEvent(row.key, row.value)
  PROVE  Good' /\ Grows /\ Written(row)
  <1> DEFINE k == row.key
  <1>1. k \in Events /\ k \in viewed /\ row.value \in Relays
    BY DEF RowTyped
  <1>2. /\ UNCHANGED <<users, tags, edges, relays, userRelays, eventRelays, pointer>>
        /\ events' = [events EXCEPT ![k] = "bare"]
        /\ source' = [source EXCEPT ![k] = row.value]
    BY DEF OverwriteEvent
  <1> HIDE DEF k
  <1>3. StoresOK'
    BY <1>1, <1>2 DEF Good, StoresOK
  <1>4. /\ events'[k] = "bare"
        /\ \A e \in Events \ {k} : events'[e] = events[e] /\ source'[e] = source[e]
    BY <1>1, <1>2 DEF Good, StoresOK
  <1>5. Stored \subseteq Stored'
    BY <1>4 DEF Stored
  <1>6. References' /\ OnlyViewed'
    BY <1>1, <1>2, <1>4, <1>5 DEF Good, References, OnlyViewed
  <1> QED BY <1>2, <1>3, <1>4, <1>6 DEF Good, Grows, Written, k

LEMMA PutTagEffect ==
  ASSUME Good, UNCHANGED viewed, NEW row, RowReady({}, row), row.store = "tags", PutTag(row.key)
  PROVE  Good' /\ Grows /\ Written(row)
  BY DEF Good, StoresOK, References, OnlyViewed, Stored, RowReady, EventSoon, PutTag, Grows,
     Written

LEMMA PutEdgeEffect ==
  ASSUME Good, UNCHANGED viewed, NEW row, RowReady({}, row), row.store = "dag_edges",
         PutEdge(row.key)
  PROVE  Good' /\ Grows /\ Written(row)
  BY DEF Good, StoresOK, References, OnlyViewed, Stored, RowReady, EventSoon, PutEdge, Grows,
     Written

LEMMA PutUserRelayEffect ==
  ASSUME Good, UNCHANGED viewed, NEW row, RowTyped(row), RowReady({}, row),
         row.store = "user_relays", PutUserRelay(row.key, row.value)
  PROVE  Good' /\ Grows /\ Written(row)
  <1> DEFINE u == row.key[1]
             q == row.key[2]
  <1>1. /\ u \in users /\ u \in Users /\ q \in Relays /\ relays[q] # "absent"
        /\ row.value \in Stored /\ row.value \in Events /\ row.value # None
    BY EventDbAssumption DEF RowTyped, RowReady, UserSoon, RelaySoon, EventSoon
  <1>2. /\ UNCHANGED <<users, events, tags, edges, relays, eventRelays, source, pointer>>
        /\ userRelays' = [userRelays EXCEPT ![u][q] = row.value]
    BY DEF PutUserRelay
  <1> HIDE DEF u, q
  <1>3. userRelays \in [Users -> [Relays -> Events \union {None}]]
    BY DEF Good, StoresOK
  <1>4. /\ userRelays' \in [Users -> [Relays -> Events \union {None}]]
        /\ \A v \in Users, r \in Relays :
             userRelays'[v][r] = IF v = u /\ r = q THEN row.value ELSE userRelays[v][r]
    BY <1>1, <1>2, <1>3
  <1>5. Good'
    BY <1>1, <1>2, <1>4 DEF Good, StoresOK, References, OnlyViewed, Stored
  <1>6. Grows /\ userRelays'[u][q] # None
    BY <1>1, <1>2, <1>4 DEF Grows
  <1> QED BY <1>5, <1>6 DEF Written, u, q

LEMMA PutEventRelayEffect ==
  ASSUME Good, UNCHANGED viewed, NEW row, RowTyped(row), RowReady({}, row),
         row.store = "event_relays", PutEventRelay(row.key, row.value)
  PROVE  Good' /\ Grows /\ Written(row)
  <1> DEFINE k == row.key[1]
             q == row.key[2]
  <1>1. /\ k \in Events /\ q \in Relays /\ row.value \in {"seen", "verified"}
        /\ relays[q] # "absent" /\ (row.value = "seen" => k \in Stored)
    BY DEF RowTyped, RowReady, RelaySoon, EventSoon
  <1>2. /\ UNCHANGED <<users, events, tags, edges, relays, userRelays, source, pointer>>
        /\ eventRelays' = [eventRelays EXCEPT ![k][q] =
                             IF @ = "verified" THEN @ ELSE row.value]
    BY DEF PutEventRelay
  <1> HIDE DEF k, q
  <1>3. eventRelays \in [Events -> [Relays -> {"absent", "seen", "verified"}]]
    BY DEF Good, StoresOK
  <1>4. /\ eventRelays' \in [Events -> [Relays -> {"absent", "seen", "verified"}]]
        /\ \A e \in Events, r \in Relays :
             IF e = k /\ r = q THEN eventRelays'[e][r] \in {eventRelays[e][r], row.value}
                               ELSE eventRelays'[e][r] = eventRelays[e][r]
    BY <1>1, <1>2, <1>3
  <1>5. Good'
    BY <1>1, <1>2, <1>4 DEF Good, StoresOK, References, OnlyViewed, Stored
  <1> QED BY <1>2, <1>5 DEF Grows, Written

LEMMA PutMetadataEffect ==
  ASSUME Good, UNCHANGED viewed, NEW row, RowTyped(row), RowReady({}, row),
         row.store = "metadata", PutMetadata(row.key, row.value)
  PROVE  Good' /\ Grows /\ Written(row)
  BY EventDbAssumption DEF Good, StoresOK, References, OnlyViewed, Stored, RowTyped, RowReady,
     EventSoon, PutMetadata, Grows, Written

LEMMA PutEffect ==
  ASSUME Good, UNCHANGED viewed, NEW row, RowTyped(row), RowReady({}, row), Put(row)
  PROVE  Good' /\ Grows /\ Written(row)
  BY PutUserEffect, PutRelayEffect, PutEventEffect, OverwriteEventEffect, PutTagEffect,
     PutEdgeEffect, PutUserRelayEffect, PutEventRelayEffect, PutMetadataEffect DEF Put

-----------------------------------------------------------------------------
(***************************************************************************)
(* The calls that are under way.                                           *)
(***************************************************************************)

\* What is there or comes stays so when the rows grow, and when a row of
\* the call has been written.
LEMMA SoonKept ==
  ASSUME Good, Grows, NEW rows, NEW rest,
         \A w \in rows : w \in rest \/ (RowTyped(w) /\ Written(w)), NEW at
  PROVE  /\ \A u : UserSoon(rows, at, u) => UserSoon(rest, at, u)'
         /\ \A r \in Relays : RelaySoon(rows, at, r) => RelaySoon(rest, at, r)'
         /\ \A e \in Events : EventSoon(rows, at, e) => EventSoon(rest, at, e)'
  <1>1. \A u : UserSoon(rows, at, u) => UserSoon(rest, at, u)'
    BY DEF UserSoon, Grows, Written
  <1>2. \A r \in Relays : RelaySoon(rows, at, r) => RelaySoon(rest, at, r)'
    BY DEF RelaySoon, Grows, Written
  <1>3. \A e \in Events : EventSoon(rows, at, e) => EventSoon(rest, at, e)'
    BY DEF EventSoon, Stored, Grows, Written
  <1> QED BY <1>1, <1>2, <1>3

LEMMA RowsKept ==
  ASSUME Good, Good', Grows, viewed \subseteq viewed', NEW rows, RowsOK(rows),
         NEW rest, rest \subseteq rows, \A w \in rows : w \in rest \/ Written(w)
  PROVE  RowsOK(rest)'
  <1> SUFFICES ASSUME NEW row \in rest PROVE RowTyped(row)' /\ RowReady(rest, row)'
    BY DEF RowsOK
  <1>1. RowTyped(row) /\ RowReady(rows, row)
    BY DEF RowsOK
  <1>2. RowTyped(row)'
    BY <1>1 DEF RowTyped
  <1>3. /\ \A u : UserSoon(rows, row.at, u) => UserSoon(rest, row.at, u)'
        /\ \A r \in Relays : RelaySoon(rows, row.at, r) => RelaySoon(rest, row.at, r)'
        /\ \A e \in Events : EventSoon(rows, row.at, e) => EventSoon(rest, row.at, e)'
    BY SoonKept DEF RowsOK
  <1>4. \A e : EventSoon(rows, row.at, e) => EventSoon(rest, row.at, e)'
    <2>1. \A w \in rows : w.store \in {"events", "events_overwritten"} => w.key \in Events
      BY DEF RowsOK, RowTyped
    <2>2. \A e : EventSoon(rows, row.at, e) => e \in Events
      BY <2>1 DEF EventSoon, Stored
    <2> QED BY <1>3, <2>2
  <1>5. RowReady(rest, row)'
    BY <1>1, <1>3, <1>4, EventDbAssumption DEF RowReady, RowTyped
  <1> QED BY <1>2, <1>5

LEMMA CoveredKept ==
  ASSUME Good, Grows, NEW rows, NEW rest,
         \A w \in rows : w \in rest \/ Written(w), NEW e \in Events, Covered(rows, e)
  PROVE  Covered(rest, e)'
  <1>1. e \in Stored' \/ \E w \in rest : w.store = "events" /\ w.key = e
    BY DEF Covered, Stored, Grows, Written
  <1>2. ASSUME NEW i \in DOMAIN Tags[e]
        PROVE  <<e, i>> \in tags' \/ \E w \in rest : w.store = "tags" /\ w.key = <<e, i>>
    BY DEF Covered, Grows, Written
  <1>3. ASSUME NEW i \in DOMAIN Tags[e], Tags[e][i][1] = "e"
        PROVE  \/ <<Tags[e][i][2], e>> \in edges'
               \/ \E w \in rest : w.store = "dag_edges" /\ w.key = <<Tags[e][i][2], e>>
    <2> DEFINE edge == <<Tags[e][i][2], e>>
    <2>1. edge \in edges \/ \E w \in rows : w.store = "dag_edges" /\ w.key = edge
      BY <1>3 DEF Covered
    <2> HIDE DEF edge
    <2>2. edge \in edges' \/ \E w \in rest : w.store = "dag_edges" /\ w.key = edge
      BY <2>1 DEF Grows, Written
    <2> QED BY <2>2 DEF edge
  <1>4. ASSUME NEW i \in DOMAIN Tags[e], Tags[e][i][1] = "r"
        PROVE  \/ userRelays'[Author[e]][Tags[e][i][2]] # None
               \/ \E w \in rest : w.store = "user_relays" /\ w.key = <<Author[e], Tags[e][i][2]>>
    <2>1. Author[e] \in Users /\ Tags[e][i][2] \in Relays
      BY <1>4, EventDbAssumption
    <2>2. CASE userRelays[Author[e]][Tags[e][i][2]] # None
      BY <2>1, <2>2 DEF Grows
    <2>3. ASSUME NEW w \in rows, w.store = "user_relays", w.key = <<Author[e], Tags[e][i][2]>>
          PROVE  \/ w \in rest
                 \/ userRelays'[Author[e]][Tags[e][i][2]] # None
      <3>1. w.key[1] = Author[e] /\ w.key[2] = Tags[e][i][2]
        BY <2>3
      <3> QED BY <2>3, <3>1 DEF Written
    <2> QED BY <1>4, <2>2, <2>3 DEF Covered
  <1> QED BY <1>1, <1>2, <1>3, <1>4 DEF Covered

\* A sequence of anything, one element of which changes or is added.
LEMMA SequenceSteps ==
  ASSUME NEW s, IsSequence(s)
  PROVE  /\ Len(s) \in Nat /\ DOMAIN s = 1 .. Len(s)
         /\ \A x : /\ IsSequence(Append(s, x))
                   /\ Len(Append(s, x)) = Len(s) + 1
                   /\ Append(s, x)[Len(s) + 1] = x
                   /\ \A i \in 1 .. Len(s) : Append(s, x)[i] = s[i]
         /\ \A i \in DOMAIN s : \A x :
              /\ IsSequence([s EXCEPT ![i] = x])
              /\ Len([s EXCEPT ![i] = x]) = Len(s)
              /\ [s EXCEPT ![i] = x][i] = x
              /\ \A j \in DOMAIN s \ {i} : [s EXCEPT ![i] = x][j] = s[j]
  <1>1. PICK S : s \in Seq(S)
    BY DEF IsSequence
  <1>2. Len(s) \in Nat /\ DOMAIN s = 1 .. Len(s)
    BY <1>1
  <1>3. ASSUME NEW x
        PROVE  /\ IsSequence(Append(s, x)) /\ Len(Append(s, x)) = Len(s) + 1
               /\ Append(s, x)[Len(s) + 1] = x
               /\ \A i \in 1 .. Len(s) : Append(s, x)[i] = s[i]
    <2>1. s \in Seq(S \union {x})
      BY <1>1
    <2>2. Append(s, x) \in Seq(S \union {x})
      BY <2>1
    <2> QED BY <2>1, <2>2 DEF IsSequence
  <1>4. ASSUME NEW i \in DOMAIN s, NEW x
        PROVE  /\ IsSequence([s EXCEPT ![i] = x]) /\ Len([s EXCEPT ![i] = x]) = Len(s)
               /\ [s EXCEPT ![i] = x][i] = x
               /\ \A j \in DOMAIN s \ {i} : [s EXCEPT ![i] = x][j] = s[j]
    <2>1. s \in Seq(S \union {x})
      BY <1>1
    <2>2. /\ [s EXCEPT ![i] = x] \in Seq(S \union {x})
          /\ Len([s EXCEPT ![i] = x]) = Len(s)
      BY <2>1, ExceptSeq
    <2> QED BY <1>1, <2>2 DEF IsSequence
  <1> QED BY <1>2, <1>3, <1>4

-----------------------------------------------------------------------------
(***************************************************************************)
(* The steps.                                                              *)
(***************************************************************************)

\* The row whose turn it is has no row before it: what it refers to is there.
LEMMA TurnComes ==
  ASSUME NEW rows, RowsOK(rows), NEW row, NextRow(rows, row)
  PROVE  row \in rows /\ RowTyped(row) /\ RowReady({}, row)
  <1>1. row \in rows /\ RowTyped(row) /\ RowReady(rows, row)
    BY DEF NextRow, RowsOK
  <1>2. ASSUME NEW w \in rows PROVE ~(w.at < row.at)
    <2>1. row.at <= w.at /\ row.at \in Nat /\ w.at \in Nat
      BY DEF NextRow, RowsOK, RowTyped
    <2> QED BY <2>1
  <1> QED BY <1>1, <1>2 DEF RowReady, UserSoon, RelaySoon, EventSoon

LEMMA WriteRowInv == ASSUME IInv, NEW i \in DOMAIN calls, WriteRow(i) PROVE IInv'
  <1>1. PICK row \in calls[i] :
          /\ NextRow(calls[i], row) /\ Put(row)
          /\ calls' = [calls EXCEPT ![i] = @ \ {row}]
          /\ inserted' = IF calls[i] = {row} THEN inserted \union ({pending[i]} \ {None})
                                             ELSE inserted
          /\ UNCHANGED <<pending, viewed, closes>>
    BY DEF WriteRow
  <1>2. Good /\ RowsOK(calls[i]) /\ Len(calls) <= MaxCalls
    BY DEF IInv, Good, ReferencesResolve, TypeOK, CallsInv
  <1>3. RowTyped(row) /\ RowReady({}, row)
    BY <1>1, <1>2, TurnComes
  <1>4. Good' /\ Grows /\ Written(row)
    BY <1>1, <1>2, <1>3, PutEffect
  <1>5. /\ IsSequence(calls') /\ Len(calls') = Len(calls) /\ DOMAIN calls' = DOMAIN calls
        /\ calls'[i] = calls[i] \ {row}
        /\ \A j \in DOMAIN calls \ {i} : calls'[j] = calls[j]
    BY <1>1, SequenceSteps DEF IInv
  <1>6. ReferencesResolve'
    BY <1>1, <1>4, <1>5 DEF IInv, Good, ReferencesResolve, TypeOK
  <1>7. \A j \in DOMAIN calls :
          /\ calls'[j] \subseteq calls[j]
          /\ \A w \in calls[j] : w \in calls'[j] \/ Written(w)
    BY <1>4, <1>5
  <1>8. /\ \A j \in DOMAIN calls : pending[j] \in Events \union {None}
        /\ DOMAIN calls = DOMAIN pending
    BY DEF IInv, CallsInv, ReferencesResolve, TypeOK
  <1>9. ASSUME NEW j \in DOMAIN calls, calls[j] # {},
               NEW e, e = pending[j], e # None, NEW rest, rest = calls'[j]
        PROVE  e \in Events /\ Covered(rest, e)'
    <2>1. PICK rows : rows = calls[j]
      OBVIOUS
    <2>2. Covered(rows, e) /\ e \in Events
      BY <1>8, <1>9, <2>1 DEF IInv, CallsInv
    <2>3. \A w \in rows : w \in rest \/ Written(w)
      BY <1>7, <1>9, <2>1
    <2> QED BY <1>2, <1>4, <2>2, <2>3, CoveredKept
  <1>10. CallsInv'
    <2>1. ASSUME NEW j \in DOMAIN calls, NEW rest, rest = calls'[j] PROVE RowsOK(rest)'
      <3>1. PICK rows : rows = calls[j]
        OBVIOUS
      <3>2. RowsOK(rows)
        BY <3>1 DEF IInv, CallsInv
      <3>3. rest \subseteq rows /\ \A w \in rows : w \in rest \/ Written(w)
        BY <1>7, <2>1, <3>1
      <3> QED BY <1>1, <1>2, <1>4, <3>2, <3>3, RowsKept
    <2>2. ASSUME NEW j \in DOMAIN calls PROVE RowsOK(calls[j])'
      BY <2>1 DEF RowsOK
    <2>3. ASSUME NEW j \in DOMAIN calls, calls'[j] # {}, pending'[j] # None
          PROVE  Covered(calls[j], pending[j])'
      <3>1. PICK rest : rest = calls'[j]
        OBVIOUS
      <3>2. PICK e : e = pending[j]
        OBVIOUS
      <3>3. calls[j] # {} /\ e # None /\ pending'[j] = e
        BY <1>1, <1>7, <2>3, <3>2
      <3>4. Covered(rest, e)'
        BY <1>9, <3>1, <3>2, <3>3
      <3> QED BY <3>1, <3>3, <3>4
    <2>4. /\ pending' \in Seq(Events \union {None}) /\ Len(calls') = Len(pending')
          /\ DOMAIN calls' = DOMAIN calls
      BY <1>1, <1>5 DEF IInv, CallsInv
    <2> QED BY <2>2, <2>3, <2>4 DEF CallsInv
  <1>11. InsertedInv'
    <2>1. ASSUME NEW e \in inserted PROVE e \in Events /\ Covered({}, e)'
      BY <1>2, <1>4, CoveredKept DEF IInv, InsertedInv
    <2>2. ASSUME calls[i] = {row}, NEW e, e = pending[i], e # None
          PROVE  e \in Events /\ Covered({}, e)'
      <3>1. calls'[i] = {}
        BY <1>5, <2>2
      <3> QED BY <1>9, <2>2, <3>1
    <2>3. ASSUME NEW e \in inserted'
          PROVE  e \in inserted \/ (calls[i] = {row} /\ e # None /\ e = pending[i])
      BY <1>1
    <2>4. ASSUME NEW e \in inserted' PROVE e \in Events /\ Covered({}, e)'
      BY <2>1, <2>2, <2>3
    <2> QED BY <2>4 DEF InsertedInv
  <1> QED BY <1>4, <1>5, <1>6, <1>10, <1>11 DEF IInv, Good

-----------------------------------------------------------------------------
(***************************************************************************)
(* The rows of new calls.                                                  *)
(***************************************************************************)

\* All rows that come with a tag refer to the user and the event before them.
LEMMA TagRowsOK ==
  ASSUME NEW e \in Events, NEW i \in DOMAIN Tags[e], NEW rows, NEW r,
         Row(0, "users", Author[e], None) \in rows, Row(2, "events", e, r) \in rows,
         TagRows(e, i) \subseteq rows
  PROVE  \A row \in TagRows(e, i) : RowTyped(row) /\ RowReady(rows, row)
  <1> DEFINE name == Tags[e][i][1]
             value == Tags[e][i][2]
             tag == Row(3 * i, "tags", <<e, i>>, None)
             edge == Row(3 * i + 1, "dag_edges", <<value, e>>, None)
             relay == Row(3 * i + 1, "relays", value, "bare")
             listed == Row(3 * i + 2, "user_relays", <<Author[e], value>>, e)
  <1>1. i \in Nat /\ i >= 1 /\ Author[e] \in Users /\ (name = "r" => value \in Relays)
    BY EventDbAssumption
  <1>2. \A row \in TagRows(e, i) :
          row = tag \/ row = edge \/ (name = "r" /\ (row = relay \/ row = listed))
    BY DEF TagRows, UpsertRelay, UpsertUserRelay
  <1>3. name = "r" => relay \in rows
    BY DEF TagRows, UpsertRelay, UpsertUserRelay
  <1> HIDE DEF name, value
  <1>4. ASSUME NEW at \in Nat, at > 2
        PROVE  UserSoon(rows, at, Author[e]) /\ EventSoon(rows, at, e)
    <2>1. \E w \in rows : w.at = 0 /\ w.store = "users" /\ w.key = Author[e]
      BY DEF Row
    <2>2. \E w \in rows : w.at = 2 /\ w.store = "events" /\ w.key = e
      BY DEF Row
    <2>3. 0 < at /\ 2 < at
      BY <1>4
    <2> QED BY <2>1, <2>2, <2>3 DEF UserSoon, EventSoon
  <1>5. RowTyped(tag) /\ RowReady(rows, tag)
    BY <1>1, <1>4 DEF RowTyped, RowReady, Row
  <1>6. RowTyped(edge) /\ RowReady(rows, edge)
    BY <1>1, <1>4 DEF RowTyped, RowReady, Row
  <1>7. name = "r" => RowTyped(relay) /\ RowReady(rows, relay)
    BY <1>1 DEF RowTyped, RowReady, Row
  <1>8. ASSUME name = "r" PROVE RowTyped(listed) /\ RowReady(rows, listed)
    <2>1. RelaySoon(rows, 3 * i + 2, value)
      BY <1>1, <1>3, <1>8 DEF RelaySoon, Row
    <2> QED BY <1>1, <1>4, <1>8, <2>1 DEF RowTyped, RowReady, Row
  <1> QED BY <1>2, <1>5, <1>6, <1>7, <1>8

\* A call that hands over an event has all its rows in an order in which
\* each comes after those it refers to.
LEMMA UpsertEventOK ==
  ASSUME NEW e \in Events, NEW r \in Relays \union {None}, NEW rows,
         UpsertEvent(e, r) \subseteq rows
  PROVE  /\ \A row \in UpsertEvent(e, r) : RowTyped(row) /\ RowReady(rows, row)
         /\ Covered(rows, e)
         /\ AfterTags(e) \in Nat /\ AfterTags(e) > 2
         /\ Row(2, "events", e, r) \in rows
  <1> DEFINE user == Row(0, "users", Author[e], None)
             relay == Row(1, "relays", r, "bare")
             event == Row(2, "events", e, r)
             meta == Row(AfterTags(e), "metadata", Author[e], e)
  <1>1. /\ Author[e] \in Users
        /\ AfterTags(e) \in Nat /\ AfterTags(e) > 2
    BY EventDbAssumption DEF AfterTags
  <1>2. \A row \in UpsertEvent(e, r) :
          \/ row = user \/ (r # None /\ row = relay) \/ row = event
          \/ \E i \in DOMAIN Tags[e] : row \in TagRows(e, i)
          \/ e \in Metadata /\ row = meta
    BY DEF UpsertEvent, UpsertUser, UpsertRelay, SetUserMetadataEvent
  <1>3. user \in rows /\ event \in rows /\ (r # None => relay \in rows)
    BY DEF UpsertEvent, UpsertUser, UpsertRelay
  <1>4. ASSUME NEW i \in DOMAIN Tags[e] PROVE TagRows(e, i) \subseteq rows
    BY DEF UpsertEvent
  <1>5. RowTyped(user) /\ RowReady(rows, user)
    BY <1>1 DEF RowTyped, RowReady, Row
  <1>6. r # None => RowTyped(relay) /\ RowReady(rows, relay)
    BY DEF RowTyped, RowReady, Row
  <1>7. RowTyped(event) /\ RowReady(rows, event)
    <2>1. UserSoon(rows, 2, Author[e])
      BY <1>3 DEF UserSoon, Row
    <2>2. r # None => RelaySoon(rows, 2, r)
      BY <1>3 DEF RelaySoon, Row
    <2> QED BY <2>1, <2>2 DEF RowTyped, RowReady, Row
  <1>8. e \in Metadata => RowTyped(meta) /\ RowReady(rows, meta)
    <2>1. EventSoon(rows, AfterTags(e), e)
      BY <1>1, <1>3 DEF EventSoon, Row
    <2> QED BY <1>1, <2>1 DEF RowTyped, RowReady, Row
  <1>9. \A i \in DOMAIN Tags[e] : \A row \in TagRows(e, i) :
          RowTyped(row) /\ RowReady(rows, row)
    BY <1>3, <1>4, TagRowsOK
  <1>10. Covered(rows, e)
    <2>1. \E w \in rows : w.store = "events" /\ w.key = e
      BY <1>3 DEF Row
    <2>2. ASSUME NEW i \in DOMAIN Tags[e]
          PROVE  /\ \E w \in rows : w.store = "tags" /\ w.key = <<e, i>>
                 /\ Tags[e][i][1] = "e" =>
                      \E w \in rows : w.store = "dag_edges" /\ w.key = <<Tags[e][i][2], e>>
                 /\ Tags[e][i][1] = "r" =>
                      \E w \in rows : /\ w.store = "user_relays"
                                      /\ w.key = <<Author[e], Tags[e][i][2]>>
      BY <1>4 DEF TagRows, UpsertUserRelay, Row
    <2> QED BY <2>1, <2>2 DEF Covered
  <1> QED BY <1>1, <1>2, <1>3, <1>5, <1>6, <1>7, <1>8, <1>9, <1>10

\* The row of an event on a relay comes after the row of the relay, and for
\* an event seen there after the row of the event.
LEMMA UpsertEventRelayOK ==
  ASSUME NEW at \in Nat, NEW e \in Events, NEW r \in Relays, NEW state \in {"seen", "verified"},
         NEW rows, UpsertEventRelay(at, e, r, state) \subseteq rows,
         state = "seen" => EventSoon(rows, at + 1, e)
  PROVE  \A row \in UpsertEventRelay(at, e, r, state) : RowTyped(row) /\ RowReady(rows, row)
  <1> DEFINE relay == Row(at, "relays", r, "bare")
             link == Row(at + 1, "event_relays", <<e, r>>, state)
  <1>1. UpsertEventRelay(at, e, r, state) = {relay, link}
    BY DEF UpsertEventRelay, UpsertRelay
  <1>2. relay \in rows
    BY <1>1
  <1>3. RowTyped(relay) /\ RowReady(rows, relay)
    BY DEF RowTyped, RowReady, Row
  <1>4. RelaySoon(rows, at + 1, r)
    BY <1>2 DEF RelaySoon, Row
  <1>5. RowTyped(link) /\ RowReady(rows, link)
    BY <1>4 DEF RowTyped, RowReady, Row
  <1> QED BY <1>1, <1>3, <1>5

-----------------------------------------------------------------------------
(***************************************************************************)
(* The other steps.                                                        *)
(***************************************************************************)

\* A call whose rows are in order joins those that are under way.
LEMMA CallInv ==
  ASSUME IInv, NEW rows, NEW e \in Events \union {None}, Call(rows, e),
         viewed \subseteq viewed', RowsOK(rows)', e # None => Covered(rows, e)
  PROVE  IInv'
  <1>1. /\ Len(calls) < MaxCalls
        /\ calls' = Append(calls, rows) /\ pending' = Append(pending, e)
        /\ UNCHANGED <<users, events, tags, edges, relays, userRelays, eventRelays, source,
                       pointer, inserted, closes>>
    BY DEF Call, db
  <1>2. /\ IsSequence(calls) /\ Len(calls) \in Nat /\ DOMAIN calls = 1 .. Len(calls)
        /\ IsSequence(calls') /\ Len(calls') = Len(calls) + 1
        /\ DOMAIN calls' = 1 .. Len(calls')
        /\ calls'[Len(calls) + 1] = rows
        /\ \A j \in DOMAIN calls : calls'[j] = calls[j]
    <2>1. IsSequence(calls)
      BY DEF IInv
    <2> QED BY <1>1, <2>1, SequenceSteps
  <1>3. /\ pending' \in Seq(Events \union {None}) /\ Len(calls') = Len(pending')
        /\ pending'[Len(calls) + 1] = e
        /\ \A j \in DOMAIN calls : pending'[j] = pending[j]
    BY <1>1, <1>2 DEF IInv, CallsInv
  <1>4. DOMAIN calls' = DOMAIN calls \union {Len(calls) + 1}
    BY <1>2
  <1>5. Good /\ Good' /\ Grows
    BY <1>1 DEF IInv, ReferencesResolve, TypeOK, Good, StoresOK, References, OnlyViewed,
       Stored, Grows
  <1>6. ReferencesResolve'
    <2>1. Len(calls') <= MaxCalls
      BY <1>1, <1>2, EventDbAssumption
    <2>2. DOMAIN calls' = DOMAIN pending'
      BY <1>2, <1>3
    <2> QED BY <1>5, <2>1, <2>2 DEF Good, ReferencesResolve, TypeOK
  <1>7. ASSUME NEW j \in DOMAIN calls' PROVE RowsOK(calls[j])'
    <2>1. CASE j = Len(calls) + 1
      BY <1>2, <2>1 DEF RowsOK
    <2>2. CASE j \in DOMAIN calls
      <3>1. PICK rest : rest = calls[j]
        OBVIOUS
      <3>2. RowsOK(rest)
        BY <2>2, <3>1 DEF IInv, CallsInv
      <3>3. RowsOK(rest)'
        BY <1>5, <3>2, RowsKept
      <3> QED BY <1>2, <2>2, <3>1, <3>3 DEF RowsOK
    <2> QED BY <1>4, <2>1, <2>2
  <1>8. ASSUME NEW j \in DOMAIN calls', calls'[j] # {}, pending'[j] # None
        PROVE  Covered(calls[j], pending[j])'
    <2>1. PICK rest : rest = calls'[j]
      OBVIOUS
    <2>2. PICK f : f = pending'[j]
      OBVIOUS
    <2>3. Covered(rest, f)
      <3>1. CASE j = Len(calls) + 1
        BY <1>2, <1>3, <1>8, <2>1, <2>2, <3>1
      <3>2. CASE j \in DOMAIN calls
        BY <1>2, <1>3, <1>8, <2>1, <2>2, <3>2 DEF IInv, CallsInv
      <3> QED BY <1>4, <3>1, <3>2
    <2>4. Covered(rest, f)'
      BY <1>1, <2>3 DEF Covered, Stored
    <2> QED BY <2>1, <2>2, <2>4
  <1>9. CallsInv'
    BY <1>3, <1>7, <1>8 DEF CallsInv
  <1>10. InsertedInv'
    BY <1>1 DEF IInv, InsertedInv, Covered, Stored
  <1> QED BY <1>2, <1>5, <1>6, <1>9, <1>10 DEF IInv, Good

\* Rows that are in order stay so when nothing is written.
LEMMA RowsOKAfter ==
  ASSUME IInv, UNCHANGED <<db, viewed>>, NEW rows, RowsOK(rows)
  PROVE  RowsOK(rows)'
  BY DEF db, RowsOK, RowTyped, RowReady, UserSoon, RelaySoon, EventSoon, Stored

LEMMA StoreFromRelayInv ==
  ASSUME IInv, NEW e \in Events, StoreFromRelay(e) PROVE IInv'
  <1> DEFINE rows == UpsertEvent(e, None)
  <1>1. Call(rows, e) /\ UNCHANGED <<db, viewed>>
    BY DEF StoreFromRelay, Call
  <1>2. RowsOK(rows) /\ Covered(rows, e)
    BY UpsertEventOK DEF RowsOK
  <1> HIDE DEF rows
  <1>3. RowsOK(rows)'
    BY <1>1, <1>2, RowsOKAfter
  <1> QED BY <1>1, <1>2, <1>3, CallInv

\* The same for each relay of a list, two places after the other.
LEMMA UpsertEventRelaysOK ==
  ASSUME NEW at \in Nat, NEW e \in Events, NEW on \in Seq(Relays),
         NEW rows, UpsertEventRelays(at, e, on) \subseteq rows,
         \A later \in Nat : later > at => EventSoon(rows, later, e)
  PROVE  \A row \in UpsertEventRelays(at, e, on) : RowTyped(row) /\ RowReady(rows, row)
  <1>1. ASSUME NEW i \in DOMAIN on
        PROVE  \A row \in UpsertEventRelay(at + 2 * i, e, on[i], "seen") :
                 RowTyped(row) /\ RowReady(rows, row)
    <2>1. /\ on[i] \in Relays /\ at + 2 * i \in Nat
          /\ (at + 2 * i) + 1 \in Nat /\ (at + 2 * i) + 1 > at
      OBVIOUS
    <2>2. UpsertEventRelay(at + 2 * i, e, on[i], "seen") \subseteq rows
      BY DEF UpsertEventRelays
    <2> QED BY <2>1, <2>2, UpsertEventRelayOK
  <1> QED BY <1>1 DEF UpsertEventRelays

LEMMA StoreFromLibp2pInv ==
  ASSUME IInv, NEW e \in Events, NEW hints \in RelayLists, StoreFromLibp2p(e, hints)
  PROVE  IInv'
  <1> DEFINE r == First(hints)
             seen == UpsertEventRelays(AfterTags(e), e, hints)
             rows == UpsertEvent(e, r) \union seen
  <1>1. Call(rows, e) /\ UNCHANGED <<db, viewed>>
    BY DEF StoreFromLibp2p, Call
  <1>2. hints \in Seq(Relays) /\ r \in Relays \union {None}
    BY EventDbAssumption DEF First
  <1> HIDE DEF r
  <1>3. /\ \A row \in UpsertEvent(e, r) : RowTyped(row) /\ RowReady(rows, row)
        /\ Covered(rows, e)
        /\ AfterTags(e) \in Nat /\ AfterTags(e) > 2
        /\ Row(2, "events", e, r) \in rows
    BY <1>2, UpsertEventOK
  <1>4. \A later \in Nat : later > AfterTags(e) => EventSoon(rows, later, e)
    BY <1>3 DEF EventSoon, Row
  <1>5. \A row \in seen : RowTyped(row) /\ RowReady(rows, row)
    BY <1>2, <1>3, <1>4, UpsertEventRelaysOK
  <1>6. RowsOK(rows)
    BY <1>3, <1>5 DEF RowsOK
  <1> HIDE DEF rows
  <1>7. RowsOK(rows)'
    BY <1>1, <1>6, RowsOKAfter
  <1> QED BY <1>1, <1>3, <1>7, CallInv

LEMMA StoreVerifiedInv ==
  ASSUME IInv, NEW e \in Events, NEW r \in Relays, StoreVerified(e, r) PROVE IInv'
  <1> DEFINE rows == UpsertEventRelay(0, e, r, "verified")
  <1>1. Call(rows, None) /\ UNCHANGED <<db, viewed>>
    BY DEF StoreVerified, Call
  <1>2. RowsOK(rows)
    BY UpsertEventRelayOK DEF RowsOK
  <1> HIDE DEF rows
  <1>3. RowsOK(rows)'
    BY <1>1, <1>2, RowsOKAfter
  <1> QED BY <1>1, <1>3, CallInv

\* The event the event page asks for is viewed from this call on.
LEMMA CacheEventInv ==
  ASSUME IInv, NEW e \in Events, NEW found \in RelayLists, CacheEvent(e, found)
  PROVE  IInv'
  <1> DEFINE cached == Row(0, "events_overwritten", e, First(found))
             seen == UpsertEventRelays(0, e, found)
             rows == {cached} \union seen
  <1>1. Call(rows, None) /\ viewed' = viewed \union {e} /\ found # <<>>
    BY DEF CacheEvent
  <1>2. found \in Seq(Relays) /\ First(found) \in Relays
    BY <1>1, EventDbAssumption DEF First
  <1>3. RowTyped(cached)' /\ RowReady(rows, cached)'
    BY <1>1, <1>2 DEF RowTyped, RowReady, Row
  <1>4. \A later \in Nat : later > 0 => EventSoon(rows, later, e)
    <2>1. /\ cached \in rows /\ cached.at = 0 /\ cached.key = e
          /\ cached.store = "events_overwritten"
      BY DEF Row
    <2> HIDE DEF cached, rows
    <2> QED BY <2>1 DEF EventSoon
  <1>5. \A row \in seen : RowTyped(row) /\ RowReady(rows, row)
    BY <1>2, <1>4, UpsertEventRelaysOK
  <1>6. \A row \in seen : RowTyped(row)' /\ RowReady(rows, row)'
    <2>1. UNCHANGED db
      BY <1>1 DEF Call
    <2>2. \A row \in seen : RowReady(rows, row)'
      BY <1>5, <2>1 DEF db, RowReady, UserSoon, RelaySoon, EventSoon, Stored
    <2>3. \A row \in seen : RowTyped(row)'
      BY <1>1, <1>5 DEF RowTyped
    <2> QED BY <2>2, <2>3
  <1>7. RowsOK(rows)'
    BY <1>3, <1>6 DEF RowsOK
  <1> QED BY <1>1, <1>7, CallInv

LEMMA StoreRelayInfoInv ==
  ASSUME IInv, NEW r \in Relays, StoreRelayInfo(r) PROVE IInv'
  <1> DEFINE rows == SetRelayInfo(0, r)
  <1>1. Call(rows, None) /\ UNCHANGED viewed
    BY DEF StoreRelayInfo
  <1>2. RowsOK(rows)'
    BY DEF RowsOK, SetRelayInfo, Row, RowTyped, RowReady
  <1> HIDE DEF rows
  <1> QED BY <1>1, <1>2, CallInv

\* Calls that are cut off owe nothing.
LEMMA CutOffInv ==
  ASSUME IInv, UNCHANGED <<db, pending, inserted, viewed>>, IsSequence(calls'),
         Len(calls') = Len(calls), DOMAIN calls' = DOMAIN calls,
         \A i \in DOMAIN calls : calls'[i] = calls[i] \/ calls'[i] = {}
  PROVE  IInv'
  <1>1. ReferencesResolve' /\ OnlyViewed' /\ InsertedInv'
    BY DEF db, IInv, ReferencesResolve, TypeOK, StoresOK, References, Stored, OnlyViewed,
       InsertedInv, Covered
  <1>2. ASSUME NEW i \in DOMAIN calls PROVE RowsOK(calls[i])'
    <2>1. PICK rows : rows = calls'[i]
      OBVIOUS
    <2>2. RowsOK(rows)
      BY <2>1 DEF IInv, CallsInv, RowsOK
    <2>3. RowsOK(rows)'
      BY <2>2, RowsOKAfter
    <2> QED BY <2>1, <2>3
  <1>3. ASSUME NEW i \in DOMAIN calls, calls'[i] # {}, pending'[i] # None
        PROVE  Covered(calls[i], pending[i])'
    <2>1. PICK rows : rows = calls[i]
      OBVIOUS
    <2>2. PICK e : e = pending[i]
      OBVIOUS
    <2>3. Covered(rows, e)
      BY <1>3, <2>1, <2>2 DEF IInv, CallsInv
    <2>4. Covered(rows, e)' /\ rows = calls'[i] /\ e = pending'[i]
      BY <1>3, <2>1, <2>2, <2>3 DEF db, Covered, Stored
    <2> QED BY <2>4
  <1>4. CallsInv'
    BY <1>2, <1>3 DEF IInv, CallsInv
  <1> QED BY <1>1, <1>4 DEF IInv

LEMMA RowFailsInv == ASSUME IInv, NEW i \in DOMAIN calls, RowFails(i) PROVE IInv'
  <1>1. calls' = [calls EXCEPT ![i] = {}] /\ UNCHANGED <<db, pending, inserted, viewed>>
    BY DEF RowFails
  <1>2. /\ IsSequence(calls') /\ Len(calls') = Len(calls) /\ DOMAIN calls' = DOMAIN calls
        /\ \A j \in DOMAIN calls : calls'[j] = calls[j] \/ calls'[j] = {}
    BY <1>1, SequenceSteps DEF IInv
  <1> QED BY <1>1, <1>2, CutOffInv

LEMMA PageClosesInv == ASSUME IInv, PageCloses PROVE IInv'
  <1>1. /\ calls' = [i \in DOMAIN calls |-> {}]
        /\ UNCHANGED <<db, pending, inserted, viewed>>
    BY DEF PageCloses
  <1>2. Len(calls) \in Nat /\ DOMAIN calls = 1 .. Len(calls)
    BY SequenceSteps DEF IInv
  <1>3. calls' \in Seq({{}}) /\ Len(calls') = Len(calls)
    BY <1>1, <1>2
  <1>4. IsSequence(calls')
    BY <1>3 DEF IsSequence
  <1>5. DOMAIN calls' = DOMAIN calls /\ \A i \in DOMAIN calls : calls'[i] = {}
    BY <1>1
  <1> QED BY <1>1, <1>3, <1>4, <1>5, CutOffInv

LEMMA InitInv == Init => IInv
  <1> SUFFICES ASSUME Init PROVE IInv
    OBVIOUS
  <1>1. ReferencesResolve
    <2>1. StoresOK
      BY DEF Init, StoresOK
    <2>2. References
      BY DEF Init, References, Stored
    <2>3. DOMAIN calls = DOMAIN pending /\ Len(calls) <= MaxCalls
      BY EventDbAssumption DEF Init
    <2> QED BY <2>1, <2>2, <2>3 DEF ReferencesResolve, TypeOK
  <1>2. OnlyViewed
    BY DEF Init, OnlyViewed
  <1>3. calls \in Seq({}) /\ pending \in Seq(Events \union {None}) /\ DOMAIN calls = {}
        /\ Len(calls) = Len(pending)
    BY DEF Init
  <1>4. IsSequence(calls) /\ CallsInv
    BY <1>3 DEF IsSequence, CallsInv
  <1>5. InsertedInv
    BY DEF Init, InsertedInv
  <1> QED BY <1>1, <1>2, <1>4, <1>5 DEF IInv

LEMMA NextInv == ASSUME IInv, [Next]_vars PROVE IInv'
  <1>1. CASE Next
    BY <1>1, StoreFromRelayInv, StoreFromLibp2pInv, StoreVerifiedInv, CacheEventInv,
       StoreRelayInfoInv, WriteRowInv, RowFailsInv, PageClosesInv DEF Next
  <1>2. CASE UNCHANGED vars
    BY <1>2, CutOffInv DEF vars, IInv
  <1> QED BY <1>1, <1>2

\* The invariant that carries the references.
THEOREM Invariance == Spec => []IInv
  <1>1. IInv /\ [Next]_vars => IInv'
    BY NextInv
  <1> QED BY InitInv, <1>1, PTL DEF Spec

\* No row refers to a row that is missing, whichever calls are under way,
\* wherever one was cut off by a row that failed or by the page that closed:
\* every call of dag-db.mjs writes a row after those it refers to, and rows
\* are never deleted.
THEOREM ReferencesAlwaysResolve == Spec => []ReferencesResolve
  <1>1. IInv => ReferencesResolve
    BY DEF IInv
  <1> QED BY Invariance, <1>1, PTL

\* An event that upsertEvent has finished has every one of its rows, also
\* when the row of the event was there before: no call skips the rows of the
\* tags because of it, and no row is lost to a call that overtakes.
THEOREM NoRowLost == Spec => []InsertedIsComplete
  <1>1. IInv => InsertedIsComplete
    <2> SUFFICES ASSUME IInv, NEW e \in inserted
                 PROVE  /\ events[e] = "raw" \/ e \in viewed
                        /\ \A i \in DOMAIN Tags[e] :
                             /\ <<e, i>> \in tags
                             /\ Tags[e][i][1] = "e" => <<Tags[e][i][2], e>> \in edges
                             /\ Tags[e][i][1] = "r" =>
                                  userRelays[Author[e]][Tags[e][i][2]] # None
      BY DEF InsertedIsComplete
    <2>1. e \in Events /\ Covered({}, e)
      BY DEF IInv, InsertedInv
    <2>2. events[e] = "raw" \/ e \in viewed
      BY <2>1 DEF IInv, ReferencesResolve, TypeOK, StoresOK, OnlyViewed, Covered, Stored
    <2> QED BY <2>1, <2>2 DEF Covered
  <1> QED BY Invariance, <1>1, PTL

=============================================================================
