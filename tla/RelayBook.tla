----------------------------- MODULE RelayBook ------------------------------
(***************************************************************************)
(* How a bridge page gets to know relays (demo/shared/bridge-page.mjs and  *)
(* relays-list.mjs): events it reads name relays; every relay named is     *)
(* subscribed to once, in search of more, and asked for its NIP-11         *)
(* document and a ping, one after the other in loops that share requests.  *)
(*                                                                         *)
(* An action runs from one await to the next.  A loop that awaits a request *)
(* goes on, or is aborted, in the step in which the request settles.       *)
(***************************************************************************)
EXTENDS Naturals, Sequences

CONSTANTS
  Relays,
  Rank,        \* Rank[r]: the place of r in the order of prioritizeRelayUrls
  Defaults,    \* DEFAULT_RELAYS
  Nobody,      \* a loop that awaits no request
  MaxNews      \* bound: events read that name relays

\* Any relays, taken together, have a first one.
ASSUME RankAssumption ==
  \A S \in (SUBSET Relays) \ {{}} : \E r \in S : \A s \in S : Rank[r] <= Rank[s]

ASSUME DefaultsAssumption ==
  /\ Defaults \subseteq Relays /\ Defaults # {}
  /\ Nobody \notin Relays

VARIABLES
  info,        \* info[r]: "none", "known" without a ping, or "measured"
  requests,    \* requests under way: the relay, the loop, the next answer
  inFlight,    \* keys of relayInfoInFlight
  loops,       \* loops[i]: the relays left, and the one it awaits
  named,       \* history: relays some loop was to refresh
  failed,      \* history: relays whose request failed
  queue, discovered, running,   \* relayDiscoveryQueue, -Seen and -Running
  subscribed,  \* subscribed[r]: subscriptions discovery has opened
  news         \* events read

requestVars == <<info, requests, inFlight, failed>>
discoveryVars == <<queue, discovered, running, subscribed>>
vars == <<requestVars, loops, named, discoveryVars, news>>

-----------------------------------------------------------------------------
(* refreshRelayInfo and fetchRelayInfo. *)

First(S) == CHOOSE r \in S : \A s \in S : Rank[r] <= Rank[s]

\* A loop over urls has called fetchRelayInfo for its first relay: a record
\* with a ping is returned at once, anything else is awaited.
Awaits(urls) == IF info[First(urls)] = "measured" THEN Nobody ELSE First(urls)
Loop(urls) == [left |-> urls \ {First(urls)}, on |-> Awaits(urls)]

\* A relay that has a document is only pinged.
FirstStage(r) == IF info[r] = "known" THEN "ping" ELSE "nip11"

\* The request of a relay that is being asked already is shared.
OpenRequest(urls, i) ==
  LET r == Awaits(urls)
  IN  IF r = Nobody \/ r \in inFlight
      THEN UNCHANGED <<requests, inFlight>>
      ELSE /\ requests' = requests \union
                {[relay |-> r, by |-> i, at |-> FirstStage(r)]}
           /\ inFlight' = inFlight \union {r}

\* One loop more, run up to its first await.
RefreshRelayInfo(urls) ==
  /\ loops' = Append(loops, Loop(urls))
  /\ OpenRequest(urls, Len(loops) + 1)
  /\ named' = named \union urls
  /\ UNCHANGED <<info, failed>>

\* A loop continues with its next relay.
NextRelay(i) ==
  /\ loops[i].on = Nobody /\ loops[i].left # {}
  /\ loops' = [loops EXCEPT ![i] = Loop(loops[i].left)]
  /\ OpenRequest(loops[i].left, i)
  /\ UNCHANGED <<info, failed, named, discoveryVars, news>>

GoesTo(q, stage) == requests' = (requests \ {q}) \union {[q EXCEPT !.at = stage]}

\* A document arrives from the proxy or from the relay; the ping comes next.
Nip11Arrives(q) ==
  /\ q.at = "nip11"
  /\ GoesTo(q, "ping")
  /\ UNCHANGED <<info, inFlight, failed, loops, named, discoveryVars, news>>

\* A plausible bug: only the loop that opened the request is resumed.
SettleOpener(q, resumed) ==
  /\ requests' = requests \ {q}
  /\ inFlight' = inFlight \ {q.relay}
  /\ loops' = [loops EXCEPT ![q.by] = resumed[q.by]]

\* The finally block, and every loop that awaits the request resumes.
Settle(q, resumed) ==
  /\ requests' = requests \ {q}
  /\ inFlight' = inFlight \ {q.relay}
  /\ loops' = [i \in DOMAIN loops |->
                 IF loops[i].on = q.relay THEN resumed[i] ELSE loops[i]]

Resumed == [i \in DOMAIN loops |-> [loops[i] EXCEPT !.on = Nobody]]

\* A plausible bug: a relay without a ping is entered as something no reader
\* of the catalogue knows.
PingArrivesRaw(q, value) ==
  /\ q.at = "ping"
  /\ info' = [info EXCEPT ![q.relay] =
                IF value = "known" THEN "unreachable" ELSE value]
  /\ GoesTo(q, "save")
  /\ UNCHANGED <<inFlight, loops, failed, named, discoveryVars, news>>

\* The ping is measured or times out, and the record is entered. Only a
\* relay that had a document and is unreachable again is not saved.
PingArrives(q, value) ==
  /\ q.at = "ping"
  /\ info' = [info EXCEPT ![q.relay] = value]
  /\ IF info[q.relay] = "known" /\ value = "known"
     THEN Settle(q, Resumed)
     ELSE GoesTo(q, "save") /\ UNCHANGED <<inFlight, loops>>
  /\ UNCHANGED <<failed, named, discoveryVars, news>>

\* What a rejected request does to the loops that await it.
Aborted == [i \in DOMAIN loops |-> [left |-> {}, on |-> Nobody]]

\* A plausible bug: an error of the database is not caught.
RecordSavedOrNot(q) ==
  /\ q.at = "save"
  /\ \E resumed \in {Resumed, Aborted} : Settle(q, resumed)
  /\ UNCHANGED <<info, failed, named, discoveryVars, news>>

\* IndexedDB has the record, or refuses it: either way the request is over.
RecordSaved(q) ==
  /\ q.at = "save"
  /\ Settle(q, Resumed)
  /\ UNCHANGED <<info, failed, named, discoveryVars, news>>

\* Neither address answers. The handler of that error names a variable of an
\* inner block (lastError), so it throws itself: there is no record of the
\* error, and the loops that await the request end with it.
Nip11Fails(q) ==
  /\ q.at = "nip11"
  /\ Settle(q, Aborted)
  /\ failed' = failed \union {q.relay}
  /\ UNCHANGED <<info, named, discoveryVars, news>>

-----------------------------------------------------------------------------
(* scheduleRelayDiscovery and processRelayDiscoveryQueue. *)

SubscribeTo(batch) ==
  /\ discovered' = discovered \union batch
  /\ subscribed' = [r \in Relays |->
                      IF r \in batch THEN subscribed[r] + 1 ELSE subscribed[r]]
  /\ queue' = {}
  /\ running' = TRUE

\* A plausible bug: what is named while the worker runs is not queued.
ScheduleRelayDiscoveryIdle(urls) ==
  LET added == urls \ (discovered \union queue)
  IN  IF added = {} \/ running
      THEN UNCHANGED discoveryVars
      ELSE SubscribeTo(queue \union added)

\* New relays are queued; unless the worker is suspended in a yield, it takes
\* the whole queue at once.
ScheduleRelayDiscovery(urls) ==
  LET added == urls \ (discovered \union queue)
  IN  IF added = {}
      THEN UNCHANGED discoveryVars
      ELSE IF running
           THEN queue' = queue \union added /\ UNCHANGED <<discovered, running, subscribed>>
           ELSE SubscribeTo(queue \union added)

\* A plausible bug: the worker takes one batch and stops.
DiscoveryStops ==
  /\ running
  /\ running' = FALSE
  /\ UNCHANGED <<queue, discovered, subscribed, requestVars, loops, named, news>>

\* The worker comes back from its yield.
DiscoveryResumes ==
  /\ running
  /\ IF queue # {}
     THEN SubscribeTo(queue)
     ELSE running' = FALSE /\ UNCHANGED <<queue, discovered, subscribed>>
  /\ UNCHANGED <<requestVars, loops, named, news>>

-----------------------------------------------------------------------------

\* recordRelayInfo: an event names relays. Starting the bridge names the
\* relays known by then in the same way.
RecordRelayInfo(urls) ==
  /\ news < MaxNews
  /\ news' = news + 1
  /\ \E r \in Relays : subscribed[r] > 0
  /\ ScheduleRelayDiscovery(urls)
  /\ RefreshRelayInfo(urls)

\* bootBridge has restored what was known of the relays, subscribed to the
\* default relays, and begun to refresh them, twice.
Init ==
  /\ info \in [Relays -> {"none", "known", "measured"}]
  /\ loops = [i \in 1..2 |-> Loop(Defaults)]
  /\ inFlight = {Awaits(Defaults)} \ {Nobody}
  /\ requests = {[relay |-> r, by |-> 1, at |-> FirstStage(r)] : r \in inFlight}
  /\ named = Defaults /\ failed = {}
  /\ queue = {} /\ discovered = Defaults /\ running = TRUE
  /\ subscribed = [r \in Relays |-> IF r \in Defaults THEN 1 ELSE 0]
  /\ news = 0

RequestStep(q) ==
  \/ Nip11Arrives(q)
  \/ \E value \in {"known", "measured"} : PingArrives(q, value)
  \/ RecordSaved(q)
  \/ Nip11Fails(q)

Next ==
  \/ \E urls \in (SUBSET Relays) \ {{}} : RecordRelayInfo(urls)
  \/ \E i \in DOMAIN loops : NextRelay(i)
  \/ \E q \in requests : RequestStep(q)
  \/ DiscoveryResumes

\* A ping has a time limit and the browser ends a request that hangs; yields
\* are timers. Nothing says that events arrive.
Fairness ==
  /\ WF_vars(\E i \in DOMAIN loops : NextRelay(i))
  /\ WF_vars(\E q \in requests : RequestStep(q))
  /\ WF_vars(DiscoveryResumes)

Spec == Init /\ [][Next]_vars /\ Fairness

-----------------------------------------------------------------------------
(* Properties. *)

TypeOK ==
  /\ info \in [Relays -> {"none", "known", "measured"}]
  /\ requests \subseteq [relay : Relays, by : DOMAIN loops,
                         at : {"nip11", "ping", "save"}]
  /\ loops \in Seq([left : SUBSET Relays, on : Relays \union {Nobody}])
  /\ named \subseteq Relays /\ failed \subseteq Relays
  /\ queue \subseteq Relays /\ discovered \subseteq Relays
  /\ subscribed \in [Relays -> Nat] /\ running \in BOOLEAN

\* A relay is asked by one request at a time, whichever loops want it, and
\* relayInfoInFlight knows exactly the requests under way: one that is left
\* behind would be handed to every later caller.
OneRequestPerRelay ==
  /\ \A p, q \in requests : p.relay = q.relay => p = q
  /\ inFlight = {q.relay : q \in requests}

\* No loop waits for a request that is over.
NobodyWaitsInVain ==
  \A i \in DOMAIN loops : loops[i].on # Nobody =>
    \E q \in requests : q.relay = loops[i].on

\* Requests are shared without being lost: one per relay, which every loop
\* that waits for the relay can see.
RequestsAccounted == OneRequestPerRelay /\ NobodyWaitsInVain

\* Discovery subscribes to a relay at most once, and no relay stays in the
\* queue after the worker has stopped.
DiscoveredOnce ==
  /\ \A r \in Relays : subscribed[r] = IF r \in discovered THEN 1 ELSE 0
  /\ queue \intersect discovered = {}
  /\ queue # {} => running

\* Every relay that was named is described in the end, unless the request of
\* that relay or of one before it in the order fails: a failure ends the loops
\* that wait for it, and with them the refresh of relays that would answer.
NamedAreDescribed ==
  \A r \in Relays :
    r \in named ~> \/ info[r] # "none"
                   \/ \E f \in failed : Rank[f] <= Rank[r]

\* Every relay that was named is subscribed to.
NamedAreDiscovered == \A r \in Relays : r \in named ~> subscribed[r] > 0
=============================================================================
