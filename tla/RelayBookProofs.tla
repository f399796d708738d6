-------------------------- MODULE RelayBookProofs ---------------------------
(***************************************************************************)
(* The safety properties of RelayBook, for any set of relays and any       *)
(* number of loops and events. Requests and loops keep each other right,   *)
(* so what is said of them is one inductive invariant; discovery is        *)
(* another one.                                                            *)
(***************************************************************************)
EXTENDS RelayBook, TLAPS

Loops == [left : SUBSET Relays, on : Relays \union {Nobody}]
Requests == [relay : Relays, by : DOMAIN loops, at : {"nip11", "ping", "save"}]

RequestInv == TypeOK /\ OneRequestPerRelay /\ NobodyWaitsInVain
IInv == RequestInv /\ DiscoveredOnce

\* The first relay of a set is one of the set, so a loop awaits a relay of the
\* set or nobody.
LEMMA LoopType ==
  ASSUME TypeOK, NEW S \in SUBSET Relays, S # {}
  PROVE  /\ First(S) \in S
         /\ Awaits(S) \in Relays \union {Nobody}
         /\ Loop(S) \in Loops
         /\ Loop(S).on = Awaits(S)
  <1>1. First(S) \in S
    BY RankAssumption DEF First
  <1>2. Awaits(S) \in Relays \union {Nobody}
    BY <1>1 DEF Awaits
  <1> QED BY <1>1, <1>2 DEF Loop, Loops

-----------------------------------------------------------------------------
\* Opening a request for a loop leaves the requests in order, and the relay
\* that the loop awaits among them.
LEMMA OpenRequestKeeps ==
  ASSUME RequestInv, NEW S \in SUBSET Relays, S # {}, NEW i, OpenRequest(S, i)
  PROVE  /\ OneRequestPerRelay'
         /\ requests \subseteq requests'
         /\ Awaits(S) # Nobody => \E q \in requests' : q.relay = Awaits(S)
         /\ \A q \in requests' \ requests :
              q \in [relay : Relays, by : {i}, at : {"nip11", "ping", "save"}]
  <1> DEFINE r == Awaits(S)
             new == [relay |-> r, by |-> i, at |-> FirstStage(r)]
  <1>1. r \in Relays \union {Nobody}
    BY LoopType DEF RequestInv
  <1>2. CASE r = Nobody \/ r \in inFlight
    <2>1. UNCHANGED <<requests, inFlight>>
      BY <1>2 DEF OpenRequest
    <2> QED BY <1>2, <2>1 DEF RequestInv, OneRequestPerRelay
  <1>3. CASE r # Nobody /\ r \notin inFlight
    <2>1. requests' = requests \union {new} /\ inFlight' = inFlight \union {r}
      BY <1>3 DEF OpenRequest
    <2>2. new.relay = r
          /\ new \in [relay : Relays, by : {i}, at : {"nip11", "ping", "save"}]
      BY <1>1, <1>3 DEF FirstStage
    <2>3. \A q \in requests : q.relay # r
      BY <1>3 DEF RequestInv, OneRequestPerRelay
    <2>4. OneRequestPerRelay'
      BY <2>1, <2>2, <2>3 DEF RequestInv, OneRequestPerRelay
    <2> QED BY <2>1, <2>2, <2>4
  <1> QED BY <1>2, <1>3

\* An event that names relays adds a loop, which awaits a request under way.
LEMMA RefreshKeeps ==
  ASSUME RequestInv, NEW S \in SUBSET Relays, S # {}, RefreshRelayInfo(S),
         queue' \subseteq Relays, discovered' \subseteq Relays,
         subscribed' \in [Relays -> Nat], running' \in BOOLEAN
  PROVE  RequestInv'
  <1> USE DEF RequestInv
  <1>1. /\ loops' = Append(loops, Loop(S))
        /\ OpenRequest(S, Len(loops) + 1)
        /\ named' = named \union S /\ info' = info /\ failed' = failed
    BY DEF RefreshRelayInfo
  <1>2. loops \in Seq(Loops) /\ Loop(S) \in Loops /\ Loop(S).on = Awaits(S)
    BY LoopType DEF TypeOK, Loops
  <1>3. /\ loops' \in Seq(Loops)
        /\ DOMAIN loops' = (DOMAIN loops) \union {Len(loops) + 1}
        /\ \A i \in DOMAIN loops : loops'[i] = loops[i]
        /\ loops'[Len(loops) + 1] = Loop(S)
    BY <1>1, <1>2
  <1>4. OneRequestPerRelay' /\ NobodyWaitsInVain'
    BY <1>1, <1>2, <1>3, OpenRequestKeeps DEF NobodyWaitsInVain
  <1>5. requests' \subseteq Requests'
    <2> SUFFICES ASSUME NEW q \in requests' PROVE q \in Requests'
      OBVIOUS
    <2>1. CASE q \in requests
      BY <1>3, <2>1 DEF TypeOK, Requests
    <2>2. CASE q \notin requests
      <3>1. q \in [relay : Relays, by : {Len(loops) + 1},
                    at : {"nip11", "ping", "save"}]
        BY <1>1, <2>2, OpenRequestKeeps
      <3> QED BY <1>3, <3>1 DEF Requests
    <2> QED BY <2>1, <2>2
  <1>6. TypeOK'
    BY <1>1, <1>3, <1>5 DEF TypeOK, Loops, Requests
  <1> QED BY <1>4, <1>6

\* A loop that goes on with its next relay.
LEMMA NextRelayKeeps ==
  ASSUME RequestInv, NEW i \in DOMAIN loops, NextRelay(i)
  PROVE  RequestInv'
  <1> USE DEF RequestInv
  <1> DEFINE S == loops[i].left
  <1>1. /\ S # {}
        /\ loops' = [loops EXCEPT ![i] = Loop(S)]
        /\ OpenRequest(S, i)
        /\ info' = info /\ failed' = failed /\ named' = named
        /\ UNCHANGED discoveryVars
    BY DEF NextRelay
  <1>2. loops \in Seq(Loops) /\ S \in SUBSET Relays
    <2>1. loops \in Seq(Loops)
      BY DEF TypeOK, Loops
    <2>2. loops[i] \in Loops
      BY <2>1
    <2> QED BY <2>1, <2>2 DEF Loops
  <1> HIDE DEF S
  <1>3. Loop(S) \in Loops /\ Loop(S).on = Awaits(S)
    BY <1>1, <1>2, LoopType
  <1>4. /\ loops' \in Seq(Loops) /\ DOMAIN loops' = DOMAIN loops
        /\ loops'[i] = Loop(S)
        /\ \A k \in (DOMAIN loops) \ {i} : loops'[k] = loops[k]
    BY <1>1, <1>2, <1>3
  <1>5. OneRequestPerRelay' /\ NobodyWaitsInVain'
    BY <1>1, <1>2, <1>3, <1>4, OpenRequestKeeps DEF NobodyWaitsInVain
  <1>6. requests' \subseteq Requests'
    <2> SUFFICES ASSUME NEW q \in requests' PROVE q \in Requests'
      OBVIOUS
    <2>1. CASE q \in requests
      BY <1>4, <2>1 DEF TypeOK, Requests
    <2>2. CASE q \notin requests
      <3>1. q \in [relay : Relays, by : {i}, at : {"nip11", "ping", "save"}]
        BY <1>1, <1>2, <2>2, OpenRequestKeeps
      <3> QED BY <1>4, <3>1 DEF Requests
    <2> QED BY <2>1, <2>2
  <1>7. TypeOK'
    BY <1>1, <1>4, <1>6 DEF TypeOK, Loops, Requests, discoveryVars
  <1> QED BY <1>5, <1>7

-----------------------------------------------------------------------------
\* A request that settles takes its entry with it, and no loop is left that
\* awaits its relay.
LEMMA SettleKeeps ==
  ASSUME RequestInv, NEW q \in requests, NEW resumed,
         \A i \in DOMAIN loops : resumed[i] \in Loops /\ resumed[i].on = Nobody,
         Settle(q, resumed)
  PROVE  /\ OneRequestPerRelay' /\ NobodyWaitsInVain'
         /\ loops' \in Seq(Loops) /\ requests' \subseteq Requests'
  <1> USE DEF RequestInv
  <1>1. /\ requests' = requests \ {q} /\ inFlight' = inFlight \ {q.relay}
        /\ loops' = [i \in DOMAIN loops |->
                       IF loops[i].on = q.relay THEN resumed[i] ELSE loops[i]]
    BY DEF Settle
  <1>2. loops \in Seq(Loops)
    BY DEF TypeOK, Loops
  <1>3. DOMAIN loops = 1 .. Len(loops) /\ Len(loops) \in Nat
    BY <1>2
  <1>4. \A i \in DOMAIN loops : loops'[i] \in Loops
    BY <1>1, <1>2
  <1>5. loops' \in Seq(Loops) /\ DOMAIN loops' = DOMAIN loops
    BY <1>1, <1>3, <1>4
  <1>6. OneRequestPerRelay'
    BY <1>1 DEF OneRequestPerRelay
  <1>7. NobodyWaitsInVain'
    BY <1>1, <1>5 DEF NobodyWaitsInVain
  <1>8. requests' \subseteq Requests'
    BY <1>1, <1>5 DEF TypeOK, Requests
  <1> QED BY <1>5, <1>6, <1>7, <1>8

\* Both ways in which the loops that await a request go on.
LEMMA ResumedType ==
  ASSUME TypeOK, NEW i \in DOMAIN loops
  PROVE  /\ Resumed[i] \in Loops /\ Resumed[i].on = Nobody
         /\ Aborted[i] \in Loops /\ Aborted[i].on = Nobody
  <1>1. loops \in Seq(Loops)
    BY DEF TypeOK, Loops
  <1>2. loops[i] \in Loops
    BY <1>1
  <1> QED BY <1>2 DEF Loops, Resumed, Aborted

\* A request that goes on to another stage is still the request of its relay.
LEMMA GoesToKeeps ==
  ASSUME RequestInv, NEW q \in requests, NEW stage \in {"nip11", "ping", "save"},
         GoesTo(q, stage), UNCHANGED <<inFlight, loops>>
  PROVE  /\ OneRequestPerRelay' /\ NobodyWaitsInVain'
         /\ requests' \subseteq Requests'
  <1> USE DEF RequestInv
  <1> DEFINE next == [q EXCEPT !.at = stage]
  <1>1. requests' = (requests \ {q}) \union {next}
    BY DEF GoesTo
  <1>2. q \in Requests
    BY DEF TypeOK, Requests
  <1>3. next.relay = q.relay /\ next \in Requests
    BY <1>2 DEF Requests
  <1> HIDE DEF next
  <1>4. OneRequestPerRelay'
    BY <1>1, <1>3 DEF OneRequestPerRelay
  <1>5. NobodyWaitsInVain'
    BY <1>1, <1>3 DEF NobodyWaitsInVain
  <1>6. requests' \subseteq Requests'
    BY <1>1, <1>3 DEF TypeOK, Requests
  <1> QED BY <1>4, <1>5, <1>6

\* Every step of a request.
LEMMA RequestStepKeeps ==
  ASSUME RequestInv, NEW q \in requests, RequestStep(q)
  PROVE  RequestInv'
  <1> USE DEF RequestInv
  <1>1. CASE Nip11Arrives(q)
    <2>1. OneRequestPerRelay' /\ NobodyWaitsInVain' /\ requests' \subseteq Requests'
      BY <1>1, GoesToKeeps DEF Nip11Arrives
    <2>2. TypeOK'
      BY <1>1, <2>1 DEF Nip11Arrives, TypeOK, Requests, discoveryVars
    <2> QED BY <2>1, <2>2
  <1>2. ASSUME NEW value \in {"known", "measured"}, PingArrives(q, value)
        PROVE  RequestInv'
    <2>1. /\ OneRequestPerRelay' /\ NobodyWaitsInVain'
          /\ requests' \subseteq Requests' /\ loops' \in Seq(Loops)
      <3>1. CASE Settle(q, Resumed)
        BY <3>1, SettleKeeps, ResumedType
      <3>2. CASE GoesTo(q, "save") /\ UNCHANGED <<inFlight, loops>>
        BY <3>2, GoesToKeeps DEF TypeOK, Loops
      <3> QED BY <1>2, <3>1, <3>2 DEF PingArrives
    <2>2. TypeOK'
      BY <1>2, <2>1 DEF PingArrives, TypeOK, Loops, Requests, discoveryVars
    <2> QED BY <2>1, <2>2
  <1>3. CASE RecordSaved(q)
    <2>1. /\ OneRequestPerRelay' /\ NobodyWaitsInVain'
          /\ requests' \subseteq Requests' /\ loops' \in Seq(Loops)
      BY <1>3, SettleKeeps, ResumedType DEF RecordSaved
    <2>2. TypeOK'
      BY <1>3, <2>1 DEF RecordSaved, TypeOK, Loops, Requests, discoveryVars
    <2> QED BY <2>1, <2>2
  <1>4. CASE Nip11Fails(q)
    <2>1. /\ OneRequestPerRelay' /\ NobodyWaitsInVain'
          /\ requests' \subseteq Requests' /\ loops' \in Seq(Loops)
      BY <1>4, SettleKeeps, ResumedType DEF Nip11Fails
    <2>2. q.relay \in Relays
      BY DEF TypeOK
    <2>3. TypeOK'
      BY <1>4, <2>1, <2>2 DEF Nip11Fails, TypeOK, Loops, Requests, discoveryVars
    <2> QED BY <2>1, <2>3
  <1> QED BY <1>1, <1>2, <1>3, <1>4 DEF RequestStep

-----------------------------------------------------------------------------
\* Taking a batch subscribes to relays that have not been subscribed to.
LEMMA SubscribeKeeps ==
  ASSUME TypeOK, DiscoveredOnce,
         NEW batch \in SUBSET Relays, batch \intersect discovered = {},
         SubscribeTo(batch)
  PROVE  /\ DiscoveredOnce'
         /\ queue' \subseteq Relays /\ discovered' \subseteq Relays
         /\ subscribed' \in [Relays -> Nat] /\ running' \in BOOLEAN
  BY DEF TypeOK, DiscoveredOnce, SubscribeTo

\* What an event names is queued or subscribed to, once.
LEMMA ScheduleKeeps ==
  ASSUME TypeOK, DiscoveredOnce, NEW urls \in SUBSET Relays,
         ScheduleRelayDiscovery(urls)
  PROVE  /\ DiscoveredOnce'
         /\ queue' \subseteq Relays /\ discovered' \subseteq Relays
         /\ subscribed' \in [Relays -> Nat] /\ running' \in BOOLEAN
  <1> DEFINE added == urls \ (discovered \union queue)
  <1>1. CASE UNCHANGED discoveryVars
    BY <1>1 DEF TypeOK, DiscoveredOnce, discoveryVars
  <1>2. CASE /\ running /\ queue' = queue \union added
             /\ UNCHANGED <<discovered, running, subscribed>>
    BY <1>2 DEF TypeOK, DiscoveredOnce
  <1>3. CASE SubscribeTo(queue \union added)
    <2>1. queue \union added \in SUBSET Relays
      BY DEF TypeOK
    <2>2. (queue \union added) \intersect discovered = {}
      BY DEF DiscoveredOnce
    <2> QED BY <1>3, <2>1, <2>2, SubscribeKeeps
  <1> QED BY <1>1, <1>2, <1>3 DEF ScheduleRelayDiscovery

-----------------------------------------------------------------------------
LEMMA InitIInv == Init => IInv
  <1> SUFFICES ASSUME Init PROVE IInv
    OBVIOUS
  <1> DEFINE r == First(Defaults)
  <1>1. Defaults \in SUBSET Relays /\ r \in Defaults
    BY DefaultsAssumption, RankAssumption DEF First
  <1>2. Awaits(Defaults) \in {r, Nobody}
    BY DEF Awaits
  <1>3. r \in Relays /\ r # Nobody
    BY <1>1, DefaultsAssumption
  <1> HIDE DEF r
  <1>4. Loop(Defaults) \in Loops /\ Loop(Defaults).on = Awaits(Defaults)
    BY <1>1, <1>2, <1>3 DEF Loop, Loops
  <1>5. loops \in Seq(Loops) /\ DOMAIN loops = 1 .. 2
    BY <1>4 DEF Init
  <1>6. requests \subseteq Requests
    BY <1>2, <1>3, <1>5 DEF Init, Requests, FirstStage
  <1>7. TypeOK
    BY <1>1, <1>5, <1>6 DEF Init, TypeOK, Loops, Requests
  <1>8. /\ \A q \in requests : q.relay \in inFlight
        /\ \A a \in inFlight : a = Awaits(Defaults) /\ \E q \in requests : q.relay = a
        /\ \A p, q \in requests : p.relay = q.relay => p = q
    <2>1. requests = {[relay |-> a, by |-> 1, at |-> FirstStage(a)] : a \in inFlight}
      BY DEF Init
    <2>2. \A a \in inFlight : a = Awaits(Defaults)
      BY DEF Init
    <2>3. \A q \in requests : q.relay \in inFlight
      BY <2>1
    <2>4. ASSUME NEW a \in inFlight PROVE \E q \in requests : q.relay = a
      <3>1. [relay |-> a, by |-> 1, at |-> FirstStage(a)] \in requests
        BY <2>1
      <3> QED BY <3>1
    <2>5. \A p, q \in requests : p.relay = q.relay => p = q
      BY <2>1
    <2> QED BY <2>2, <2>3, <2>4, <2>5
  <1>9. OneRequestPerRelay
    <2>1. \A a : a \in inFlight <=> a \in {q.relay : q \in requests}
      BY <1>8
    <2> QED BY <1>8, <2>1 DEF OneRequestPerRelay
  <1>11. NobodyWaitsInVain
    <2>1. \A i \in DOMAIN loops : loops[i].on = Awaits(Defaults)
      BY <1>4, <1>5 DEF Init
    <2>2. Awaits(Defaults) # Nobody => Awaits(Defaults) \in inFlight
      BY DEF Init
    <2> QED BY <1>8, <2>1, <2>2 DEF NobodyWaitsInVain
  <1>10. DiscoveredOnce
    BY DEF Init, DiscoveredOnce
  <1> QED BY <1>7, <1>9, <1>10, <1>11 DEF IInv, RequestInv

LEMMA NextIInv == IInv /\ [Next]_vars => IInv'
  <1> SUFFICES ASSUME IInv, [Next]_vars PROVE IInv'
    OBVIOUS
  <1>0. RequestInv /\ TypeOK /\ DiscoveredOnce
    BY DEF IInv, RequestInv
  <1>1. ASSUME NEW urls \in (SUBSET Relays) \ {{}}, RecordRelayInfo(urls)
        PROVE  IInv'
    <2>1. ScheduleRelayDiscovery(urls) /\ RefreshRelayInfo(urls)
      BY <1>1 DEF RecordRelayInfo
    <2> QED BY <1>0, <1>1, <2>1, ScheduleKeeps, RefreshKeeps DEF IInv
  <1>2. ASSUME NEW i \in DOMAIN loops, NextRelay(i)
        PROVE  IInv'
    <2>1. DiscoveredOnce'
      BY <1>0, <1>2 DEF NextRelay, discoveryVars, DiscoveredOnce
    <2> QED BY <1>0, <1>2, <2>1, NextRelayKeeps DEF IInv
  <1>3. ASSUME NEW q \in requests, RequestStep(q)
        PROVE  IInv'
    <2>1. UNCHANGED discoveryVars
      BY <1>3 DEF RequestStep, Nip11Arrives, PingArrives, RecordSaved, Nip11Fails
    <2>2. DiscoveredOnce'
      BY <1>0, <2>1 DEF discoveryVars, DiscoveredOnce
    <2> QED BY <1>0, <1>3, <2>2, RequestStepKeeps DEF IInv
  <1>4. CASE DiscoveryResumes
    <2>1. /\ DiscoveredOnce'
          /\ queue' \subseteq Relays /\ discovered' \subseteq Relays
          /\ subscribed' \in [Relays -> Nat] /\ running' \in BOOLEAN
      <3>1. CASE SubscribeTo(queue)
        BY <1>0, <3>1, SubscribeKeeps DEF TypeOK, DiscoveredOnce
      <3>2. CASE queue = {} /\ running' = FALSE
                 /\ UNCHANGED <<queue, discovered, subscribed>>
        BY <1>0, <3>2 DEF TypeOK, DiscoveredOnce
      <3> QED BY <1>4, <3>1, <3>2 DEF DiscoveryResumes
    <2>2. UNCHANGED <<requestVars, loops, named>>
      BY <1>4 DEF DiscoveryResumes
    <2>3. RequestInv'
      BY <1>0, <2>1, <2>2 DEF requestVars, RequestInv, TypeOK,
         OneRequestPerRelay, NobodyWaitsInVain
    <2> QED BY <2>1, <2>3 DEF IInv
  <1>5. CASE UNCHANGED vars
    BY <1>0, <1>5 DEF vars, requestVars, discoveryVars, IInv, RequestInv, TypeOK,
       OneRequestPerRelay, NobodyWaitsInVain, DiscoveredOnce
  <1> QED BY <1>1, <1>2, <1>3, <1>4, <1>5 DEF Next

\* The inductive invariant holds in every reachable state.
LEMMA Invariance == Spec => []IInv
  BY InitIInv, NextIInv, PTL DEF Spec

\* The catalogue, the requests and the loops keep their types.
THEOREM TypeCorrect == Spec => []TypeOK
  <1>1. IInv => TypeOK
    BY DEF IInv, RequestInv
  <1> QED BY Invariance, <1>1, PTL

\* No relay is ever asked by two requests at once, relayInfoInFlight is never
\* left with a request that is over (the finally block of fetchRelayInfo), and
\* however many loops share a request, each of them is resumed when it ends.
THEOREM RequestsShared == Spec => []RequestsAccounted
  <1>1. IInv => RequestsAccounted
    BY DEF IInv, RequestInv, RequestsAccounted
  <1> QED BY Invariance, <1>1, PTL

\* The discovery worker subscribes to no relay twice and stops with an empty
\* queue, whenever relays are named.
THEOREM DiscoveryExact == Spec => []DiscoveredOnce
  <1>1. IInv => DiscoveredOnce
    BY DEF IInv
  <1> QED BY Invariance, <1>1, PTL
=============================================================================
