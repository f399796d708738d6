--------------------------- MODULE FederationProofs ---------------------------
(***************************************************************************)
(* Theorems about Federation, for any set of daemons, users' events and    *)
(* acks, and every interleaving of messages, fetches, refusals and crashes.*)
(***************************************************************************)
EXTENDS FederationDags, FiniteSetTheorems, TLAPS

ParentClosed(S) == \A e \in S : parents[e] \subseteq S

(***************************************************************************)
(* Signed events: an event is signed on published ones, and its ancestors  *)
(* are the smallest set that contains it and all their parents.            *)
(***************************************************************************)
EventInv ==
  /\ IsFiniteSet(signed)
  /\ \A e \in Ids : parents[e] \subseteq published
  /\ \A e \in Ids \ signed : parents[e] = {}
  /\ \A e \in signed :
       /\ e \in ancestors[e]
       /\ ancestors[e] \subseteq signed
       /\ ParentClosed(ancestors[e])
       /\ \A S \in SUBSET Ids : e \in S /\ ParentClosed(S) => ancestors[e] \subseteq S

\* Acks are numbered in the order they are signed, and signed before they sleep.
AckInv ==
  \A d \in Daemons :
     /\ scheduled[d] \subseteq signed
     /\ \A n \in 1..MaxAcks : <<d, n>> \in signed => n <= made[d]

\* Relays forget acks or nothing.
RelayInv == stored = IF AcksStored THEN published ELSE published \ Acks

\* e is something daemon d subscribes to, or descended from by such an event.
Wanted(d, e) ==
  \/ e \in Subscribed
  \/ \E f \in received[d] \cap Subscribed : e \in ancestors[f]

(***************************************************************************)
(* A daemon deals with published events only, and with those it subscribes *)
(* to and their ancestors only; a process that is down has no state.       *)
(***************************************************************************)
DaemonInv ==
  \A d \in Daemons :
     /\ received[d] \cup incoming[d] \cup fetching[d] \subseteq published
     /\ \A e \in received[d] \cup incoming[d] \cup fetching[d] : Wanted(d, e)
     /\ ~up[d] => received[d] = {} /\ incoming[d] = {} /\ fetching[d] = {}

(***************************************************************************)
(* The acks of a daemon's present life are paid for by the chat messages   *)
(* it has inserted in this life, and those of each earlier life by at most *)
(* all chat messages there are.                                            *)
(***************************************************************************)
ChatsSigned == Cardinality(signed \cap ChatMessages)
ChatsReceived(d) == Cardinality(received[d] \cap ChatMessages)

BudgetInv ==
  \A d \in Daemons : made[d] <= ChatsSigned * crashes + ChatsReceived(d)

IInv == TypeOK /\ EventInv /\ AckInv /\ RelayInv /\ DaemonInv /\ BudgetInv

(***************************************************************************)
(* Nothing a running daemon must learn is out of its reach, but for what   *)
(* the limit of its subscription left out: published events it subscribes  *)
(* to are in its Dag or on their way, and so are the parents of what is in *)
(* its Dag, or they are about to be fetched.                               *)
(***************************************************************************)
DeliveryInv ==
  /\ MaxCrashes = 0 => \A d \in Daemons : up[d]
  /\ \A d \in Daemons : up[d] =>
       published \cap Subscribed \subseteq received[d] \cup incoming[d] \cup missed[d]
  /\ \A d \in Daemons : \A e \in received[d] :
       parents[e] \subseteq received[d] \cup incoming[d] \cup fetching[d] \cup missed[d]

(***************************************************************************)
(* What agreement needs of the relays: acks are stored, or no daemon ever  *)
(* misses one; and fetches come back, or there is nothing to fetch because *)
(* users' clients name nothing a daemon does not subscribe to.             *)
(***************************************************************************)
RelaysKeepEnough ==
  /\ AcksStored \/ MaxCrashes = 0
  /\ ~FetchMayFail \/ OtherEvents = {}

-----------------------------------------------------------------------------
(***************************************************************************)
(* Signing.                                                                *)
(***************************************************************************)

\* Signing a new event on published ones keeps what is known of all events,
\* and changes no other event.
LEMMA SignKeeps ==
  ASSUME TypeOK, EventInv, NEW e \in Ids \ signed, NEW ps \in SUBSET published,
         Sign(e, ps), published \subseteq published'
  PROVE  /\ EventInv'
         /\ signed' = signed \cup {e}
         /\ parents' \in [Ids -> SUBSET Ids] /\ ancestors' \in [Ids -> SUBSET Ids]
         /\ \A f \in signed : ancestors'[f] = ancestors[f]
         /\ \A f \in signed : parents'[f] = parents[f]
<1> DEFINE up_ps == UNION {ancestors[p] : p \in ps}
<1>1. /\ signed' = signed \cup {e}
      /\ parents' = [parents EXCEPT ![e] = ps]
      /\ ancestors' = [ancestors EXCEPT ![e] = {e} \cup up_ps]
  BY DEF Sign
<1>2. /\ ps \subseteq signed /\ signed \subseteq Ids /\ e \in Ids /\ e \notin signed
      /\ parents \in [Ids -> SUBSET Ids] /\ ancestors \in [Ids -> SUBSET Ids]
  BY DEF TypeOK
<1>3. up_ps \subseteq signed
  BY <1>2 DEF EventInv
<1> HIDE DEF up_ps
<1>4. /\ \A f \in signed : ancestors'[f] = ancestors[f] /\ parents'[f] = parents[f]
      /\ ancestors'[e] = {e} \cup up_ps /\ parents'[e] = ps
      /\ parents' \in [Ids -> SUBSET Ids] /\ ancestors' \in [Ids -> SUBSET Ids]
  BY <1>1, <1>2, <1>3
<1>5. IsFiniteSet(signed')
  BY <1>1, FS_AddElement DEF EventInv
<1>6. \A f \in Ids : parents'[f] \subseteq published'
  BY <1>1, <1>2 DEF EventInv
<1>7. \A f \in Ids \ signed' : parents'[f] = {}
  BY <1>1, <1>2 DEF EventInv
<1>8. \A S \in SUBSET Ids : ParentClosed(S)' => ParentClosed(S)
  BY <1>1, <1>2 DEF ParentClosed, EventInv
<1>9. \A S \in SUBSET signed : ParentClosed(S) => ParentClosed(S)'
  BY <1>4 DEF ParentClosed
<1>10. ASSUME NEW f \in signed
       PROVE  /\ f \in ancestors'[f] /\ ancestors'[f] \subseteq signed'
              /\ ParentClosed(ancestors[f])'
              /\ \A S \in SUBSET Ids : f \in S /\ ParentClosed(S)' => ancestors'[f] \subseteq S
  <2>1. /\ f \in ancestors[f] /\ ancestors[f] \subseteq signed /\ ParentClosed(ancestors[f])
        /\ \A S \in SUBSET Ids : f \in S /\ ParentClosed(S) => ancestors[f] \subseteq S
    BY DEF EventInv
  <2>2. ParentClosed(ancestors[f])'
    BY <1>4, <2>1 DEF ParentClosed
  <2> QED BY <1>1, <1>4, <1>8, <2>1, <2>2
<1>11. /\ e \in ancestors'[e] /\ ancestors'[e] \subseteq signed'
       /\ ParentClosed(ancestors[e])'
       /\ \A S \in SUBSET Ids : e \in S /\ ParentClosed(S)' => ancestors'[e] \subseteq S
  <2>1. \A p \in ps : p \in ancestors[p] /\ ParentClosed(ancestors[p])
    BY <1>2 DEF EventInv
  <2>2. \A x \in up_ps : parents'[x] \subseteq up_ps
    BY <1>3, <1>4, <2>1 DEF ParentClosed, up_ps
  <2>3. ps \subseteq up_ps
    BY <2>1 DEF up_ps
  <2>4. ParentClosed(ancestors[e])'
    BY <1>4, <2>2, <2>3 DEF ParentClosed
  <2>5. ASSUME NEW S \in SUBSET Ids, e \in S, ParentClosed(S)'
        PROVE  up_ps \subseteq S
    <3>1. ps \subseteq S /\ ParentClosed(S)
      BY <1>4, <1>8, <2>5 DEF ParentClosed
    <3>2. \A p \in ps : ancestors[p] \subseteq S
      BY <1>2, <3>1 DEF EventInv
    <3> QED BY <3>2 DEF up_ps
  <2>6. \A S \in SUBSET Ids : e \in S /\ ParentClosed(S)' => ancestors'[e] \subseteq S
    BY <1>4, <2>5
  <2> QED BY <1>1, <1>3, <1>4, <2>4, <2>6
<1>12. EventInv'
  BY <1>1, <1>5, <1>6, <1>7, <1>10, <1>11 DEF EventInv
<1> QED BY <1>1, <1>4, <1>12

\* Where nothing is signed, publishing more keeps what is known of the events.
LEMMA UnsignedKeeps ==
  ASSUME EventInv, UNCHANGED eventVars, published \subseteq published'
  PROVE  EventInv'
BY DEF EventInv, eventVars, ParentClosed

\* A step signs at most new events: those that are signed stay what they are.
Grows ==
  /\ signed \subseteq signed'
  /\ published \subseteq published'
  /\ \A e \in signed : ancestors'[e] = ancestors[e] /\ parents'[e] = parents[e]

LEMMA EventsGrow == ASSUME UNCHANGED eventVars, published \subseteq published' PROVE Grows
BY DEF Grows, eventVars

LEMMA FreshAck ==
  ASSUME TypeOK, AckInv, NEW d \in Daemons, made[d] < MaxAcks
  PROVE  /\ made[d] + 1 \in 1..MaxAcks
         /\ <<d, made[d] + 1>> \in Acks /\ <<d, made[d] + 1>> \in Ids \ signed
         /\ <<d, made[d] + 1>> \notin ChatMessages
<1>1. made[d] \in 0..MaxAcks /\ made[d] + 1 \in 1..MaxAcks
  BY FederationAssumption DEF TypeOK
<1>2. <<d, made[d] + 1>> \in Acks
  BY <1>1 DEF Acks
<1>3. <<d, made[d] + 1>> \notin signed
  BY <1>1 DEF AckInv
<1> QED BY <1>1, <1>2, <1>3, KindsAssumption DEF Ids

(***************************************************************************)
(* maybe_ack of daemon d on published events: nothing, or one new ack.     *)
(***************************************************************************)
LEMMA MaybeAckEffect ==
  ASSUME IInv, NEW d \in Daemons, NEW V \in SUBSET published, MaybeAck(d, V),
         published' = published
  PROVE  /\ EventInv' /\ AckInv' /\ Grows
         /\ signed' \subseteq Ids
         /\ parents' \in [Ids -> SUBSET Ids] /\ ancestors' \in [Ids -> SUBSET Ids]
         /\ scheduled' \in [Daemons -> SUBSET Acks]
         /\ made' \in [Daemons -> 0..MaxAcks]
         /\ signed' \cap ChatMessages = signed \cap ChatMessages
         /\ made'[d] <= made[d] + 1
         /\ \A c \in Daemons \ {d} : made'[c] = made[c]
<1> DEFINE ack == <<d, made[d] + 1>>
<1>1. CASE UNCHANGED <<eventVars, scheduled, made>>
  <2>1. EventInv' /\ Grows
    BY <1>1, UnsignedKeeps, EventsGrow DEF IInv
  <2> QED BY <1>1, <2>1 DEF IInv, TypeOK, AckInv, eventVars
<1>2. CASE /\ made[d] < MaxAcks
           /\ Sign(ack, TipsOf(V))
           /\ scheduled' = [scheduled EXCEPT ![d] = @ \cup {ack}]
           /\ made' = [made EXCEPT ![d] = @ + 1]
  <2>1. /\ made[d] + 1 \in 1..MaxAcks
        /\ ack \in Acks /\ ack \in Ids \ signed /\ ack \notin ChatMessages
    BY <1>2, FreshAck DEF IInv
  <2>2. TipsOf(V) \in SUBSET published
    BY DEF TipsOf
  <2>3. /\ EventInv' /\ signed' = signed \cup {ack}
        /\ parents' \in [Ids -> SUBSET Ids] /\ ancestors' \in [Ids -> SUBSET Ids]
        /\ \A f \in signed : ancestors'[f] = ancestors[f] /\ parents'[f] = parents[f]
    BY <1>2, <2>1, <2>2, SignKeeps DEF IInv
  <2>4. Grows
    BY <2>3 DEF Grows
  <2>5. /\ made \in [Daemons -> 0..MaxAcks] /\ made' \in [Daemons -> 0..MaxAcks]
        /\ made'[d] = made[d] + 1 /\ \A c \in Daemons \ {d} : made'[c] = made[c]
    BY <1>2, <2>1, FederationAssumption DEF IInv, TypeOK
  <2>6. scheduled' \in [Daemons -> SUBSET Acks]
    BY <1>2, <2>1 DEF IInv, TypeOK
  <2>7. AckInv'
    <3> SUFFICES ASSUME NEW c \in Daemons
                 PROVE  /\ scheduled'[c] \subseteq signed'
                        /\ \A n \in 1..MaxAcks : <<c, n>> \in signed' => n <= made'[c]
      BY DEF AckInv
    <3>1. scheduled'[c] \subseteq signed'
      BY <1>2, <2>3 DEF IInv, TypeOK, AckInv
    <3>2. ASSUME NEW n \in 1..MaxAcks, <<c, n>> \in signed' PROVE n <= made'[c]
      <4>1. CASE <<c, n>> \in signed
        <5>1. n <= made[c]
          BY <4>1 DEF IInv, AckInv
        <5> QED BY <5>1, <2>5, FederationAssumption
      <4>2. CASE <<c, n>> = ack
        BY <4>2, <2>1, <2>5
      <4> QED BY <2>3, <3>2, <4>1, <4>2
    <3> QED BY <3>1, <3>2
  <2>8. signed' \cap ChatMessages = signed \cap ChatMessages
    BY <2>1, <2>3
  <2> QED BY <2>1, <2>3, <2>4, <2>5, <2>6, <2>7, <2>8, FederationAssumption DEF IInv, TypeOK
<1> QED BY <1>1, <1>2 DEF MaybeAck

-----------------------------------------------------------------------------
(***************************************************************************)
(* The parts of the invariant that most steps keep for the same reason.    *)
(***************************************************************************)

\* An event that was wanted stays wanted while the daemon keeps its Dag.
LEMMA StaysWanted ==
  ASSUME IInv, Grows, NEW d \in Daemons, received[d] \subseteq received'[d],
         NEW e, Wanted(d, e)
  PROVE  Wanted(d, e)'
<1>1. received[d] \subseteq signed
  BY DEF IInv, DaemonInv, TypeOK
<1> QED BY <1>1 DEF Wanted, Grows

\* The budget: nothing is signed, the Dags grow, and nobody crashes.
LEMMA BudgetKept ==
  ASSUME IInv, EventInv', received' \in [Daemons -> SUBSET Ids],
         signed \subseteq signed', crashes' = crashes,
         \A d \in Daemons : received'[d] \subseteq signed',
         NEW c \in Daemons, received[c] \subseteq received'[c], made'[c] = made[c]
  PROVE  made'[c] <= ChatsSigned' * crashes' + ChatsReceived(c)'
<1>1. /\ IsFiniteSet(signed' \cap ChatMessages)
      /\ IsFiniteSet(received'[c] \cap ChatMessages)
  BY FS_Subset, FS_Intersection DEF EventInv
<1>2. /\ ChatsSigned \in Nat /\ ChatsSigned' \in Nat /\ ChatsSigned <= ChatsSigned'
      /\ ChatsReceived(c) \in Nat /\ ChatsReceived(c)' \in Nat
      /\ ChatsReceived(c) <= ChatsReceived(c)'
  <2>1. /\ signed \cap ChatMessages \subseteq signed' \cap ChatMessages
        /\ received[c] \cap ChatMessages \subseteq received'[c] \cap ChatMessages
    OBVIOUS
  <2> QED BY <1>1, <2>1, FS_Subset, FS_CardinalityType DEF ChatsSigned, ChatsReceived
<1>3. crashes \in Nat /\ made[c] \in Nat /\ made[c] <= ChatsSigned * crashes + ChatsReceived(c)
  BY FederationAssumption DEF IInv, TypeOK, BudgetInv
<1>4. \A i, j, k \in Nat : i * k \in Nat /\ (i <= j => i * k <= j * k)
  OBVIOUS
<1>5. /\ ChatsSigned * crashes \in Nat /\ ChatsSigned' * crashes \in Nat
      /\ ChatsSigned * crashes <= ChatsSigned' * crashes
  BY ONLY <1>2, <1>3, <1>4, Zenon
<1> QED BY <1>2, <1>3, <1>5

-----------------------------------------------------------------------------
(***************************************************************************)
(* The steps, one by one.                                                  *)
(***************************************************************************)

\* What a relay accepts reaches running daemons that subscribe to it.
LEMMA BroadcastDaemons ==
  ASSUME IInv, Grows, NEW e \in Ids, NEW storing, Broadcast(e, storing),
         UNCHANGED <<up, received, fetching>>
  PROVE  /\ incoming' \in [Daemons -> SUBSET Ids]
         /\ DaemonInv'
<1>1. /\ published' = published \cup {e}
      /\ incoming' = [d \in Daemons |-> IF up[d] /\ e \in Subscribed
                                          THEN incoming[d] \cup {e}
                                          ELSE incoming[d]]
  BY DEF Broadcast
<1>2. incoming' \in [Daemons -> SUBSET Ids]
  BY <1>1 DEF IInv, TypeOK
<1>3. DaemonInv'
  <2> SUFFICES ASSUME NEW d \in Daemons
               PROVE  /\ received'[d] \cup incoming'[d] \cup fetching'[d] \subseteq published'
                      /\ \A f \in received'[d] \cup incoming'[d] \cup fetching'[d] : Wanted(d, f)'
                      /\ ~up'[d] => received'[d] = {} /\ incoming'[d] = {} /\ fetching'[d] = {}
    BY DEF DaemonInv
  <2>1. /\ received[d] \cup incoming[d] \cup fetching[d] \subseteq published
        /\ \A f \in received[d] \cup incoming[d] \cup fetching[d] : Wanted(d, f)
        /\ ~up[d] => received[d] = {} /\ incoming[d] = {} /\ fetching[d] = {}
    BY DEF IInv, DaemonInv
  <2>2. \A f \in received[d] \cup incoming[d] \cup fetching[d] : Wanted(d, f)'
    BY <2>1, StaysWanted
  <2>3. e \in Subscribed => Wanted(d, e)'
    BY DEF Wanted
  <2> QED BY <1>1, <2>1, <2>2, <2>3
<1> QED BY <1>2, <1>3

LEMMA PublishUserEventInv ==
  ASSUME IInv, NEW m \in ChatMessages \cup OtherEvents, PublishUserEvent(m)
  PROVE  IInv'
<1>1. PICK D \in SUBSET published : D = ConnectedPart(D) /\ Sign(m, TipsOf(D))
  BY DEF PublishUserEvent
<1>2. /\ m \in Ids \ signed /\ m \notin Acks /\ Broadcast(m, TRUE)
      /\ published' = published \cup {m} /\ stored' = stored \cup {m}
      /\ UNCHANGED <<up, received, fetching, scheduled, made, missed, crashes>>
  BY KindsAssumption DEF PublishUserEvent, Ids, Broadcast, daemonVars
<1>3. TipsOf(D) \in SUBSET published
  BY DEF TipsOf
<1>4. /\ EventInv' /\ signed' = signed \cup {m}
      /\ parents' \in [Ids -> SUBSET Ids] /\ ancestors' \in [Ids -> SUBSET Ids]
      /\ Grows
  BY <1>1, <1>2, <1>3, SignKeeps DEF IInv, Grows
<1>5. incoming' \in [Daemons -> SUBSET Ids] /\ DaemonInv'
  BY <1>2, <1>4, BroadcastDaemons
<1>6. TypeOK'
  BY <1>2, <1>4, <1>5 DEF IInv, TypeOK
<1>7. AckInv'
  BY <1>2, <1>4 DEF IInv, AckInv, Acks
<1>8. RelayInv'
  BY <1>2 DEF IInv, RelayInv
<1>9. BudgetInv'
  <2>1. \A d \in Daemons : received'[d] \subseteq signed'
    BY <1>5, <1>6 DEF DaemonInv, TypeOK
  <2> QED BY <1>2, <1>4, <1>6, <2>1, BudgetKept DEF BudgetInv, TypeOK
<1> QED BY <1>4, <1>5, <1>6, <1>7, <1>8, <1>9 DEF IInv

\* The daemon takes an event out of what is on its way to it.
LEMMA TakesEffect ==
  ASSUME IInv, NEW d \in Daemons, NEW e \in Ids, Takes(d, e)
  PROVE  /\ e \in incoming[d] /\ e \in published /\ up[d] /\ fetching[d] = {}
         /\ incoming' \in [Daemons -> SUBSET Ids] /\ received' \in [Daemons -> SUBSET Ids]
         /\ incoming'[d] = incoming[d] \ {e} /\ received'[d] = received[d] \cup {e}
         /\ \A c \in Daemons \ {d} : incoming'[c] = incoming[c] /\ received'[c] = received[c]
         /\ UNCHANGED <<published, stored, up, missed, crashes>>
         /\ \A c \in Daemons : received'[c] \subseteq published
BY DEF Takes, relayVars, IInv, TypeOK, DaemonInv

\* handle_event leaves the daemon with published, wanted events, if what it
\* goes on to fetch is so.
LEMMA TakesDaemons ==
  ASSUME IInv, Grows, NEW d \in Daemons, NEW e \in Ids, Takes(d, e),
         fetching' \in [Daemons -> SUBSET Ids],
         \A c \in Daemons \ {d} : fetching'[c] = fetching[c],
         \A f \in fetching'[d] : f \in published /\ Wanted(d, f)'
  PROVE  DaemonInv'
<1> SUFFICES ASSUME NEW c \in Daemons
             PROVE  /\ received'[c] \cup incoming'[c] \cup fetching'[c] \subseteq published'
                    /\ \A f \in received'[c] \cup incoming'[c] \cup fetching'[c] : Wanted(c, f)'
                    /\ ~up'[c] => received'[c] = {} /\ incoming'[c] = {} /\ fetching'[c] = {}
  BY DEF DaemonInv
<1>1. /\ received[c] \cup incoming[c] \cup fetching[c] \subseteq published
      /\ \A f \in received[c] \cup incoming[c] \cup fetching[c] : Wanted(c, f)
      /\ ~up[c] => received[c] = {} /\ incoming[c] = {} /\ fetching[c] = {}
  BY DEF IInv, DaemonInv
<1>2. received[c] \subseteq received'[c]
  BY TakesEffect
<1>3. \A f \in received[c] \cup incoming[c] \cup fetching[c] : Wanted(c, f)'
  BY <1>1, <1>2, StaysWanted
<1>4. CASE c = d
  BY <1>1, <1>3, <1>4, TakesEffect
<1>5. CASE c # d
  BY <1>1, <1>3, <1>5, TakesEffect
<1> QED BY <1>4, <1>5

LEMMA HandleDuplicateInv ==
  ASSUME IInv, NEW d \in Daemons, NEW e \in Ids, HandleDuplicate(d, e)
  PROVE  IInv'
<1>1. /\ Takes(d, e) /\ e \in received[d] /\ UNCHANGED <<eventVars, fetching, scheduled, made>>
      /\ UNCHANGED <<published, stored, up, missed, crashes>>
      /\ incoming' \in [Daemons -> SUBSET Ids] /\ received' \in [Daemons -> SUBSET Ids]
  BY TakesEffect DEF HandleDuplicate
<1>2. EventInv' /\ Grows
  BY <1>1, UnsignedKeeps, EventsGrow DEF IInv
<1>3. TypeOK'
  BY <1>1 DEF IInv, TypeOK, eventVars
<1>4. AckInv' /\ RelayInv'
  BY <1>1 DEF IInv, AckInv, RelayInv, eventVars
<1>5. DaemonInv'
  <2>1. fetching[d] = {}
    BY <1>1, TakesEffect
  <2> QED BY <1>1, <1>2, <2>1, TakesDaemons DEF IInv, TypeOK
<1>6. BudgetInv'
  <2>1. \A c \in Daemons : received[c] \subseteq received'[c] /\ received'[c] \subseteq signed'
    BY <1>1, <1>3, TakesEffect DEF TypeOK
  <2> QED BY <1>1, <1>2, <1>3, <2>1, BudgetKept DEF BudgetInv, TypeOK, eventVars
<1> QED BY <1>2, <1>3, <1>4, <1>5, <1>6 DEF IInv

LEMMA HandleBufferedInv ==
  ASSUME IInv, NEW d \in Daemons, NEW e \in Ids, HandleBuffered(d, e)
  PROVE  IInv'
<1> DEFINE missing == (UNION {parents[f] : f \in received'[d]}) \ Visible(d)
<1>1. /\ Takes(d, e) /\ UNCHANGED <<eventVars, scheduled, made>>
      /\ UNCHANGED <<published, stored, up, missed, crashes>>
      /\ incoming' \in [Daemons -> SUBSET Ids] /\ received' \in [Daemons -> SUBSET Ids]
      /\ fetching' = [fetching EXCEPT ![d] = missing]
  BY TakesEffect DEF HandleBuffered
<1>2. EventInv' /\ Grows
  BY <1>1, UnsignedKeeps, EventsGrow DEF IInv
<1>3. missing \subseteq published /\ missing \subseteq Ids
  <2>1. \A f \in received'[d] : f \in Ids
    BY <1>1
  <2> QED BY <2>1 DEF IInv, EventInv, TypeOK
<1>4. /\ fetching' \in [Daemons -> SUBSET Ids] /\ fetching'[d] = missing
      /\ \A c \in Daemons \ {d} : fetching'[c] = fetching[c]
  BY <1>1, <1>3 DEF IInv, TypeOK
<1>5. TypeOK'
  BY <1>1, <1>4 DEF IInv, TypeOK, eventVars
<1>6. AckInv' /\ RelayInv'
  BY <1>1 DEF IInv, AckInv, RelayInv, eventVars
<1>7. DaemonInv'
  <2>1. ASSUME NEW f \in missing PROVE Wanted(d, f)'
    <3>1. PICK g \in received'[d] : f \in parents[g]
      BY <2>1
    <3>2. g \in received[d] \/ g \in incoming[d]
      BY <1>1, TakesEffect
    <3>3. Wanted(d, g) /\ g \in signed
      BY <3>2 DEF IInv, DaemonInv, TypeOK
    <3>4. ASSUME NEW h \in signed, g \in ancestors[h] PROVE f \in ancestors[h]
      BY <3>1, <3>4 DEF IInv, EventInv, ParentClosed
    <3>5. CASE g \in Subscribed
      <4>1. f \in ancestors[g]
        BY <3>3, <3>4 DEF IInv, EventInv
      <4> QED BY <1>1, <3>1, <3>5, <4>1 DEF Wanted, eventVars
    <3>6. CASE g \notin Subscribed
      <4>1. PICK h \in received[d] \cap Subscribed : g \in ancestors[h]
        BY <3>3, <3>6 DEF Wanted
      <4>2. h \in signed /\ h \in received'[d]
        BY <1>1, TakesEffect DEF IInv, DaemonInv, TypeOK
      <4> QED BY <1>1, <3>4, <4>1, <4>2 DEF Wanted, eventVars
    <3> QED BY <3>5, <3>6
  <2> HIDE DEF missing
  <2> QED BY <1>1, <1>2, <1>3, <1>4, <2>1, TakesDaemons
<1>8. BudgetInv'
  <2>1. \A c \in Daemons : received[c] \subseteq received'[c] /\ received'[c] \subseteq signed'
    BY <1>1, <1>5, TakesEffect DEF TypeOK
  <2> QED BY <1>1, <1>2, <1>5, <2>1, BudgetKept DEF BudgetInv, TypeOK, eventVars
<1> QED BY <1>2, <1>5, <1>6, <1>7, <1>8 DEF IInv

\* A chat message that is inserted pays for the ack it may set off.
LEMMA InsertedBudget ==
  ASSUME IInv, EventInv', NEW d \in Daemons, NEW e \in Ids, Takes(d, e),
         e \notin received[d], e \in ChatMessages,
         signed' \cap ChatMessages = signed \cap ChatMessages,
         made' \in [Daemons -> 0..MaxAcks], made'[d] <= made[d] + 1
  PROVE  made'[d] <= ChatsSigned' * crashes' + ChatsReceived(d)'
<1>1. received'[d] = received[d] \cup {e} /\ crashes' = crashes /\ ChatsSigned' = ChatsSigned
  BY TakesEffect DEF ChatsSigned
<1>2. IsFiniteSet(received[d] \cap ChatMessages)
  <2>1. received[d] \cap ChatMessages \subseteq signed
    BY DEF IInv, DaemonInv, TypeOK
  <2> QED BY <2>1, FS_Subset DEF IInv, EventInv
<1>3. ChatsReceived(d)' = ChatsReceived(d) + 1
  <2>1. received'[d] \cap ChatMessages = (received[d] \cap ChatMessages) \cup {e}
    BY <1>1
  <2> QED BY <1>2, <2>1, FS_AddElement DEF ChatsReceived
<1>4. ChatsReceived(d) \in Nat /\ ChatsSigned \in Nat
  <2>1. IsFiniteSet(signed \cap ChatMessages)
    BY FS_Intersection DEF IInv, EventInv
  <2> QED BY <1>2, <2>1, FS_CardinalityType DEF ChatsReceived, ChatsSigned
<1>5. crashes \in Nat /\ made[d] \in Nat /\ made'[d] \in Nat
      /\ made[d] <= ChatsSigned * crashes + ChatsReceived(d)
  BY FederationAssumption DEF IInv, TypeOK, BudgetInv
<1>6. ChatsSigned * crashes \in Nat
  BY <1>4, <1>5
<1> QED BY <1>1, <1>3, <1>4, <1>5, <1>6

LEMMA HandleInsertedInv ==
  ASSUME IInv, NEW d \in Daemons, NEW e \in Ids, HandleInserted(d, e)
  PROVE  IInv'
<1> DEFINE V == ConnectedPart(received[d] \cup {e})
<1>1. /\ Takes(d, e) /\ e \notin received[d] /\ fetching' = fetching
      /\ \/ e \in ChatMessages /\ MaybeAck(d, V)
         \/ UNCHANGED <<eventVars, scheduled, made>>
  BY DEF HandleInserted
<1>2. /\ UNCHANGED <<published, stored, up, missed, crashes>>
      /\ incoming' \in [Daemons -> SUBSET Ids] /\ received' \in [Daemons -> SUBSET Ids]
      /\ \A c \in Daemons : received[c] \subseteq received'[c] /\ received'[c] \subseteq published
      /\ fetching[d] = {}
  BY <1>1, TakesEffect
<1>3. V \in SUBSET published
  BY <1>1, TakesEffect DEF ConnectedPart, IInv, DaemonInv
<1> HIDE DEF V
<1>4. /\ EventInv' /\ AckInv' /\ Grows
      /\ signed' \subseteq Ids
      /\ parents' \in [Ids -> SUBSET Ids] /\ ancestors' \in [Ids -> SUBSET Ids]
      /\ scheduled' \in [Daemons -> SUBSET Acks]
      /\ made' \in [Daemons -> 0..MaxAcks]
      /\ signed' \cap ChatMessages = signed \cap ChatMessages
      /\ made'[d] <= made[d] + 1
      /\ made'[d] = made[d] \/ e \in ChatMessages
      /\ \A c \in Daemons \ {d} : made'[c] = made[c]
  <2>1. CASE e \in ChatMessages /\ MaybeAck(d, V)
    BY <1>2, <1>3, <2>1, MaybeAckEffect
  <2>2. CASE UNCHANGED <<eventVars, scheduled, made>>
    <3>1. EventInv' /\ Grows
      BY <1>2, <2>2, UnsignedKeeps, EventsGrow DEF IInv
    <3>2. made[d] \in Nat
      BY FederationAssumption DEF IInv, TypeOK
    <3> QED BY <2>2, <3>1, <3>2 DEF IInv, TypeOK, AckInv, eventVars
  <2> QED BY <1>1, <2>1, <2>2
<1>5. TypeOK'
  BY <1>1, <1>2, <1>4 DEF IInv, TypeOK, Grows
<1>6. RelayInv'
  BY <1>2 DEF IInv, RelayInv
<1>7. DaemonInv'
  BY <1>1, <1>2, <1>4, TakesDaemons DEF IInv, TypeOK
<1>8. BudgetInv'
  <2> SUFFICES ASSUME NEW c \in Daemons
               PROVE  made'[c] <= ChatsSigned' * crashes' + ChatsReceived(c)'
    BY DEF BudgetInv
  <2>1. \A b \in Daemons : received'[b] \subseteq signed'
    BY <1>2, <1>5 DEF TypeOK
  <2>2. CASE made'[c] = made[c]
    BY <1>2, <1>4, <2>1, <2>2, BudgetKept DEF Grows
  <2>3. CASE c = d /\ e \in ChatMessages
    BY <1>1, <1>4, <2>3, InsertedBudget
  <2> QED BY <1>4, <2>2, <2>3
<1> QED BY <1>4, <1>5, <1>6, <1>7, <1>8 DEF IInv

LEMMA FetchInv ==
  ASSUME IInv, NEW d \in Daemons, NEW e \in Ids, Fetch(d, e)
  PROVE  IInv'
<1>1. /\ up[d] /\ e \in fetching[d] /\ fetching' = [fetching EXCEPT ![d] = @ \ {e}]
      /\ incoming' = incoming \/ incoming' = [incoming EXCEPT ![d] = @ \cup {e}]
      /\ UNCHANGED <<eventVars, published, stored, up, received, scheduled, made, missed,
                     crashes>>
  BY DEF Fetch, relayVars
<1>2. EventInv' /\ Grows
  BY <1>1, UnsignedKeeps, EventsGrow DEF IInv
<1>3. TypeOK'
  BY <1>1 DEF IInv, TypeOK, eventVars
<1>4. AckInv' /\ RelayInv' /\ BudgetInv'
  BY <1>1 DEF IInv, AckInv, RelayInv, BudgetInv, ChatsSigned, ChatsReceived, eventVars
<1>5. DaemonInv'
  <2> SUFFICES ASSUME NEW c \in Daemons
               PROVE  /\ received'[c] \cup incoming'[c] \cup fetching'[c] \subseteq published'
                      /\ \A f \in received'[c] \cup incoming'[c] \cup fetching'[c] : Wanted(c, f)'
                      /\ ~up'[c] => received'[c] = {} /\ incoming'[c] = {} /\ fetching'[c] = {}
    BY DEF DaemonInv
  <2>1. /\ received[c] \cup incoming[c] \cup fetching[c] \subseteq published
        /\ \A f \in received[c] \cup incoming[c] \cup fetching[c] : Wanted(c, f)
        /\ ~up[c] => received[c] = {} /\ incoming[c] = {} /\ fetching[c] = {}
    BY DEF IInv, DaemonInv
  <2>2. received'[c] \cup incoming'[c] \cup fetching'[c]
          \subseteq received[c] \cup incoming[c] \cup fetching[c]
    BY <1>1 DEF IInv, TypeOK
  <2>3. \A f \in received[c] \cup incoming[c] \cup fetching[c] : Wanted(c, f)'
    BY <1>1, <1>2, <2>1, StaysWanted
  <2> QED BY <1>1, <2>1, <2>2, <2>3
<1> QED BY <1>2, <1>3, <1>4, <1>5 DEF IInv

LEMMA PublishAckInv ==
  ASSUME IInv, NEW d \in Daemons, NEW a \in Acks, PublishAck(d, a)
  PROVE  IInv'
<1>1. /\ a \in scheduled[d] /\ scheduled' = [scheduled EXCEPT ![d] = @ \ {a}]
      /\ Broadcast(a, AcksStored)
      /\ published' = published \cup {a}
      /\ stored' = (IF AcksStored THEN stored \cup {a} ELSE stored)
      /\ UNCHANGED <<eventVars, up, received, fetching, made, missed, crashes>>
  BY DEF PublishAck, Broadcast
<1>2. EventInv' /\ Grows
  BY <1>1, UnsignedKeeps, EventsGrow DEF IInv
<1>3. a \in Ids /\ a \in signed
  BY <1>1 DEF IInv, AckInv, Ids
<1>4. incoming' \in [Daemons -> SUBSET Ids] /\ DaemonInv'
  BY <1>1, <1>2, <1>3, BroadcastDaemons
<1>5. TypeOK'
  BY <1>1, <1>3, <1>4 DEF IInv, TypeOK, eventVars
<1>6. AckInv' /\ RelayInv' /\ BudgetInv'
  BY <1>1 DEF IInv, TypeOK, AckInv, RelayInv, BudgetInv, ChatsSigned, ChatsReceived, eventVars
<1> QED BY <1>2, <1>4, <1>5, <1>6 DEF IInv

LEMMA AckRefusedInv ==
  ASSUME IInv, NEW d \in Daemons, NEW a \in Acks, AckRefused(d, a)
  PROVE  IInv'
<1>1. /\ scheduled' = [scheduled EXCEPT ![d] = @ \ {a}]
      /\ UNCHANGED <<eventVars, published, stored, up, received, fetching,
                     incoming, made, missed, crashes>>
  BY DEF AckRefused, relayVars
<1>2. EventInv'
  BY <1>1, UnsignedKeeps DEF IInv
<1>3. TypeOK'
  BY <1>1 DEF IInv, TypeOK, eventVars
<1>4. AckInv' /\ RelayInv' /\ BudgetInv'
  BY <1>1 DEF IInv, TypeOK, AckInv, RelayInv, BudgetInv, ChatsSigned, ChatsReceived, eventVars
<1>5. DaemonInv'
  BY <1>1 DEF IInv, DaemonInv, Wanted, eventVars
<1> QED BY <1>2, <1>3, <1>4, <1>5 DEF IInv

\* A crash takes the Dag, and with it the chat messages that paid for the acks
\* of this life: they are charged to the new life that the crash begins.
LEMMA CrashInv ==
  ASSUME IInv, NEW d \in Daemons, Crash(d)
  PROVE  IInv'
<1>1. /\ crashes < MaxCrashes /\ crashes' = crashes + 1
      /\ up' = [up EXCEPT ![d] = FALSE]
      /\ received' = [received EXCEPT ![d] = {}]
      /\ fetching' = [fetching EXCEPT ![d] = {}]
      /\ scheduled' = [scheduled EXCEPT ![d] = {}]
      /\ incoming' = [incoming EXCEPT ![d] = {}]
      /\ missed' = [missed EXCEPT ![d] = {}]
      /\ UNCHANGED <<eventVars, published, stored, made>>
  BY DEF Crash, relayVars
<1>2. EventInv'
  BY <1>1, UnsignedKeeps DEF IInv
<1>3. crashes \in 0..MaxCrashes /\ crashes' \in 0..MaxCrashes
  BY <1>1, FederationAssumption DEF IInv, TypeOK
<1>4. TypeOK'
  BY <1>1, <1>3 DEF IInv, TypeOK, eventVars
<1>5. AckInv' /\ RelayInv'
  BY <1>1 DEF IInv, TypeOK, AckInv, RelayInv, eventVars
<1>6. DaemonInv'
  BY <1>1 DEF IInv, TypeOK, DaemonInv, Wanted, eventVars
<1>7. BudgetInv'
  <2> SUFFICES ASSUME NEW c \in Daemons
               PROVE  made[c] <= ChatsSigned * (crashes + 1) + ChatsReceived(c)'
    BY <1>1 DEF BudgetInv, ChatsSigned, eventVars
  <2>1. /\ IsFiniteSet(signed \cap ChatMessages)
        /\ received[c] \cap ChatMessages \subseteq signed \cap ChatMessages
        /\ received'[c] \cap ChatMessages \subseteq signed \cap ChatMessages
    BY <1>1, FS_Intersection DEF IInv, EventInv, DaemonInv, TypeOK
  <2>2. /\ ChatsSigned \in Nat /\ ChatsReceived(c) \in Nat /\ ChatsReceived(c)' \in Nat
        /\ ChatsReceived(c) <= ChatsSigned
    BY <2>1, FS_Subset, FS_CardinalityType DEF ChatsSigned, ChatsReceived
  <2>3. made[c] \in Nat /\ crashes \in Nat
        /\ made[c] <= ChatsSigned * crashes + ChatsReceived(c)
    BY FederationAssumption DEF IInv, TypeOK, BudgetInv
  <2>4. ChatsSigned * crashes \in Nat
        /\ ChatsSigned * (crashes + 1) = ChatsSigned * crashes + ChatsSigned
    BY <2>2, <2>3
  <2> QED BY <2>2, <2>3, <2>4
<1> QED BY <1>2, <1>4, <1>5, <1>6, <1>7 DEF IInv

LEMMA RestartInv ==
  ASSUME IInv, NEW d \in Daemons, Restart(d)
  PROVE  IInv'
<1>1. PICK S \in Answers :
        /\ ~up[d] /\ up' = [up EXCEPT ![d] = TRUE]
        /\ incoming' = [incoming EXCEPT ![d] = S]
        /\ missed' = [missed EXCEPT ![d] = (stored \cap Subscribed) \ S]
        /\ UNCHANGED <<eventVars, published, stored, received, fetching, scheduled,
                       made, crashes>>
  BY DEF Restart, relayVars
<1>2. EventInv'
  BY <1>1, UnsignedKeeps DEF IInv
<1>3. stored \subseteq published /\ S \subseteq stored \cap Subscribed
  BY DEF IInv, RelayInv, Answers
<1>4. TypeOK'
  BY <1>1, <1>3 DEF IInv, TypeOK, eventVars
<1>5. AckInv' /\ RelayInv' /\ BudgetInv'
  BY <1>1 DEF IInv, AckInv, RelayInv, BudgetInv, ChatsSigned, ChatsReceived, eventVars
<1>6. DaemonInv'
  BY <1>1, <1>3 DEF IInv, TypeOK, DaemonInv, Wanted, eventVars
<1> QED BY <1>2, <1>4, <1>5, <1>6 DEF IInv

LEMMA InitInv == Init => IInv
<1> SUFFICES ASSUME Init PROVE IInv
  OBVIOUS
<1>1. TypeOK
  BY FederationAssumption DEF Init, TypeOK
<1>2. EventInv /\ AckInv /\ RelayInv /\ DaemonInv
  BY FS_EmptySet DEF Init, EventInv, AckInv, RelayInv, DaemonInv
<1>3. BudgetInv
  <2>1. ChatsSigned = 0 /\ \A d \in Daemons : ChatsReceived(d) = 0
    BY FS_EmptySet DEF Init, ChatsSigned, ChatsReceived
  <2> QED BY <2>1 DEF Init, BudgetInv
<1> QED BY <1>1, <1>2, <1>3 DEF IInv

\* The steps, with their arguments.
LEMMA StepCases ==
  ASSUME [Next]_vars
  PROVE  \/ UNCHANGED vars
         \/ \E m \in ChatMessages \cup OtherEvents : PublishUserEvent(m)
         \/ \E d \in Daemons, e \in Ids :
              \/ HandleDuplicate(d, e) \/ HandleInserted(d, e) \/ HandleBuffered(d, e)
              \/ Fetch(d, e)
         \/ \E d \in Daemons, a \in Acks : PublishAck(d, a) \/ AckRefused(d, a)
         \/ \E d \in Daemons : Crash(d) \/ Restart(d)
BY DEF Next, Handle

\* The inductive invariant holds in every reachable state.
THEOREM Invariance == Spec => []IInv
<1>1. IInv /\ [Next]_vars => IInv'
  <2>1. ASSUME IInv, UNCHANGED vars PROVE IInv'
    <3>1. TypeOK'
      BY <2>1 DEF vars, IInv, TypeOK
    <3>2. EventInv'
      BY <2>1 DEF vars, IInv, EventInv, ParentClosed
    <3>3. AckInv' /\ RelayInv'
      BY <2>1 DEF vars, IInv, AckInv, RelayInv
    <3>4. DaemonInv'
      BY <2>1 DEF vars, IInv, DaemonInv, Wanted
    <3>5. BudgetInv'
      <4>1. /\ ChatsSigned' = ChatsSigned
            /\ \A d \in Daemons : ChatsReceived(d)' = ChatsReceived(d)
            /\ made' = made /\ crashes' = crashes
        BY <2>1 DEF vars, ChatsSigned, ChatsReceived
      <4> QED BY <2>1, <4>1 DEF IInv, BudgetInv
    <3> QED BY <3>1, <3>2, <3>3, <3>4, <3>5 DEF IInv
  <2> QED BY <2>1, StepCases, PublishUserEventInv, HandleDuplicateInv, HandleInsertedInv,
             HandleBufferedInv, FetchInv, PublishAckInv, AckRefusedInv, CrashInv, RestartInv
<1> QED BY InitInv, <1>1, PTL DEF Spec

\* Events, relays and daemons keep their types, and only what is signed is
\* ever published.
THEOREM TypeCorrect == Spec => []TypeOK
<1>1. IInv => TypeOK
  BY DEF IInv
<1> QED BY Invariance, <1>1, PTL

(***************************************************************************)
(* A daemon signs at most one ack per chat message and life, whatever is   *)
(* delivered twice, out of order or again after a crash: each ack of a     *)
(* life is paid for by another chat message its Dag has inserted.          *)
(***************************************************************************)
THEOREM AcksDoNotBreed == Spec => []NoAckStorm
<1>1. IInv => NoAckStorm
  <2> SUFFICES ASSUME IInv, NEW d \in Daemons
               PROVE  made[d] <= Cardinality(signed \cap ChatMessages) * (crashes + 1)
    BY DEF NoAckStorm
  <2>1. /\ IsFiniteSet(signed \cap ChatMessages)
        /\ received[d] \cap ChatMessages \subseteq signed \cap ChatMessages
    BY FS_Intersection DEF IInv, EventInv, DaemonInv, TypeOK
  <2>2. ChatsSigned \in Nat /\ ChatsReceived(d) \in Nat /\ ChatsReceived(d) <= ChatsSigned
    BY <2>1, FS_Subset, FS_CardinalityType DEF ChatsSigned, ChatsReceived
  <2>3. made[d] \in Nat /\ crashes \in Nat
        /\ made[d] <= ChatsSigned * crashes + ChatsReceived(d)
    BY FederationAssumption DEF IInv, TypeOK, BudgetInv
  <2>4. ChatsSigned * crashes \in Nat
        /\ ChatsSigned * (crashes + 1) = ChatsSigned * crashes + ChatsSigned
    BY <2>2, <2>3
  <2>5. made[d] <= ChatsSigned * (crashes + 1)
    BY <2>2, <2>3, <2>4
  <2> QED BY <2>5 DEF ChatsSigned
<1> QED BY Invariance, <1>1, PTL

-----------------------------------------------------------------------------
(***************************************************************************)
(* Agreement: nothing is out of reach, and so, when all is quiet, every    *)
(* daemon holds exactly the published events it subscribes to with all     *)
(* they descend from.                                                      *)
(***************************************************************************)

LEMMA InitDelivery == IInv /\ Init => DeliveryInv
BY DEF Init, DeliveryInv, IInv, TypeOK

\* A relay that accepts an event passes it on to every running subscriber.
LEMMA BroadcastDelivers ==
  ASSUME IInv, DeliveryInv, Grows, NEW e \in Ids, NEW storing, Broadcast(e, storing),
         UNCHANGED <<up, received, fetching, missed>>
  PROVE  DeliveryInv'
<1>1. /\ published' = published \cup {e}
      /\ incoming' = [d \in Daemons |-> IF up[d] /\ e \in Subscribed
                                          THEN incoming[d] \cup {e}
                                          ELSE incoming[d]]
  BY DEF Broadcast
<1>2. \A d \in Daemons : received[d] \subseteq signed
  BY DEF IInv, DaemonInv, TypeOK
<1> QED BY <1>1, <1>2 DEF DeliveryInv, Grows

\* An event taken is an event held, and its parents are held or fetched.
LEMMA TakesDelivers ==
  ASSUME IInv, DeliveryInv, Grows, NEW d \in Daemons, NEW e \in Ids, Takes(d, e),
         fetching' \in [Daemons -> SUBSET Ids],
         \A c \in Daemons \ {d} : fetching'[c] = fetching[c],
         parents[e] \subseteq received[d] \cup fetching'[d]
  PROVE  DeliveryInv'
<1>1. /\ fetching[d] = {} /\ e \in published /\ UNCHANGED <<published, up, missed>>
      /\ \A c \in Daemons : received'[c] \cup incoming'[c] = received[c] \cup incoming[c]
      /\ received'[d] = received[d] \cup {e}
      /\ \A c \in Daemons \ {d} : received'[c] = received[c]
  BY TakesEffect
<1>2. \A c \in Daemons : received[c] \subseteq signed /\ received'[c] \subseteq signed
  BY TakesEffect DEF IInv, DaemonInv, TypeOK
<1>3. \A c \in Daemons : up'[c] =>
        published' \cap Subscribed \subseteq received'[c] \cup incoming'[c] \cup missed'[c]
  BY <1>1 DEF DeliveryInv
<1>4. ASSUME NEW c \in Daemons, NEW f \in received'[c]
      PROVE  parents'[f]
               \subseteq received'[c] \cup incoming'[c] \cup fetching'[c] \cup missed'[c]
  <2>1. parents'[f] = parents[f]
    BY <1>2 DEF Grows
  <2>2. CASE f \in received[c]
    BY <1>1, <2>1, <2>2 DEF DeliveryInv
  <2>3. CASE c = d /\ f = e
    BY <1>1, <2>1, <2>3
  <2> QED BY <1>1, <2>2, <2>3
<1> QED BY <1>1, <1>3, <1>4 DEF DeliveryInv

LEMMA HandleDelivers ==
  ASSUME IInv, DeliveryInv, NEW d \in Daemons, NEW e \in Ids, Handle(d, e)
  PROVE  DeliveryInv'
<1>1. Takes(d, e)
  BY DEF Handle, HandleDuplicate, HandleInserted, HandleBuffered
<1>2. Visible(d) \subseteq received[d] /\ received'[d] = received[d] \cup {e}
  BY <1>1, TakesEffect DEF Visible, ConnectedPart
<1>3. CASE HandleDuplicate(d, e)
  <2>1. UNCHANGED <<eventVars, fetching>> /\ e \in received[d]
    BY <1>3 DEF HandleDuplicate
  <2>2. /\ UNCHANGED <<published, up, parents, received, fetching, missed>>
        /\ \A c \in Daemons : received'[c] \cup incoming'[c] = received[c] \cup incoming[c]
    <3>1. received' = received
      BY <1>1, <2>1 DEF Takes, IInv, TypeOK
    <3> QED BY <1>1, <2>1, <3>1, TakesEffect DEF eventVars
  <2> QED BY <2>2 DEF DeliveryInv
<1>4. CASE HandleInserted(d, e)
  <2>1. Grows
    <3>1. ConnectedPart(received[d] \cup {e}) \in SUBSET published /\ published' = published
      BY <1>1, TakesEffect DEF ConnectedPart, IInv, DaemonInv
    <3>2. \/ MaybeAck(d, ConnectedPart(received[d] \cup {e}))
          \/ UNCHANGED <<eventVars, scheduled, made>>
      BY <1>4 DEF HandleInserted
    <3> QED BY <3>1, <3>2, MaybeAckEffect, EventsGrow
  <2>2. parents[e] \subseteq Visible(d) /\ fetching' = fetching
    BY <1>4 DEF HandleInserted
  <2> QED BY <1>1, <1>2, <2>1, <2>2, TakesDelivers DEF IInv, TypeOK
<1>5. CASE HandleBuffered(d, e)
  <2> DEFINE named == UNION {parents[f] : f \in received'[d]}
             missing == named \ Visible(d)
  <2>1. fetching' = [fetching EXCEPT ![d] = missing] /\ UNCHANGED eventVars
    BY <1>5 DEF HandleBuffered
  <2>2. Grows
    BY <1>1, <2>1, TakesEffect, EventsGrow
  <2>3. fetching \in [Daemons -> SUBSET Ids] /\ parents \in [Ids -> SUBSET Ids]
        /\ received'[d] \subseteq Ids
    BY <1>1, TakesEffect DEF IInv, TypeOK
  <2>4. missing \subseteq Ids
    BY <2>3
  <2>5. parents[e] \subseteq received[d] \cup missing
    <3>1. parents[e] \subseteq named
      <4>1. e \in received'[d]
        BY <1>2
      <4> QED BY <4>1
    <3> HIDE DEF named
    <3> QED BY <1>2, <3>1
  <2> HIDE DEF missing
  <2>6. /\ fetching' \in [Daemons -> SUBSET Ids] /\ fetching'[d] = missing
        /\ \A c \in Daemons \ {d} : fetching'[c] = fetching[c]
    BY <2>1, <2>3, <2>4
  <2> QED BY <1>1, <2>2, <2>5, <2>6, TakesDelivers
<1> QED BY <1>3, <1>4, <1>5 DEF Handle

\* What a fetch does not bring back is on its way already, or was left out by
\* the limit: an ack that no relay stores, or, where fetches fail, an event
\* daemons subscribe to.
LEMMA FetchDelivers ==
  ASSUME RelaysKeepEnough, IInv, DeliveryInv, NEW d \in Daemons, NEW e \in Ids, Fetch(d, e)
  PROVE  DeliveryInv'
<1>1. /\ up[d] /\ e \in fetching[d] /\ fetching' = [fetching EXCEPT ![d] = @ \ {e}]
      /\ UNCHANGED <<published, up, received, missed, parents>>
      /\ \/ incoming' = [incoming EXCEPT ![d] = @ \cup {e}]
         \/ (e \notin stored \/ FetchMayFail) /\ incoming' = incoming
  BY DEF Fetch, relayVars, eventVars
<1>2. e \in received[d] \cup incoming'[d] \cup missed[d]
  <2>1. CASE incoming' = [incoming EXCEPT ![d] = @ \cup {e}]
    BY <2>1 DEF IInv, TypeOK
  <2>2. CASE (e \notin stored \/ FetchMayFail) /\ incoming' = incoming
    <3>1. e \in published
      BY <1>1 DEF IInv, DaemonInv
    <3>2. e \in Subscribed
      BY <2>2, <3>1 DEF IInv, RelayInv, RelaysKeepEnough, Subscribed, Ids
    <3> QED BY <1>1, <2>2, <3>1, <3>2 DEF DeliveryInv
  <2> QED BY <1>1, <2>1, <2>2
<1>3. \A c \in Daemons : incoming[c] \subseteq incoming'[c]
                         /\ fetching[c] \subseteq fetching'[c] \cup (IF c = d THEN {e} ELSE {})
  BY <1>1 DEF IInv, TypeOK
<1>4. \A c \in Daemons : up[c] =>
        published \cap Subscribed \subseteq received[c] \cup incoming'[c] \cup missed[c]
  BY <1>3 DEF DeliveryInv
<1>5. ASSUME NEW c \in Daemons, NEW f \in received[c]
      PROVE  parents[f]
               \subseteq received[c] \cup incoming'[c] \cup fetching'[c] \cup missed[c]
  <2>1. parents[f] \subseteq received[c] \cup incoming[c] \cup fetching[c] \cup missed[c]
    BY DEF DeliveryInv
  <2> QED BY <1>2, <1>3, <2>1
<1> QED BY <1>1, <1>4, <1>5 DEF DeliveryInv

LEMMA CrashDelivers ==
  ASSUME IInv, DeliveryInv, NEW d \in Daemons, Crash(d)
  PROVE  DeliveryInv'
<1>1. MaxCrashes # 0
  BY FederationAssumption DEF Crash, IInv, TypeOK
<1>2. /\ UNCHANGED <<published, parents>>
      /\ ~up'[d] /\ received'[d] = {}
      /\ \A c \in Daemons \ {d} : /\ up'[c] = up[c] /\ received'[c] = received[c]
                                  /\ incoming'[c] = incoming[c] /\ fetching'[c] = fetching[c]
                                  /\ missed'[c] = missed[c]
  BY DEF Crash, relayVars, eventVars, IInv, TypeOK
<1> QED BY <1>1, <1>2 DEF DeliveryInv

\* The new subscription brings what the relays store, the acks included, or
\* what it does not bring is written down as missed.
LEMMA RestartDelivers ==
  ASSUME RelaysKeepEnough, IInv, DeliveryInv, NEW d \in Daemons, Restart(d)
  PROVE  DeliveryInv'
<1>1. MaxCrashes # 0 /\ stored = published
  BY DEF Restart, DeliveryInv, RelaysKeepEnough, IInv, RelayInv
<1>2. PICK S \in Answers :
        /\ UNCHANGED <<published, parents, received, fetching>>
        /\ received[d] = {} /\ incoming'[d] = S
        /\ missed'[d] = (stored \cap Subscribed) \ S
        /\ \A c \in Daemons \ {d} : /\ up'[c] = up[c] /\ incoming'[c] = incoming[c]
                                    /\ missed'[c] = missed[c]
  BY DEF Restart, relayVars, eventVars, IInv, TypeOK, DaemonInv
<1> QED BY <1>1, <1>2 DEF DeliveryInv

LEMMA Delivery ==
  ASSUME RelaysKeepEnough
  PROVE  IInv /\ DeliveryInv /\ [Next]_vars => DeliveryInv'
<1> SUFFICES ASSUME IInv, DeliveryInv, [Next]_vars PROVE DeliveryInv'
  OBVIOUS
<1>1. CASE UNCHANGED vars
  BY <1>1 DEF vars, DeliveryInv
<1>2. ASSUME NEW m \in ChatMessages \cup OtherEvents, PublishUserEvent(m) PROVE DeliveryInv'
  <2>1. PICK D \in SUBSET published : Sign(m, TipsOf(D))
    BY <1>2 DEF PublishUserEvent
  <2>2. /\ m \in Ids \ signed /\ TipsOf(D) \in SUBSET published
        /\ Broadcast(m, TRUE) /\ UNCHANGED <<up, received, fetching, missed>>
        /\ published \subseteq published'
    BY <1>2 DEF PublishUserEvent, Ids, TipsOf, daemonVars, Broadcast
  <2>3. Grows
    BY <2>1, <2>2, SignKeeps DEF IInv, Grows
  <2> QED BY <2>2, <2>3, BroadcastDelivers
<1>3. ASSUME NEW d \in Daemons, NEW a \in Acks, PublishAck(d, a) PROVE DeliveryInv'
  <2>1. /\ Broadcast(a, AcksStored) /\ UNCHANGED <<eventVars, up, received, fetching, missed>>
        /\ a \in Ids /\ published \subseteq published'
    BY <1>3 DEF PublishAck, Broadcast, Ids
  <2> QED BY <2>1, EventsGrow, BroadcastDelivers
<1>4. ASSUME NEW d \in Daemons, NEW a \in Acks, AckRefused(d, a) PROVE DeliveryInv'
  BY <1>4 DEF AckRefused, eventVars, relayVars, DeliveryInv
<1> QED BY <1>1, <1>2, <1>3, <1>4, StepCases, HandleDelivers, FetchDelivers,
           CrashDelivers, RestartDelivers DEF Handle

\* A daemon that has caught up, and for which nothing is under way, holds the
\* published events it subscribes to with all they descend from, and buffers
\* none.
LEMMA QuietDag ==
  ASSUME IInv, DeliveryInv, NEW d \in Daemons,
         up[d], incoming[d] = {}, fetching[d] = {}, CaughtUp(d)
  PROVE  Visible(d) = UNION {ancestors[f] : f \in published \cap Subscribed}
<1>1. /\ received[d] \subseteq published /\ received[d] \subseteq signed /\ received[d] \in SUBSET Ids
      /\ published \cap Subscribed \subseteq received[d]
      /\ ParentClosed(received[d])
  BY DEF IInv, TypeOK, DaemonInv, DeliveryInv, ParentClosed, CaughtUp
<1>2. \A f \in received[d] : f \in ancestors[f] /\ ancestors[f] \subseteq received[d]
  BY <1>1 DEF IInv, EventInv
<1>3. Visible(d) = received[d]
  BY <1>2 DEF Visible, ConnectedPart
<1>4. ASSUME NEW e \in received[d]
      PROVE  \E f \in published \cap Subscribed : e \in ancestors[f]
  BY <1>1, <1>2 DEF IInv, DaemonInv, Wanted
<1> QED BY <1>1, <1>2, <1>3, <1>4

(***************************************************************************)
(* When nothing is under way any more, all daemons that have caught up     *)
(* with the limit of their subscription hold the same DAG, find the same   *)
(* events canonical, and miss no published chat message, whatever was      *)
(* reordered, refused, fetched or lost with a crash on the way - if the    *)
(* relays keep enough.                                                     *)
(***************************************************************************)
THEOREM Agreement == ASSUME RelaysKeepEnough PROVE Spec => []QuietAgreement
<1>1. IInv /\ DeliveryInv => QuietAgreement
  <2> SUFFICES ASSUME IInv, DeliveryInv, Quiet
               PROVE  /\ \A c, d \in Daemons : CaughtUp(c) /\ CaughtUp(d) =>
                           Visible(c) = Visible(d) /\ Canonical(c) = Canonical(d)
                      /\ \A d \in Daemons : CaughtUp(d) =>
                           published \cap ChatMessages \subseteq Visible(d)
    BY DEF QuietAgreement
  <2> DEFINE dag == UNION {ancestors[f] : f \in published \cap Subscribed}
  <2>1. \A d \in Daemons : CaughtUp(d) => Visible(d) = dag
    BY QuietDag DEF Quiet
  <2>2. published \cap ChatMessages \subseteq dag
    <3>1. \A f \in published : f \in ancestors[f]
      BY DEF IInv, EventInv, TypeOK
    <3> QED BY <3>1 DEF Subscribed
  <2> HIDE DEF dag
  <2> QED BY <2>1, <2>2 DEF Canonical
<1>2. IInv /\ Init => DeliveryInv
  BY InitDelivery
<1>3. IInv /\ DeliveryInv /\ [Next]_vars => DeliveryInv'
  BY Delivery
<1> QED BY Invariance, <1>1, <1>2, <1>3, PTL DEF Spec

-----------------------------------------------------------------------------
(***************************************************************************)
(* The daemons keep Dags.                                                  *)
(***************************************************************************)

\* Graph!Acyclic, as a state predicate of Federation.
SignedAcyclic ==
  \A S \in SUBSET Ids :
     IsFiniteSet(S) /\ S # {} => \E e \in S : parents[e] \cap S = {}

\* A step signs nothing, or one new event on published ones.
LEMMA StepSigns ==
  ASSUME IInv, [Next]_vars
  PROVE  \/ UNCHANGED eventVars
         \/ \E e \in Ids \ signed, ps \in SUBSET published : Sign(e, ps)
<1>1. ASSUME NEW m \in ChatMessages \cup OtherEvents, PublishUserEvent(m)
      PROVE  \E e \in Ids \ signed, ps \in SUBSET published : Sign(e, ps)
  <2>1. PICK D \in SUBSET published : Sign(m, TipsOf(D))
    BY <1>1 DEF PublishUserEvent
  <2>2. TipsOf(D) \in SUBSET published /\ m \in Ids \ signed
    BY <1>1 DEF TipsOf, PublishUserEvent, Ids
  <2> QED BY <2>1, <2>2
<1>2. ASSUME NEW d \in Daemons, NEW e \in Ids, HandleInserted(d, e)
      PROVE  \/ UNCHANGED eventVars
             \/ \E a \in Ids \ signed, ps \in SUBSET published : Sign(a, ps)
  <2> DEFINE V == ConnectedPart(received[d] \cup {e})
  <2>1. UNCHANGED eventVars \/ MaybeAck(d, V)
    BY <1>2 DEF HandleInserted
  <2>2. TipsOf(V) \in SUBSET published
    BY <1>2, TakesEffect DEF HandleInserted, TipsOf, ConnectedPart, IInv, DaemonInv
  <2>3. ASSUME made[d] < MaxAcks, Sign(<<d, made[d] + 1>>, TipsOf(V))
        PROVE  \E a \in Ids \ signed, ps \in SUBSET published : Sign(a, ps)
    BY <2>2, <2>3, FreshAck DEF IInv
  <2> QED BY <2>1, <2>3 DEF MaybeAck
<1>3. ASSUME NEW d \in Daemons, NEW e \in Ids,
             HandleDuplicate(d, e) \/ HandleBuffered(d, e) \/ Fetch(d, e)
      PROVE  UNCHANGED eventVars
  BY <1>3 DEF HandleDuplicate, HandleBuffered, Fetch
<1>4. ASSUME \/ UNCHANGED vars
             \/ \E d \in Daemons, a \in Acks : PublishAck(d, a) \/ AckRefused(d, a)
             \/ \E d \in Daemons : Crash(d) \/ Restart(d)
      PROVE  UNCHANGED eventVars
  BY <1>4 DEF vars, eventVars, PublishAck, AckRefused, Crash, Restart
<1> QED BY StepCases, <1>1, <1>2, <1>3, <1>4

\* An event that is signed has no descendant yet, and does not name itself.
LEMMA SignKeepsAcyclic ==
  ASSUME TypeOK, EventInv, SignedAcyclic,
         NEW e \in Ids \ signed, NEW ps \in SUBSET published, Sign(e, ps)
  PROVE  SignedAcyclic'
<1>1. /\ e \notin signed /\ published \subseteq signed
      /\ \A f \in Ids : parents[f] \subseteq published
      /\ \A f \in Ids : f # e => parents'[f] = parents[f]
      /\ parents'[e] = ps
  BY DEF Sign, TypeOK, EventInv
<1>2. ASSUME NEW S \in SUBSET Ids, IsFiniteSet(S), S # {}
      PROVE  \E f \in S : parents'[f] \cap S = {}
  <2>1. CASE S \ {e} = {}
    BY <1>1, <1>2, <2>1
  <2>2. CASE S \ {e} # {}
    <3>1. IsFiniteSet(S \ {e})
      BY <1>2, FS_RemoveElement
    <3>2. PICK f \in S \ {e} : parents[f] \cap (S \ {e}) = {}
      BY <2>2, <3>1 DEF SignedAcyclic
    <3>3. parents'[f] = parents[f] /\ e \notin parents[f]
      BY <1>1
    <3> QED BY <3>2, <3>3
  <2> QED BY <2>1, <2>2
<1> QED BY <1>2 DEF SignedAcyclic

LEMMA AcyclicInvariance == Spec => []SignedAcyclic
<1>1. Init => SignedAcyclic
  BY DEF Init, SignedAcyclic
<1>2. IInv /\ SignedAcyclic /\ [Next]_vars => SignedAcyclic'
  <2> SUFFICES ASSUME IInv, SignedAcyclic, [Next]_vars PROVE SignedAcyclic'
    OBVIOUS
  <2>1. CASE UNCHANGED eventVars
    BY <2>1 DEF SignedAcyclic, eventVars
  <2>2. CASE \E e \in Ids \ signed, ps \in SUBSET published : Sign(e, ps)
    BY <2>2, SignKeepsAcyclic DEF IInv
  <2> QED BY <2>1, <2>2, StepSigns
<1> QED BY Invariance, <1>1, <1>2, PTL DEF Spec

\* What Federation keeps as the ancestors of a signed event are those of the
\* graph, and what it calls the connected part of a set is that of the graph.
LEMMA AncestorsOfGraph ==
  ASSUME TypeOK, EventInv
  PROVE  /\ \A e \in signed : Graph!Ancestors(e) = ancestors[e]
         /\ \A D \in SUBSET signed : ConnectedPart(D) = Graph!Connected(D)
<1>1. signed \subseteq Ids
  BY DEF TypeOK
<1>2. \A S : Graph!ParentClosed(S) = ParentClosed(S)
  BY DEF Graph!ParentClosed, ParentClosed
<1>3. ASSUME NEW e \in signed PROVE Graph!Ancestors(e) = ancestors[e]
  <2>1. /\ e \in ancestors[e] /\ ancestors[e] \in SUBSET Ids /\ ParentClosed(ancestors[e])
        /\ \A S \in SUBSET Ids : e \in S /\ ParentClosed(S) => ancestors[e] \subseteq S
    BY <1>1 DEF EventInv
  <2> QED BY <1>2, <2>1 DEF Graph!Ancestors
<1>4. ASSUME NEW D \in SUBSET signed
      PROVE  ConnectedPart(D) = Graph!Connected(D)
  <2>1. ASSUME NEW e \in ConnectedPart(D) PROVE e \in Graph!Connected(D)
    <3>1. e \in ancestors[e] /\ ancestors[e] \in SUBSET D /\ ParentClosed(ancestors[e])
      BY DEF ConnectedPart, EventInv
    <3> QED BY <1>2, <3>1 DEF Graph!Connected
  <2>2. ASSUME NEW e \in Graph!Connected(D) PROVE e \in ConnectedPart(D)
    <3>1. PICK S \in SUBSET D : ParentClosed(S) /\ e \in S
      BY <1>2 DEF Graph!Connected
    <3>2. e \in signed /\ S \in SUBSET Ids
      BY <1>1, <3>1
    <3>3. ancestors[e] \subseteq S
      BY <3>1, <3>2 DEF EventInv
    <3> QED BY <3>1, <3>3 DEF ConnectedPart
  <2> QED BY <2>1, <2>2
<1> QED BY <1>3, <1>4

\* Who has signed something that descends from e, among what is in V.
LEMMA SeenByOfGraph ==
  ASSUME TypeOK, EventInv, NEW V \in SUBSET signed, NEW e \in Ids
  PROVE  SeenBy(V, e) = Graph!SeenAlso(Graph!Unseen, V, Daemons)[e]
<1>1. Graph!SeenAlso(Graph!Unseen, V, Daemons)[e]
        = {p \in Daemons : \E f \in V : Signer[f] = p /\ e \in Graph!Ancestors(f)}
  BY DEF Graph!SeenAlso, Graph!Unseen
<1>2. V \subseteq Ids /\ \A f \in V : Graph!Ancestors(f) = ancestors[f]
  BY AncestorsOfGraph DEF TypeOK
<1>3. ASSUME NEW p \in Daemons, NEW f \in V, Signer[f] = p
      PROVE  \E n \in 1..MaxAcks : f = <<p, n>>
  <2>1. f \in Acks
    BY <1>2, <1>3, UserAssumption DEF Signer
  <2> QED BY <1>2, <1>3, <2>1 DEF Signer, Acks
<1>4. ASSUME NEW p \in Daemons, NEW n \in 1..MaxAcks, <<p, n>> \in V
      PROVE  Signer[<<p, n>>] = p
  <2>1. <<p, n>> \in Acks /\ <<p, n>> \in Ids
    BY DEF Acks, Ids
  <2> QED BY <2>1 DEF Signer
<1>5. ASSUME NEW p \in Daemons
      PROVE  (\E n \in 1..MaxAcks : <<p, n>> \in V /\ e \in ancestors[<<p, n>>])
               <=> \E f \in V : Signer[f] = p /\ e \in Graph!Ancestors(f)
  <2>1. ASSUME NEW f \in V, Signer[f] = p, e \in Graph!Ancestors(f)
        PROVE  \E n \in 1..MaxAcks : <<p, n>> \in V /\ e \in ancestors[<<p, n>>]
    <3>1. PICK n \in 1..MaxAcks : f = <<p, n>>
      BY <1>3, <2>1
    <3> QED BY <1>2, <2>1, <3>1
  <2>2. ASSUME NEW n \in 1..MaxAcks, <<p, n>> \in V, e \in ancestors[<<p, n>>]
        PROVE  \E f \in V : Signer[f] = p /\ e \in Graph!Ancestors(f)
    BY <1>2, <1>4, <2>2
  <2> QED BY <2>1, <2>2
<1> QED BY <1>1, <1>5 DEF SeenBy

(***************************************************************************)
(* However users, daemons, relays and crashes interleave, the signed       *)
(* events form an acyclic graph, and what a daemon stores, and whom it     *)
(* counts for an event, is what a Dag computes that was given the events   *)
(* the daemon received in this life: with DeliveryOrderForgotten of        *)
(* DagProofs, every result about Federation is one about daemons that run  *)
(* Dag.                                                                    *)
(***************************************************************************)
THEOREM EveryDaemonKeepsADag == Spec => []DaemonsKeepDags
<1>1. IInv /\ SignedAcyclic => DaemonsKeepDags
  <2>1. ASSUME SignedAcyclic PROVE Graph!Acyclic
    <3>1. \A S : Graph!IsFiniteSet(S) <=> IsFiniteSet(S)
      BY DEF Graph!IsFiniteSet, IsFiniteSet
    <3> QED BY <2>1, <3>1 DEF SignedAcyclic, Graph!Acyclic
  <2>2. ASSUME IInv, NEW d \in Daemons
        PROVE  /\ Visible(d) = Graph!Connected(received[d])
               /\ \A e \in Ids : SeenBy(Visible(d), e)
                    = Graph!SeenAlso(Graph!Unseen, Visible(d), Daemons)[e]
    <3>1. received[d] \in SUBSET signed /\ Visible(d) \in SUBSET signed
      BY <2>2 DEF IInv, TypeOK, DaemonInv, Visible, ConnectedPart
    <3> QED BY <2>2, <3>1, AncestorsOfGraph, SeenByOfGraph DEF IInv, Visible
  <2> QED BY <2>1, <2>2 DEF DaemonsKeepDags
<1> QED BY Invariance, AcyclicInvariance, <1>1, PTL
=============================================================================
