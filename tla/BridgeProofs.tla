---------------------------- MODULE BridgeProofs ----------------------------
(***************************************************************************)
(* That a page neither loses nor repeats an event, for any number of pages *)
(* and events, any faults and any number of reloads.                       *)
(*                                                                         *)
(* A job and a publication are two phases of the same handling, so the     *)
(* invariant speaks of both: which jobs may exist beside which counts, and *)
(* in which of the seen sets an event that has either of them is.          *)
(***************************************************************************)
EXTENDS Bridge, TLAPS

N2L == "nostr->libp2p"
L2N == "libp2p->nostr"
L2L == "libp2p->libp2p"

\* Of one page: its jobs J, its counts C, the ids R and L seen on either side.
JobsFit(J, C, R, L) ==
  \A j \in J :
    /\ j.via = "relay" =>
         /\ j.at \in {"store", "toLibp2p"}
         /\ j.env.event \in R /\ C[N2L][j.env.event] = 0
    /\ j.via = "libp2p" =>
         /\ j.at \in {"store", "toRelays", "forward"}
         /\ j.env.event \in L /\ C[L2L][j.env.event] = 0
         /\ j.at # "forward" => C[L2N][j.env.event] = 0
         /\ j.at = "toRelays" => ~j.onRelay

CountsFit(C, R, L) ==
  \A e \in Events :
    /\ \A d \in Directions : C[d][e] <= 1
    /\ C[N2L][e] > 0 => e \in R
    /\ C[L2N][e] > 0 \/ C[L2L][e] > 0 => e \in L

\* What is on its way from the relays, and what is on its way to them.
Out(J, C, e) == C[N2L][e] > 0 \/ \E j \in J : j.via = "relay" /\ j.env.event = e
In(J, C, e) ==
  C[L2N][e] > 0 \/ \E j \in J : j.via = "libp2p" /\ ~j.onRelay /\ j.env.event = e

Fits(J, C, R, L) ==
  /\ JobsFit(J, C, R, L)
  /\ CountsFit(C, R, L)
  /\ \A e \in Events : ~(Out(J, C, e) /\ In(J, C, e))

PageInv ==
  \A b \in Bridges : Fits(jobs[b], carried[b], seenRelay[b], seenLibp2p[b])

\* What was brought back by a reload stays known, and is not on its way out.
RestoredInv ==
  /\ restored \in [Bridges -> SUBSET Events]
  /\ \A b \in Bridges : \A e \in restored[b] :
       e \in seenProcessed[b] /\ ~Out(jobs[b], carried[b], e)

\* The cache knows no id that the page does not.
CacheInv == \A b \in Bridges : Remembered(b) \subseteq seenProcessed[b]

IInv == TypeOK /\ PageInv /\ RestoredInv /\ SeenIsStored /\ CacheInv

Counts == [Directions -> [Events -> Nat]]
NoCounts == [d \in Directions |-> [e \in Events |-> 0]]
Single(J) == \A j, k \in J : j.env.event = k.env.event /\ j.via = k.via => j = k

-----------------------------------------------------------------------------
(* The phases of one page: what may happen to its jobs and counts. *)

LEMMA JobType ==
  ASSUME NEW j \in Job
  PROVE  j.env.event \in Events /\ j.via \in {"relay", "libp2p"}
  BY DEF Job, Envelope

LEMMA EmptyFits ==
  ASSUME NEW R, NEW L PROVE Fits({}, NoCounts, R, L)
  <1>1. \A d \in Directions, e \in Events : NoCounts[d][e] = 0
    BY DEF NoCounts
  <1>2. N2L \in Directions /\ L2N \in Directions /\ L2L \in Directions
    BY DEF Directions, N2L, L2N, L2L
  <1>3. CountsFit(NoCounts, R, L)
    BY <1>1, <1>2 DEF CountsFit
  <1>4. \A e \in Events : ~Out({}, NoCounts, e)
    BY <1>1, <1>2 DEF Out
  <1> QED BY <1>3, <1>4 DEF Fits, JobsFit

\* Seeing more ids changes nothing.
LEMMA SeenGrows ==
  ASSUME NEW J, NEW C, NEW R, NEW L, NEW R2, NEW L2,
         Fits(J, C, R, L), R \subseteq R2, L \subseteq L2
  PROVE  Fits(J, C, R2, L2)
  BY DEF Fits, JobsFit, CountsFit

\* A job begins for an event that has not been processed.
LEMMA RelayJobFits ==
  ASSUME NEW C \in Counts, NEW J \in SUBSET Job, NEW R, NEW L,
         Fits(J, C, R, L), NEW j \in Job,
         j.via = "relay", j.at = "store",
         j.env.event \notin R, j.env.event \notin L
  PROVE  /\ Fits(J \union {j}, C, R \union {j.env.event}, L)
         /\ Single(J) => Single(J \union {j})
  <1> DEFINE e == j.env.event
  <1>1. e \in Events
    BY JobType
  <1>2. C[N2L][e] = 0 /\ C[L2N][e] = 0 /\ ~(C[N2L][e] > 0)
    BY <1>1 DEF Fits, CountsFit, Counts, Directions, N2L, L2N
  <1>3. \A k \in J : k.env.event # e
    BY JobType DEF Fits, JobsFit
  <1>4. JobsFit(J \union {j}, C, R \union {e}, L)
    BY <1>2 DEF Fits, JobsFit
  <1>5. CountsFit(C, R \union {e}, L)
    BY DEF Fits, CountsFit
  <1>6. ASSUME NEW f \in Events, Out(J \union {j}, C, f), In(J \union {j}, C, f)
        PROVE  FALSE
    <2>1. CASE f = e
      BY <1>2, <1>3, <1>6, <2>1 DEF In
    <2>2. CASE f # e
      BY <1>6, <2>2 DEF Fits, Out, In
    <2> QED BY <2>1, <2>2
  <1>7. Single(J) => Single(J \union {j})
    BY <1>3 DEF Single
  <1> QED BY <1>4, <1>5, <1>6, <1>7 DEF Fits

\* A job begins for an event heard over libp2p for the first time.
LEMMA Libp2pJobFits ==
  ASSUME NEW C \in Counts, NEW J \in SUBSET Job, NEW R, NEW L,
         Fits(J, C, R, L), NEW j \in Job,
         j.via = "libp2p", j.at = "store", j.onRelay <=> j.env.event \in R,
         j.env.event \notin L
  PROVE  /\ Fits(J \union {j}, C, R, L \union {j.env.event})
         /\ Single(J) => Single(J \union {j})
  <1> DEFINE e == j.env.event
  <1>1. e \in Events
    BY JobType
  <1>2. C[L2N][e] = 0 /\ C[L2L][e] = 0
    BY <1>1 DEF Fits, CountsFit, Counts, Directions, L2N, L2L
  <1>3. \A k \in J : k.via = "libp2p" => k.env.event # e
    BY DEF Fits, JobsFit
  <1>4. JobsFit(J \union {j}, C, R, L \union {e})
    BY <1>2 DEF Fits, JobsFit
  <1>5. CountsFit(C, R, L \union {e})
    BY DEF Fits, CountsFit
  <1>6. ASSUME NEW f \in Events, Out(J \union {j}, C, f), In(J \union {j}, C, f)
        PROVE  FALSE
    <2>1. Out(J, C, f)
      BY <1>6 DEF Out
    <2>2. f \in R
      BY <2>1 DEF Out, Fits, JobsFit, CountsFit
    <2>3. In(J, C, f)
      BY <1>6, <2>2 DEF In
    <2> QED BY <2>1, <2>3 DEF Fits
  <1>7. Single(J) => Single(J \union {j})
    BY <1>3 DEF Single
  <1> QED BY <1>4, <1>5, <1>6, <1>7 DEF Fits

\* A job goes on, or ends, without having published.
LEMMA JobMoves ==
  ASSUME NEW C \in Counts, NEW J \in SUBSET Job, Single(J), NEW R, NEW L,
         Fits(J, C, R, L), NEW j \in J, NEW next \in SUBSET Job,
         \A k \in next : /\ k.via = j.via /\ k.env = j.env /\ k.onRelay = j.onRelay
                         /\ k.via = "relay" => k.at = "toLibp2p"
                         /\ k.via = "libp2p" => k.at \in {"toRelays", "forward"}
                         /\ k.at = "toRelays" => ~k.onRelay /\ j.at # "forward",
         \A k, l \in next : k = l
  PROVE  /\ Fits((J \ {j}) \union next, C, R, L)
         /\ Single((J \ {j}) \union next)
  <1> DEFINE J2 == (J \ {j}) \union next
  <1>1. JobsFit(J2, C, R, L)
    BY DEF Fits, JobsFit
  <1>2. \A e \in Events : (Out(J2, C, e) => Out(J, C, e)) /\ (In(J2, C, e) => In(J, C, e))
    BY DEF Out, In
  <1>3. Single(J2)
    BY DEF Single
  <1> QED BY <1>1, <1>2, <1>3 DEF Fits

\* A publication is counted when its job ends, or goes on to forward.
Counted(C, d, e) == [C EXCEPT ![d][e] = @ + 1]

LEMMA JobPublishes ==
  ASSUME NEW C \in Counts, NEW J \in SUBSET Job, Single(J), NEW R, NEW L,
         Fits(J, C, R, L), NEW j \in J, NEW next \in SUBSET Job,
         NEW d \in Directions,
         \/ d = N2L /\ j.via = "relay" /\ next = {}
         \/ d = L2N /\ j.at = "toRelays" /\ j.via = "libp2p"
         \/ d = L2L /\ j.via = "libp2p" /\ j.at = "forward" /\ next = {},
         \A k \in next : /\ k.via = j.via /\ k.env = j.env /\ k.onRelay = j.onRelay
                         /\ k.at = "forward",
         \A k, l \in next : k = l
  PROVE  /\ Fits((J \ {j}) \union next, Counted(C, d, j.env.event), R, L)
         /\ Single((J \ {j}) \union next)
         /\ Counted(C, d, j.env.event) \in Counts
  <1> DEFINE J2 == (J \ {j}) \union next
             e == j.env.event
             C2 == Counted(C, d, e)
  <1>1. e \in Events /\ j \in Job
    BY JobType
  <1>2. C2 \in Counts /\ C2[d][e] = C[d][e] + 1
    BY <1>1 DEF Counts, Counted
  <1>3. \A c \in Directions, f \in Events : c # d \/ f # e => C2[c][f] = C[c][f]
    BY <1>1 DEF Counts, Counted
  <1>4. N2L \in Directions /\ L2N \in Directions /\ L2L \in Directions
        /\ N2L # L2N /\ N2L # L2L /\ L2N # L2L
    BY DEF Directions, N2L, L2N, L2L
  <1>5. C[d][e] = 0
    BY DEF Fits, JobsFit
  <1>6. \A k \in J \ {j} : k.env.event = e => k.via # j.via
    BY DEF Single
  <1>7. \A k \in J2 : k.env.event \in Events
    BY JobType
  <1> HIDE DEF C2
  <1>8. JobsFit(J2, C2, R, L)
    <2> SUFFICES ASSUME NEW k \in J2
                 PROVE  /\ k.via = "relay" =>
                             /\ k.at \in {"store", "toLibp2p"}
                             /\ k.env.event \in R /\ C2[N2L][k.env.event] = 0
                        /\ k.via = "libp2p" =>
                             /\ k.at \in {"store", "toRelays", "forward"}
                             /\ k.env.event \in L /\ C2[L2L][k.env.event] = 0
                             /\ k.at # "forward" => C2[L2N][k.env.event] = 0
                             /\ k.at = "toRelays" => ~k.onRelay
      BY DEF JobsFit
    <2>1. CASE k \in J \ {j}
      BY <1>3, <1>4, <1>6, <1>7, <2>1 DEF Fits, JobsFit
    <2>2. CASE k \in next
      BY <1>1, <1>3, <1>4, <2>2 DEF Fits, JobsFit
    <2> QED BY <2>1, <2>2
  <1>9. CountsFit(C2, R, L)
    <2>1. ASSUME NEW f \in Events, NEW c \in Directions PROVE C2[c][f] <= 1
      BY <1>2, <1>3, <1>5, <2>1 DEF Fits, CountsFit, Counts
    <2>2. j.via = "relay" => e \in R
      BY DEF Fits, JobsFit
    <2>3. j.via = "libp2p" => e \in L
      BY DEF Fits, JobsFit
    <2>4. ASSUME NEW f \in Events
          PROVE  /\ C2[N2L][f] > 0 => f \in R
                 /\ C2[L2N][f] > 0 \/ C2[L2L][f] > 0 => f \in L
      BY <1>3, <1>4, <2>2, <2>3, <2>4 DEF Fits, CountsFit
    <2> QED BY <2>1, <2>4 DEF CountsFit
  <1>10. \A f \in Events : /\ Out(J2, C2, f) => Out(J, C, f)
                           /\ In(J2, C2, f) => In(J, C, f)
    <2> SUFFICES ASSUME NEW f \in Events
                 PROVE  /\ Out(J2, C2, f) => Out(J, C, f)
                        /\ In(J2, C2, f) => In(J, C, f)
      OBVIOUS
    <2>1. j.at = "toRelays" /\ j.via = "libp2p" => ~j.onRelay
      BY DEF Fits, JobsFit
    <2>2. Out(J2, C2, f) => Out(J, C, f)
      BY <1>3, <1>4 DEF Out
    <2>3. In(J2, C2, f) => In(J, C, f)
      BY <1>3, <1>4, <2>1 DEF In
    <2> QED BY <2>2, <2>3
  <1>11. Single(J2)
    BY DEF Single
  <1> QED BY <1>2, <1>8, <1>9, <1>10, <1>11 DEF Fits, C2

-----------------------------------------------------------------------------
LEMMA InitIInv == Init => IInv
  <1> SUFFICES ASSUME Init PROVE IInv
    OBVIOUS
  <1>1. TypeOK
    BY DEF Init, TypeOK, Directions
  <1>2. PageInv
    BY EmptyFits DEF Init, PageInv, NoCounts
  <1>3. RestoredInv
    BY DEF Init, RestoredInv
  <1>4. SeenIsStored
    BY DEF Init, SeenIsStored
  <1>5. CacheInv
    BY DEF Init, CacheInv, Remembered
  <1> QED BY <1>1, <1>2, <1>3, <1>4, <1>5 DEF IInv

-----------------------------------------------------------------------------
(* The steps. What a step does to one page leaves the others alone. *)

\* The invariant for the page b, and for the others by what they keep.
LEMMA OnePage ==
  ASSUME IInv, TypeOK', NEW b \in Bridges,
         \A c \in Bridges \ {b} :
           /\ jobs'[c] = jobs[c] /\ carried'[c] = carried[c]
           /\ seenRelay'[c] = seenRelay[c] /\ seenLibp2p'[c] = seenLibp2p[c]
           /\ restored'[c] = restored[c] /\ db'[c] = db[c]
           /\ spoilt'[c] = spoilt[c] /\ cache'[c] = cache[c],
         restored' \in [Bridges -> SUBSET Events],
         Fits(jobs'[b], carried'[b], seenRelay'[b], seenLibp2p'[b]),
         \A e \in restored'[b] :
           e \in seenProcessed'[b] /\ ~Out(jobs'[b], carried'[b], e),
         \A e \in seenProcessed'[b] :
           \/ e \in db'[b] \union spoilt'[b]
           \/ \E j \in jobs'[b] : j.env.event = e /\ j.at = "store",
         cache'[b].relay \union cache'[b].libp2p \subseteq seenProcessed'[b]
  PROVE  IInv'
  <1>1. \A c \in Bridges : seenProcessed[c] = seenRelay[c] \union seenLibp2p[c]
    BY DEF IInv, TypeOK
  <1>2. \A c \in Bridges : seenProcessed'[c] = seenRelay'[c] \union seenLibp2p'[c]
    BY DEF TypeOK
  <1>3. ASSUME NEW c \in Bridges \ {b} PROVE seenProcessed'[c] = seenProcessed[c]
    <2>1. seenRelay'[c] = seenRelay[c] /\ seenLibp2p'[c] = seenLibp2p[c]
      OBVIOUS
    <2>2. seenProcessed[c] = seenRelay[c] \union seenLibp2p[c]
      BY <1>1
    <2>3. seenProcessed'[c] = seenRelay'[c] \union seenLibp2p'[c]
      BY <1>2
    <2> QED BY <2>1, <2>2, <2>3, Zenon
  <1>4. PageInv'
    BY DEF IInv, PageInv
  <1>5. RestoredInv'
    BY <1>3 DEF IInv, RestoredInv
  <1>6. SeenIsStored'
    BY <1>3 DEF IInv, SeenIsStored
  <1>7. CacheInv'
    BY <1>3 DEF IInv, CacheInv, Remembered
  <1> QED BY <1>4, <1>5, <1>6, <1>7 DEF IInv

\* What the invariant says of one page, for use in its steps.
LEMMA PageFacts ==
  ASSUME IInv, NEW b \in Bridges
  PROVE  /\ jobs[b] \in SUBSET Job /\ Single(jobs[b])
         /\ carried[b] \in Counts
         /\ seenRelay[b] \in SUBSET Events /\ seenLibp2p[b] \in SUBSET Events
         /\ seenProcessed[b] = seenRelay[b] \union seenLibp2p[b]
         /\ Fits(jobs[b], carried[b], seenRelay[b], seenLibp2p[b])
         /\ \A e \in restored[b] : e \in seenProcessed[b] /\ ~Out(jobs[b], carried[b], e)
  BY DEF IInv, TypeOK, Single, Counts, PageInv, RestoredInv

\* A topic message is an envelope, whoever sends it.
LEMMA GossipType ==
  ASSUME TypeOK, NEW env \in Envelope, Gossip(env)
  PROVE  inbox' \in [Bridges -> SUBSET Envelope] /\ topic' \subseteq Events
  BY DEF Gossip, TypeOK, Envelope

\* Pages are served what relays hold.
LEMMA AcceptType ==
  ASSUME TypeOK, NEW e \in Events, Accept(e)
  PROVE  relays' \subseteq Events /\ served' \in [Bridges -> SUBSET relays']
  BY DEF Accept, TypeOK

LEMMA HandleNostrEventKeeps ==
  ASSUME IInv, NEW b \in Bridges, NEW e \in Events, HandleNostrEvent(b, e)
  PROVE  IInv'
  <1> DEFINE j == [via |-> "relay", env |-> FromRelay(e), onRelay |-> TRUE,
                   at |-> "store"]
  <1>1. /\ seenRelay' = [seenRelay EXCEPT ![b] = @ \union {e}]
        /\ seenProcessed' = [seenProcessed EXCEPT ![b] = @ \union {e}]
        /\ UNCHANGED <<relays, topic, served, inbox, seenLibp2p, cache, db, carried,
                       restored, spoilt>>
    BY DEF HandleNostrEvent
  <1>2. TypeOK
    BY DEF IInv
  <1>3. j \in Job /\ j.env.event = e /\ j.via = "relay" /\ j.at = "store"
    BY DEF Job, Envelope, FromRelay, Directions
  <1>4. /\ jobs' = [jobs EXCEPT ![b] = jobs'[b]]
        /\ \/ e \in seenProcessed[b] /\ jobs'[b] = jobs[b]
           \/ e \notin seenProcessed[b] /\ jobs'[b] = jobs[b] \union {j}
    BY <1>2 DEF HandleNostrEvent, StartRelayJob, TypeOK
  <1> HIDE DEF j
  <1>5. /\ seenRelay'[b] = seenRelay[b] \union {e}
        /\ seenLibp2p'[b] = seenLibp2p[b] /\ carried'[b] = carried[b]
        /\ seenProcessed'[b] = seenProcessed[b] \union {e}
    BY <1>1, <1>2 DEF TypeOK
  <1>6. /\ Fits(jobs'[b], carried'[b], seenRelay'[b], seenLibp2p'[b])
        /\ Single(jobs'[b]) /\ jobs'[b] \in SUBSET Job
    <2>1. /\ jobs[b] \in SUBSET Job /\ Single(jobs[b]) /\ carried[b] \in Counts
          /\ seenProcessed[b] = seenRelay[b] \union seenLibp2p[b]
          /\ Fits(jobs[b], carried[b], seenRelay[b], seenLibp2p[b])
      BY PageFacts
    <2>2. CASE jobs'[b] = jobs[b]
      <3>1. Fits(jobs[b], carried[b], seenRelay[b] \union {e}, seenLibp2p[b])
        BY <2>1, SeenGrows
      <3> QED BY <1>5, <2>1, <2>2, <3>1
    <2>3. CASE e \notin seenProcessed[b] /\ jobs'[b] = jobs[b] \union {j}
      <3>1. /\ Fits(jobs[b] \union {j}, carried[b], seenRelay[b] \union {e}, seenLibp2p[b])
            /\ Single(jobs[b] \union {j})
        BY <1>3, <2>1, <2>3, RelayJobFits
      <3> QED BY <1>3, <1>5, <2>1, <2>3, <3>1
    <2> QED BY <1>4, <2>2, <2>3
  <1>7. TypeOK'
    <2>1. jobs' \in [Bridges -> SUBSET Job] /\ \A c \in Bridges : Single(jobs'[c])
      BY <1>2, <1>4, <1>6 DEF TypeOK, Single
    <2>2. /\ seenRelay' \in [Bridges -> SUBSET Events]
          /\ seenProcessed' = [c \in Bridges |-> seenRelay'[c] \union seenLibp2p'[c]]
      BY <1>1, <1>2 DEF TypeOK
    <2> QED BY <1>1, <1>2, <2>1, <2>2 DEF TypeOK, Single
  <1>8. \A f \in restored[b] : f \in seenProcessed'[b] /\ ~Out(jobs'[b], carried'[b], f)
    BY <1>3, <1>4, <1>5, PageFacts DEF Out
  <1>9. \A f \in seenProcessed'[b] :
           \/ f \in db[b] \union spoilt[b]
           \/ \E k \in jobs'[b] : k.env.event = f /\ k.at = "store"
    BY <1>3, <1>4, <1>5 DEF IInv, SeenIsStored
  <1>10. cache[b].relay \union cache[b].libp2p \subseteq seenProcessed'[b]
    BY <1>5 DEF IInv, CacheInv, Remembered
  <1>11. \A c \in Bridges \ {b} : jobs'[c] = jobs[c] /\ seenRelay'[c] = seenRelay[c]
    BY <1>1, <1>2, <1>4 DEF TypeOK
  <1>12. restored \in [Bridges -> SUBSET Events]
    BY DEF IInv, RestoredInv
  <1> QED BY <1>1, <1>6, <1>7, <1>8, <1>9, <1>10, <1>11, <1>12, OnePage

LEMMA HandleLibp2pMessageKeeps ==
  ASSUME IInv, NEW b \in Bridges, NEW env \in inbox[b], HandleLibp2pMessage(b, env)
  PROVE  IInv'
  <1> DEFINE e == env.event
             j == [via |-> "libp2p", env |-> env, onRelay |-> e \in seenRelay[b],
                   at |-> "store"]
  <1>1. /\ inbox' = [inbox EXCEPT ![b] = @ \ {env}]
        /\ seenLibp2p' = [seenLibp2p EXCEPT ![b] = @ \union {e}]
        /\ seenProcessed' = [seenProcessed EXCEPT ![b] = @ \union {e}]
        /\ spoilt' = [spoilt EXCEPT ![b] =
             @ \union {f \in {e} \ seenProcessed[b] : ~env.genuine}]
        /\ UNCHANGED <<relays, topic, served, seenRelay, cache, db, carried, restored>>
    BY DEF HandleLibp2pMessage
  <1>2. TypeOK
    BY DEF IInv
  <1>3. env \in Envelope /\ e \in Events
    BY <1>2 DEF TypeOK, Envelope
  <1>4. /\ j \in Job /\ j.env.event = e /\ j.via = "libp2p" /\ j.at = "store"
        /\ (j.onRelay <=> e \in seenRelay[b])
    <2>1. j \in Job /\ j.env.event = e /\ j.via = "libp2p" /\ j.at = "store"
      BY <1>3 DEF Job
    <2>2. j.onRelay = (e \in seenRelay[b])
      OBVIOUS
    <2>3. j.onRelay <=> e \in seenRelay[b]
      BY <2>2, Zenon
    <2> QED BY <2>1, <2>3
  <1>5. /\ jobs' = [jobs EXCEPT ![b] = jobs'[b]]
        /\ \/ ~TakesUp(b, env) /\ jobs'[b] = jobs[b]
           \/ TakesUp(b, env) /\ jobs'[b] = jobs[b] \union {j}
    BY <1>2 DEF HandleLibp2pMessage, StartLibp2pJob, TypeOK
  <1> HIDE DEF j
  <1>6. /\ seenLibp2p'[b] = seenLibp2p[b] \union {e}
        /\ seenRelay'[b] = seenRelay[b] /\ carried'[b] = carried[b]
        /\ seenProcessed'[b] = seenProcessed[b] \union {e}
        /\ spoilt'[b] = spoilt[b] \union {f \in {e} \ seenProcessed[b] : ~env.genuine}
    BY <1>1, <1>2 DEF TypeOK
  <1>7. /\ Fits(jobs'[b], carried'[b], seenRelay'[b], seenLibp2p'[b])
        /\ Single(jobs'[b]) /\ jobs'[b] \in SUBSET Job
    <2>1. CASE ~TakesUp(b, env) /\ jobs'[b] = jobs[b]
      BY <1>6, <2>1, PageFacts, SeenGrows
    <2>2. CASE TakesUp(b, env) /\ jobs'[b] = jobs[b] \union {j}
      <3>1. e \notin seenLibp2p[b]
        BY <2>2 DEF TakesUp
      <3>2. /\ Fits(jobs[b] \union {j}, carried[b], seenRelay[b], seenLibp2p[b] \union {e})
            /\ Single(jobs[b] \union {j})
        <4>1. /\ jobs[b] \in SUBSET Job /\ Single(jobs[b]) /\ carried[b] \in Counts
              /\ Fits(jobs[b], carried[b], seenRelay[b], seenLibp2p[b])
          BY PageFacts
        <4>2. /\ j \in Job /\ j.via = "libp2p" /\ j.at = "store" /\ j.env.event = e
              /\ (j.onRelay <=> j.env.event \in seenRelay[b])
              /\ j.env.event \notin seenLibp2p[b]
          BY <1>4, <3>1, Zenon
        <4> HIDE DEF e
        <4> QED BY <4>1, <4>2, Libp2pJobFits
      <3>3. jobs'[b] \in SUBSET Job
        BY <1>4, <2>2, PageFacts
      <3> QED BY <1>6, <2>2, <3>2, <3>3
    <2> QED BY <1>5, <2>1, <2>2
  <1>8. TypeOK'
    <2>1. jobs' \in [Bridges -> SUBSET Job] /\ \A c \in Bridges : Single(jobs'[c])
      BY <1>2, <1>5, <1>7 DEF TypeOK, Single
    <2>2. /\ seenLibp2p' \in [Bridges -> SUBSET Events]
          /\ seenProcessed' = [c \in Bridges |-> seenRelay'[c] \union seenLibp2p'[c]]
      BY <1>1, <1>2, <1>3 DEF TypeOK
    <2>3. /\ inbox' \in [Bridges -> SUBSET Envelope]
          /\ spoilt' \in [Bridges -> SUBSET Events]
      BY <1>1, <1>2, <1>3 DEF TypeOK
    <2> QED BY <1>1, <1>2, <2>1, <2>2, <2>3 DEF TypeOK, Single
  <1>9. \A f \in restored[b] : f \in seenProcessed'[b] /\ ~Out(jobs'[b], carried'[b], f)
    BY <1>4, <1>5, <1>6, PageFacts DEF Out
  <1>10. \A f \in seenProcessed'[b] :
           \/ f \in db[b] \union spoilt'[b]
           \/ \E k \in jobs'[b] : k.env.event = f /\ k.at = "store"
    <2>1. \A f \in seenProcessed[b] :
             \/ f \in db[b] \union spoilt[b]
             \/ \E k \in jobs[b] : k.env.event = f /\ k.at = "store"
      BY DEF IInv, SeenIsStored
    <2>2. ASSUME e \notin seenProcessed[b]
          PROVE  e \in spoilt'[b] \/ \E k \in jobs'[b] : k.env.event = e /\ k.at = "store"
      BY <1>4, <1>5, <1>6, <2>2, PageFacts DEF TakesUp
    <2> QED BY <1>5, <1>6, <2>1, <2>2
  <1>11. cache[b].relay \union cache[b].libp2p \subseteq seenProcessed'[b]
    BY <1>6 DEF IInv, CacheInv, Remembered
  <1>12. \A c \in Bridges \ {b} : /\ jobs'[c] = jobs[c] /\ spoilt'[c] = spoilt[c]
                                  /\ seenLibp2p'[c] = seenLibp2p[c]
    BY <1>1, <1>2, <1>5 DEF TypeOK
  <1>13. restored \in [Bridges -> SUBSET Events]
    BY DEF IInv, RestoredInv
  <1> QED BY <1>1, <1>7, <1>8, <1>9, <1>10, <1>11, <1>12, <1>13, OnePage

\* The jobs a step leaves: one job taken away, or moved to a next await.
Moved(j, next) == {[j EXCEPT !.at = n] : n \in next}

LEMMA ContinueEffect ==
  ASSUME TypeOK, NEW b \in Bridges, NEW j \in jobs[b],
         NEW next \in SUBSET {"toLibp2p", "toRelays", "forward"},
         \A m, n \in next : m = n,
         Continue(b, j, next)
  PROVE  /\ Moved(j, next) \in SUBSET Job
         /\ jobs' = [jobs EXCEPT ![b] = (jobs[b] \ {j}) \union Moved(j, next)]
         /\ \A k \in Moved(j, next) :
              /\ k.via = j.via /\ k.env = j.env
              /\ k.onRelay = j.onRelay /\ k.at \in next
         /\ \A k, l \in Moved(j, next) : k = l
  <1> DEFINE moved == Moved(j, next)
  <1>1. j \in Job
    BY DEF TypeOK
  <1>2. ASSUME NEW n \in next, NEW k, k = [j EXCEPT !.at = n]
        PROVE  /\ k \in Job /\ k.via = j.via /\ k.env = j.env
               /\ k.onRelay = j.onRelay /\ k.at = n
    BY <1>1, <1>2 DEF Job
  <1>3. \A k \in moved : \E n \in next : k = [j EXCEPT !.at = n]
    BY DEF Moved
  <1>4. jobs' = [jobs EXCEPT ![b] = (jobs[b] \ {j}) \union moved]
    BY DEF Continue, Moved
  <1>5. ASSUME NEW k \in moved
        PROVE  /\ k \in Job /\ k.via = j.via /\ k.env = j.env
               /\ k.onRelay = j.onRelay /\ k.at \in next
    <2>1. PICK n \in next : k = [j EXCEPT !.at = n]
      BY <1>3
    <2> QED BY <1>2, <2>1
  <1>6. \A k, l \in moved : k = l
    BY <1>3
  <1> QED BY <1>4, <1>5, <1>6

\* What a step of a job has to show; the rest of the page is as it was.
LEMMA JobStepFrame ==
  ASSUME IInv, NEW b \in Bridges, NEW j \in jobs[b], NEW moved \in SUBSET Job,
         jobs' = [jobs EXCEPT ![b] = (jobs[b] \ {j}) \union moved],
         carried' \in [Bridges -> Counts],
         Fits((jobs[b] \ {j}) \union moved, carried'[b], seenRelay[b], seenLibp2p[b]),
         Single((jobs[b] \ {j}) \union moved),
         \A e \in Events : Out((jobs[b] \ {j}) \union moved, carried'[b], e)
                             => Out(jobs[b], carried[b], e),
         db' \in [Bridges -> SUBSET Events], spoilt' \in [Bridges -> SUBSET Events],
         db[b] \subseteq db'[b], spoilt[b] \subseteq spoilt'[b],
         j.at = "store" => j.env.event \in db'[b] \union spoilt'[b],
         \A c \in Bridges \ {b} :
           carried'[c] = carried[c] /\ db'[c] = db[c] /\ spoilt'[c] = spoilt[c],
         relays' \subseteq Events, topic' \subseteq Events,
         served' \in [Bridges -> SUBSET relays'],
         inbox' \in [Bridges -> SUBSET Envelope],
         UNCHANGED <<seen, cache, restored>>
  PROVE  IInv'
  <1>1. TypeOK /\ UNCHANGED <<seenRelay, seenLibp2p, seenProcessed>>
    BY DEF IInv, seen
  <1>2. jobs'[b] = (jobs[b] \ {j}) \union moved
    BY <1>1 DEF TypeOK
  <1>3. \A c \in Bridges \ {b} : jobs'[c] = jobs[c]
    BY <1>1 DEF TypeOK
  <1>4. TypeOK'
    <2>1. jobs' \in [Bridges -> SUBSET Job] /\ \A c \in Bridges : Single(jobs'[c])
      <3>1. jobs \in [Bridges -> SUBSET Job]
            /\ \A c \in Bridges : Single(jobs[c])
        BY <1>1 DEF TypeOK, Single
      <3> QED BY <1>2, <1>3, <3>1
    <2> QED BY <1>1, <2>1 DEF TypeOK, Single, Counts
  <1>5. \A e \in restored[b] : e \in seenProcessed[b] /\ ~Out(jobs'[b], carried'[b], e)
    <2>1. restored[b] \subseteq Events
      BY DEF IInv, RestoredInv
    <2> QED BY <1>2, <2>1, PageFacts
  <1>6. ASSUME NEW e \in seenProcessed[b]
        PROVE  \/ e \in db'[b] \union spoilt'[b]
               \/ \E k \in jobs'[b] : k.env.event = e /\ k.at = "store"
    <2>1. CASE e \in db[b] \union spoilt[b]
      BY <2>1
    <2>2. ASSUME NEW k \in jobs[b], k.env.event = e, k.at = "store"
          PROVE  \/ e \in db'[b] \union spoilt'[b]
                 \/ \E l \in jobs'[b] : l.env.event = e /\ l.at = "store"
      <3>1. CASE k = j
        BY <2>2, <3>1
      <3>2. CASE k # j
        BY <1>2, <2>2, <3>2
      <3> QED BY <3>1, <3>2
    <2> QED BY <1>6, <2>1, <2>2 DEF IInv, SeenIsStored
  <1>7. cache[b].relay \union cache[b].libp2p \subseteq seenProcessed[b]
    BY DEF IInv, CacheInv, Remembered
  <1>8. restored \in [Bridges -> SUBSET Events]
    BY DEF IInv, RestoredInv
  <1> QED BY <1>1, <1>2, <1>3, <1>4, <1>5, <1>6, <1>7, <1>8, OnePage

LEMMA StoreEventKeeps ==
  ASSUME IInv, NEW b \in Bridges, NEW j \in jobs[b], StoreEvent(b, j)
  PROVE  IInv'
  <1> DEFINE next == AfterStore(b, j)
             moved == Moved(j, next)
             e == j.env.event
  <1>1. TypeOK /\ j \in Job /\ e \in Events /\ j.at = "store"
    BY JobType DEF IInv, TypeOK, StoreEvent
  <1>2. /\ j.via = "relay" => next = {"toLibp2p"}
        /\ j.via = "libp2p" /\ ~j.onRelay => next = {"toRelays"}
        /\ j.via = "libp2p" /\ j.onRelay => next \subseteq {"forward"}
    BY DEF AfterStore, AfterRelays
  <1>3. /\ next \subseteq {"toLibp2p", "toRelays", "forward"}
        /\ \A m, n \in next : m = n
    BY <1>1, <1>2, JobType DEF Job
  <1>4. Continue(b, j, next)
        /\ UNCHANGED <<relays, topic, served, inbox, seen, cache, carried, restored>>
    BY DEF StoreEvent
  <1> HIDE DEF next
  <1>5. /\ moved \in SUBSET Job
        /\ jobs' = [jobs EXCEPT ![b] = (jobs[b] \ {j}) \union moved]
        /\ \A k \in moved : /\ k.via = j.via /\ k.env = j.env
                            /\ k.onRelay = j.onRelay /\ k.at \in next
        /\ \A k, l \in moved : k = l
    BY <1>1, <1>3, <1>4, ContinueEffect
  <1> HIDE DEF moved
  <1>6. /\ Fits((jobs[b] \ {j}) \union moved, carried[b], seenRelay[b], seenLibp2p[b])
        /\ Single((jobs[b] \ {j}) \union moved)
    <2>1. \A k \in moved :
            /\ k.via = "relay" => k.at = "toLibp2p"
            /\ k.via = "libp2p" => k.at \in {"toRelays", "forward"}
            /\ k.at = "toRelays" => ~k.onRelay /\ j.at # "forward"
      BY <1>1, <1>2, <1>5, JobType
    <2> QED BY <1>5, <2>1, PageFacts, JobMoves
  <1>7. \A f \in Events : Out((jobs[b] \ {j}) \union moved, carried[b], f)
                            => Out(jobs[b], carried[b], f)
    BY <1>5 DEF Out
  <1>8. /\ db' \in [Bridges -> SUBSET Events] /\ spoilt' \in [Bridges -> SUBSET Events]
        /\ db[b] \subseteq db'[b] /\ spoilt[b] \subseteq spoilt'[b]
        /\ e \in db'[b] \union spoilt'[b]
        /\ \A c \in Bridges \ {b} : db'[c] = db[c] /\ spoilt'[c] = spoilt[c]
    <2>1. CASE db' = [db EXCEPT ![b] = @ \union {e}] /\ UNCHANGED spoilt
      BY <1>1, <2>1 DEF TypeOK
    <2>2. CASE spoilt' = [spoilt EXCEPT ![b] = @ \union {e}] /\ UNCHANGED db
      BY <1>1, <2>2 DEF TypeOK
    <2> QED BY <2>1, <2>2 DEF StoreEvent
  <1>9. /\ carried' \in [Bridges -> Counts] /\ carried' = carried
        /\ relays' \subseteq Events /\ topic' \subseteq Events
        /\ served' \in [Bridges -> SUBSET relays']
        /\ inbox' \in [Bridges -> SUBSET Envelope]
    BY <1>1, <1>4 DEF TypeOK, Counts
  <1> QED BY <1>4, <1>5, <1>6, <1>7, <1>8, <1>9, JobStepFrame

\* A publication that is counted, or that fails.
LEMMA PublishKeeps ==
  ASSUME IInv, NEW b \in Bridges, NEW j \in jobs[b], NEW d \in Directions,
         NEW next \in SUBSET {"forward"}, Continue(b, j, next),
         \/ d = N2L /\ j.at = "toLibp2p" /\ next = {}
         \/ d = L2N /\ j.at = "toRelays"
         \/ d = L2L /\ j.at = "forward" /\ next = {},
         \/ Count(b, d, j.env.event) /\ UNCHANGED spoilt
         \/ UNCHANGED carried /\ spoilt' = [spoilt EXCEPT ![b] = @ \union {j.env.event}],
         relays' \subseteq Events, topic' \subseteq Events,
         served' \in [Bridges -> SUBSET relays'],
         inbox' \in [Bridges -> SUBSET Envelope],
         UNCHANGED <<seen, cache, db, restored>>
  PROVE  IInv'
  <1> DEFINE e == j.env.event
             moved == Moved(j, next)
             C == carried'[b]
  <1>1. TypeOK /\ j \in Job /\ e \in Events /\ j.at # "store"
    BY JobType DEF IInv, TypeOK
  <1>2. /\ j.via = "relay" => j.at = "toLibp2p"
        /\ j.via = "libp2p" => j.at # "toLibp2p"
    BY <1>1, PageFacts DEF Fits, JobsFit
  <1>3. next \in SUBSET {"toLibp2p", "toRelays", "forward"} /\ \A m, n \in next : m = n
    OBVIOUS
  <1>4. /\ moved \in SUBSET Job
        /\ jobs' = [jobs EXCEPT ![b] = (jobs[b] \ {j}) \union moved]
        /\ \A k \in moved : /\ k.via = j.via /\ k.env = j.env
                            /\ k.onRelay = j.onRelay /\ k.at \in next
        /\ \A k, l \in moved : k = l
    BY <1>1, <1>3, ContinueEffect
  <1>5. next = {} => moved = {}
    BY DEF Moved
  <1> HIDE DEF moved
  <1>6. \/ C = carried[b]
        \/ C = Counted(carried[b], d, e)
    BY <1>1 DEF Count, Counted, TypeOK
  <1>7. /\ Fits((jobs[b] \ {j}) \union moved, C, seenRelay[b], seenLibp2p[b])
        /\ Single((jobs[b] \ {j}) \union moved)
        /\ C \in Counts
    <2>1. CASE C = carried[b]
      <3>1. \A k \in moved :
              /\ k.via = "relay" => k.at = "toLibp2p"
              /\ k.via = "libp2p" => k.at \in {"toRelays", "forward"}
              /\ k.at = "toRelays" => ~k.onRelay /\ j.at # "forward"
        BY <1>2, <1>4, <1>5
      <3> QED BY <1>4, <2>1, <3>1, PageFacts, JobMoves
    <2>2. CASE C = Counted(carried[b], d, e)
      <3>1. \/ d = N2L /\ j.via = "relay" /\ moved = {}
            \/ d = L2N /\ j.at = "toRelays" /\ j.via = "libp2p"
            \/ d = L2L /\ j.via = "libp2p" /\ j.at = "forward" /\ moved = {}
        BY <1>1, <1>2, <1>5, JobType
      <3>2. \A k \in moved : /\ k.via = j.via /\ k.env = j.env
                             /\ k.onRelay = j.onRelay /\ k.at = "forward"
        BY <1>4
      <3>3. /\ jobs[b] \in SUBSET Job /\ Single(jobs[b]) /\ carried[b] \in Counts
            /\ Fits(jobs[b], carried[b], seenRelay[b], seenLibp2p[b])
        BY PageFacts
      <3>4. moved \in SUBSET Job /\ \A k, l \in moved : k = l
        BY <1>4
      <3>5. /\ Fits((jobs[b] \ {j}) \union moved, Counted(carried[b], d, e),
                    seenRelay[b], seenLibp2p[b])
            /\ Single((jobs[b] \ {j}) \union moved)
            /\ Counted(carried[b], d, e) \in Counts
        BY <3>1, <3>2, <3>3, <3>4, JobPublishes
      <3> QED BY <2>2, <3>5
    <2> QED BY <1>6, <2>1, <2>2
  <1>8. \A f \in Events : Out((jobs[b] \ {j}) \union moved, C, f)
                            => Out(jobs[b], carried[b], f)
    <2>1. CASE C = carried[b]
      BY <1>4, <2>1 DEF Out
    <2>2. CASE C = Counted(carried[b], d, e)
      <3>1. d = N2L => j.via = "relay"
        BY <1>1, <1>2, JobType DEF N2L, L2N, L2L
      <3>2. \A f \in Events : f # e \/ d # N2L => C[N2L][f] = carried[b][N2L][f]
        BY <1>1, <2>2, PageFacts DEF Counted, Counts, Directions, N2L
      <3> QED BY <1>4, <3>1, <3>2 DEF Out
    <2> QED BY <1>6, <2>1, <2>2
  <1>9. /\ carried' \in [Bridges -> Counts]
        /\ \A c \in Bridges \ {b} : carried'[c] = carried[c]
    <2>1. carried \in [Bridges -> Counts]
      BY <1>1 DEF TypeOK, Counts
    <2>2. CASE UNCHANGED carried
      BY <2>1, <2>2
    <2>3. CASE Count(b, d, e)
      <3>1. carried' = [carried EXCEPT ![b] = C]
        BY <2>1, <2>3 DEF Count
      <3> HIDE DEF C
      <3> QED BY <1>7, <2>1, <3>1
    <2> QED BY <2>2, <2>3
  <1>10. /\ db' \in [Bridges -> SUBSET Events] /\ db' = db
         /\ spoilt' \in [Bridges -> SUBSET Events] /\ spoilt[b] \subseteq spoilt'[b]
         /\ \A c \in Bridges \ {b} : spoilt'[c] = spoilt[c]
    <2>1. CASE UNCHANGED spoilt
      BY <1>1, <2>1 DEF TypeOK
    <2>2. CASE spoilt' = [spoilt EXCEPT ![b] = @ \union {e}]
      BY <1>1, <2>2 DEF TypeOK
    <2> QED BY <1>1, <2>1, <2>2 DEF TypeOK
  <1> QED BY <1>1, <1>4, <1>7, <1>8, <1>9, <1>10, JobStepFrame

\* Each of the three publications is one of those.
LEMMA JobStepKeeps ==
  ASSUME IInv, NEW b \in Bridges, NEW j \in jobs[b], JobStep(b, j)
  PROVE  IInv'
  <1>1. TypeOK /\ j \in Job /\ j.env \in Envelope
    BY DEF IInv, TypeOK, Job
  <1>2. /\ relays \subseteq Events /\ topic \subseteq Events
        /\ served \in [Bridges -> SUBSET relays]
        /\ inbox \in [Bridges -> SUBSET Envelope] /\ j.env.event \in Events
    BY <1>1 DEF TypeOK, Envelope
  <1>3. CASE PublishToLibp2p(b, j)
    <2>1. FromRelay(j.env.event) \in Envelope
      BY <1>2 DEF FromRelay, Envelope, Directions
    <2>2. N2L \in Directions
      BY DEF N2L, Directions
    <2>3. /\ j.at = "toLibp2p" /\ Continue(b, j, {})
          /\ \/ Count(b, N2L, j.env.event) /\ UNCHANGED spoilt
             \/ /\ UNCHANGED carried
                /\ spoilt' = [spoilt EXCEPT ![b] = @ \union {j.env.event}]
          /\ UNCHANGED <<seen, cache, db, restored>>
      BY <1>3 DEF PublishToLibp2p, Fails, N2L
    <2>4. /\ relays' \subseteq Events /\ topic' \subseteq Events
          /\ served' \in [Bridges -> SUBSET relays']
          /\ inbox' \in [Bridges -> SUBSET Envelope]
      BY <1>1, <1>2, <1>3, <2>1, GossipType DEF PublishToLibp2p, Fails
    <2> QED BY <2>2, <2>3, <2>4, PublishKeeps
  <1>4. CASE PublishToRelays(b, j)
    <2>1. L2N \in Directions /\ AfterRelays(b, j) \in SUBSET {"forward"}
      BY DEF L2N, Directions, AfterRelays
    <2>2. /\ j.at = "toRelays" /\ Continue(b, j, AfterRelays(b, j))
          /\ \/ Count(b, L2N, j.env.event) /\ UNCHANGED spoilt
             \/ /\ UNCHANGED carried
                /\ spoilt' = [spoilt EXCEPT ![b] = @ \union {j.env.event}]
          /\ UNCHANGED <<seen, cache, db, restored>>
      BY <1>4 DEF PublishToRelays, Fails, L2N
    <2>3. /\ relays' \subseteq Events /\ topic' \subseteq Events
          /\ served' \in [Bridges -> SUBSET relays']
          /\ inbox' \in [Bridges -> SUBSET Envelope]
      <3>1. CASE Accept(j.env.event) /\ UNCHANGED <<topic, inbox>>
        BY <1>1, <1>2, <3>1, AcceptType
      <3>2. CASE UNCHANGED <<relays, topic, served, inbox>>
        BY <1>1, <1>2, <3>2 DEF TypeOK
      <3> QED BY <1>4, <3>1, <3>2 DEF PublishToRelays, Fails
    <2> QED BY <2>1, <2>2, <2>3, PublishKeeps
  <1>5. CASE ForwardLibp2pEvent(b, j)
    <2>1. [j.env EXCEPT !.direction = "libp2p->libp2p"] \in Envelope
      BY <1>1 DEF Envelope, Directions
    <2>2. L2L \in Directions
      BY DEF L2L, Directions
    <2>3. /\ j.at = "forward" /\ Continue(b, j, {})
          /\ \/ Count(b, L2L, j.env.event) /\ UNCHANGED spoilt
             \/ /\ UNCHANGED carried
                /\ spoilt' = [spoilt EXCEPT ![b] = @ \union {j.env.event}]
          /\ UNCHANGED <<seen, cache, db, restored>>
      BY <1>5 DEF ForwardLibp2pEvent, Fails, L2L
    <2>4. /\ relays' \subseteq Events /\ topic' \subseteq Events
          /\ served' \in [Bridges -> SUBSET relays']
          /\ inbox' \in [Bridges -> SUBSET Envelope]
      BY <1>1, <1>2, <1>5, <2>1, GossipType DEF ForwardLibp2pEvent, Fails
    <2> QED BY <2>2, <2>3, <2>4, PublishKeeps
  <1> QED BY <1>3, <1>4, <1>5, StoreEventKeeps DEF JobStep

-----------------------------------------------------------------------------
(* The networks, the cache and reloads. *)

\* A step that leaves the pages as they are but for what is on the way.
LEMMA NetworkKeeps ==
  ASSUME IInv, UNCHANGED <<seen, cache, db, jobs, carried, restored, spoilt>>,
         relays' \subseteq Events, topic' \subseteq Events,
         served' \in [Bridges -> SUBSET relays'],
         inbox' \in [Bridges -> SUBSET Envelope]
  PROVE  IInv'
  <1>1. TypeOK'
    BY DEF IInv, TypeOK, seen
  <1>2. PageInv' /\ RestoredInv' /\ SeenIsStored' /\ CacheInv'
    BY DEF IInv, PageInv, RestoredInv, SeenIsStored, CacheInv, Remembered, seen
  <1> QED BY <1>1, <1>2 DEF IInv

\* A cache that holds what is seen, or nothing, holds no more than is known.
LEMMA CacheKeeps ==
  ASSUME IInv, NEW b \in Bridges,
         cache' = [cache EXCEPT ![b] = cache'[b]],
         cache'[b] \in [relay : SUBSET Events, libp2p : SUBSET Events],
         cache'[b].relay \union cache'[b].libp2p \subseteq seenProcessed[b],
         UNCHANGED <<relays, topic, served, inbox, seen, db, jobs, carried, restored,
                     spoilt>>
  PROVE  IInv'
  <1>1. UNCHANGED <<seenRelay, seenLibp2p, seenProcessed>>
    BY DEF seen
  <1>2. cache \in [Bridges -> [relay : SUBSET Events, libp2p : SUBSET Events]]
    BY DEF IInv, TypeOK
  <1>3. TypeOK'
    <2>1. cache' \in [Bridges -> [relay : SUBSET Events, libp2p : SUBSET Events]]
      BY <1>2
    <2> QED BY <1>1, <2>1 DEF IInv, TypeOK
  <1>4. PageInv' /\ RestoredInv' /\ SeenIsStored'
    BY <1>1 DEF IInv, PageInv, RestoredInv, SeenIsStored
  <1>5. CacheInv'
    <2>1. \A c \in Bridges \ {b} : cache'[c] = cache[c]
      BY <1>2
    <2> QED BY <1>1, <2>1 DEF IInv, CacheInv, Remembered
  <1> QED BY <1>3, <1>4, <1>5 DEF IInv

LEMMA PersistKeeps ==
  ASSUME IInv, NEW b \in Bridges, PersistBridgeCache(b) \/ RelayPageWrites(b)
  PROVE  IInv'
  <1> DEFINE full == [relay |-> seenRelay[b], libp2p |-> seenLibp2p[b]]
             empty == [relay |-> {}, libp2p |-> {}]
  <1>1. PICK written \in {full, empty} : cache' = [cache EXCEPT ![b] = written]
    BY DEF PersistBridgeCache, RelayPageWrites
  <1>2. cache' = [cache EXCEPT ![b] = cache'[b]] /\ cache'[b] = written
    BY <1>1 DEF IInv, TypeOK
  <1>3. /\ written \in [relay : SUBSET Events, libp2p : SUBSET Events]
        /\ written.relay \union written.libp2p \subseteq seenProcessed[b]
    BY <1>1, PageFacts
  <1>4. UNCHANGED <<relays, topic, served, inbox, seen, db, jobs, carried, restored,
                     spoilt>>
    BY DEF PersistBridgeCache, RelayPageWrites
  <1> QED BY <1>2, <1>3, <1>4, CacheKeeps

\* A page that starts again knows what its cache knows, and has done nothing.
LEMMA ReloadKeeps ==
  ASSUME IInv, NEW b \in Bridges, Reload(b)
  PROVE  IInv'
  <1>1. TypeOK
    BY DEF IInv
  <1>2. /\ seenRelay' = [seenRelay EXCEPT ![b] = cache[b].relay]
        /\ seenLibp2p' = [seenLibp2p EXCEPT ![b] = cache[b].libp2p]
        /\ seenProcessed' = [seenProcessed EXCEPT ![b] = Remembered(b)]
        /\ jobs' = [jobs EXCEPT ![b] = {}] /\ inbox' = [inbox EXCEPT ![b] = {}]
        /\ carried' = [carried EXCEPT ![b] = NoCounts]
        /\ restored' = [restored EXCEPT ![b] = Remembered(b)]
        /\ spoilt' = [spoilt EXCEPT ![b] =
             @ \union {j.env.event : j \in jobs[b]} \union {m.event : m \in inbox[b]}]
        /\ UNCHANGED <<relays, topic, cache, db>>
        /\ \E S \in SUBSET relays : served' = [served EXCEPT ![b] = S]
    BY DEF Reload, RestoreBridgeCache, NoCounts, Subscribe
  <1>3. /\ cache[b].relay \subseteq Events /\ cache[b].libp2p \subseteq Events
        /\ Remembered(b) = cache[b].relay \union cache[b].libp2p
    BY <1>1 DEF TypeOK, Remembered
  <1>4. /\ {j.env.event : j \in jobs[b]} \subseteq Events
        /\ {m.event : m \in inbox[b]} \subseteq Events
    BY <1>1, JobType DEF TypeOK, Envelope
  <1>5. /\ seenRelay'[b] = cache[b].relay /\ seenLibp2p'[b] = cache[b].libp2p
        /\ seenProcessed'[b] = Remembered(b) /\ restored'[b] = Remembered(b)
        /\ jobs'[b] = {} /\ carried'[b] = NoCounts
        /\ spoilt'[b] = spoilt[b] \union {j.env.event : j \in jobs[b]}
                                  \union {m.event : m \in inbox[b]}
    <2>1. restored \in [Bridges -> SUBSET Events]
      BY DEF IInv, RestoredInv
    <2> QED BY <1>1, <1>2, <2>1 DEF TypeOK
  <1>6. /\ Fits(jobs'[b], carried'[b], seenRelay'[b], seenLibp2p'[b])
        /\ \A e \in Events : ~Out(jobs'[b], carried'[b], e)
    <2>1. N2L \in Directions
      BY DEF N2L, Directions
    <2> QED BY <1>5, <2>1, EmptyFits DEF Out, NoCounts
  <1>7. TypeOK'
    <2>1. /\ seenRelay' \in [Bridges -> SUBSET Events]
          /\ seenLibp2p' \in [Bridges -> SUBSET Events]
          /\ seenProcessed' = [c \in Bridges |-> seenRelay'[c] \union seenLibp2p'[c]]
      BY <1>1, <1>2, <1>3 DEF TypeOK
    <2>2. carried' \in [Bridges -> Counts]
      <3>1. NoCounts \in Counts
        BY DEF NoCounts, Counts
      <3> QED BY <1>1, <1>2, <3>1 DEF TypeOK, Counts
    <2>3. jobs' \in [Bridges -> SUBSET Job] /\ \A c \in Bridges : Single(jobs'[c])
      BY <1>1, <1>2 DEF TypeOK, Single
    <2>4. spoilt' \in [Bridges -> SUBSET Events] /\ inbox' \in [Bridges -> SUBSET Envelope]
      BY <1>1, <1>2, <1>4 DEF TypeOK
    <2>5. served' \in [Bridges -> SUBSET relays']
      BY <1>1, <1>2 DEF TypeOK
    <2> QED BY <1>1, <1>2, <2>1, <2>2, <2>3, <2>4, <2>5 DEF TypeOK, Single, Counts
  <1>8. restored' \in [Bridges -> SUBSET Events]
    BY <1>2, <1>3 DEF IInv, RestoredInv
  <1>9. \A e \in restored'[b] : e \in seenProcessed'[b] /\ ~Out(jobs'[b], carried'[b], e)
    BY <1>3, <1>5, <1>6
  <1>10. ASSUME NEW e \in seenProcessed'[b] PROVE e \in db'[b] \union spoilt'[b]
    <2>1. e \in seenProcessed[b]
      BY <1>5, <1>10 DEF IInv, CacheInv
    <2>2. \/ e \in db[b] \union spoilt[b]
          \/ \E j \in jobs[b] : j.env.event = e /\ j.at = "store"
      BY <2>1 DEF IInv, SeenIsStored
    <2> QED BY <1>2, <1>5, <2>2
  <1>11. cache'[b].relay \union cache'[b].libp2p \subseteq seenProcessed'[b]
    BY <1>2, <1>3, <1>5
  <1>12. \A c \in Bridges \ {b} :
           /\ jobs'[c] = jobs[c] /\ carried'[c] = carried[c]
           /\ seenRelay'[c] = seenRelay[c] /\ seenLibp2p'[c] = seenLibp2p[c]
           /\ restored'[c] = restored[c] /\ db'[c] = db[c]
           /\ spoilt'[c] = spoilt[c] /\ cache'[c] = cache[c]
    BY <1>1, <1>2 DEF TypeOK, IInv, RestoredInv
  <1> QED BY <1>6, <1>7, <1>8, <1>9, <1>10, <1>11, <1>12, OnePage

LEMMA NextIInv == IInv /\ [Next]_vars => IInv'
  <1> SUFFICES ASSUME IInv, [Next]_vars PROVE IInv'
    OBVIOUS
  <1>1. TypeOK
    BY DEF IInv
  <1>2. ASSUME NEW e \in Events, UserPublishes(e) PROVE IInv'
    <2>1. /\ relays' \subseteq Events /\ topic' \subseteq Events
          /\ served' \in [Bridges -> SUBSET relays']
          /\ inbox' \in [Bridges -> SUBSET Envelope]
      BY <1>1, <1>2, AcceptType DEF UserPublishes, TypeOK
    <2>2. UNCHANGED <<seen, cache, db, jobs, carried, restored, spoilt>>
      BY <1>2 DEF UserPublishes
    <2> QED BY <2>1, <2>2, NetworkKeeps
  <1>3. ASSUME NEW env \in Envelope, PeerSends(env) PROVE IInv'
    <2>1. /\ Gossip(env) /\ UNCHANGED <<relays, served>>
          /\ UNCHANGED <<seen, cache, db, jobs, carried, restored, spoilt>>
      BY <1>3 DEF PeerSends
    <2>2. /\ relays' \subseteq Events /\ topic' \subseteq Events
          /\ served' \in [Bridges -> SUBSET relays']
          /\ inbox' \in [Bridges -> SUBSET Envelope]
      BY <1>1, <2>1, GossipType DEF TypeOK
    <2> QED BY <2>1, <2>2, NetworkKeeps
  <1>4. CASE UNCHANGED vars
    <2>1. UNCHANGED <<seen, cache, db, jobs, carried, restored, spoilt, relays, topic,
                     served, inbox>>
      BY <1>4 DEF vars
    <2>2. /\ relays' \subseteq Events /\ topic' \subseteq Events
          /\ served' \in [Bridges -> SUBSET relays']
          /\ inbox' \in [Bridges -> SUBSET Envelope]
      BY <1>1, <2>1 DEF TypeOK
    <2> QED BY <2>1, <2>2, NetworkKeeps
  <1> QED BY <1>2, <1>3, <1>4, HandleNostrEventKeeps, HandleLibp2pMessageKeeps,
             JobStepKeeps, PersistKeeps, ReloadKeeps DEF Next

\* The inductive invariant holds in every reachable state.
LEMMA Invariance == Spec => []IInv
  BY InitIInv, NextIInv, PTL DEF Spec

\* The sets keep their types, seenProcessed is the union of the two sides, and
\* a page has at most one handler per event and side.
THEOREM TypeCorrect == Spec => []TypeOK
  <1>1. IInv => TypeOK
    BY DEF IInv
  <1> QED BY Invariance, <1>1, PTL

\* No page carries an event twice in one direction, or back where it came
\* from, whatever the echoes, faults and reloads.
LEMMA CarriedOneWayOnce == Spec => []OneWayOnce
  <1>1. IInv => OneWayOnce
    <2> SUFFICES ASSUME IInv, NEW b \in Bridges, NEW e \in Events
                 PROVE  /\ \A d \in Directions : carried[b][d][e] <= 1
                        /\ carried[b][N2L][e] + carried[b][L2N][e] <= 1
      BY DEF OneWayOnce, N2L, L2N
    <2>1. /\ Fits(jobs[b], carried[b], seenRelay[b], seenLibp2p[b])
          /\ carried[b] \in Counts
      BY PageFacts
    <2>2. N2L \in Directions /\ L2N \in Directions
      BY DEF N2L, L2N, Directions
    <2>3. \A d \in Directions : carried[b][d][e] \in Nat /\ carried[b][d][e] <= 1
      BY <2>1 DEF Counts, Fits, CountsFit
    <2>4. ~(carried[b][N2L][e] > 0 /\ carried[b][L2N][e] > 0)
      BY <2>1 DEF Fits, Out, In
    <2> QED BY <2>2, <2>3, <2>4
  <1> QED BY Invariance, <1>1, PTL

\* What the cache brings back is not carried over libp2p again.
LEMMA NothingRepeated == Spec => []NoRepeatAfterReload
  <1>1. IInv => NoRepeatAfterReload
    <2> SUFFICES ASSUME IInv, NEW b \in Bridges, NEW e \in restored[b]
                 PROVE  carried[b][N2L][e] = 0
      BY DEF NoRepeatAfterReload, N2L
    <2>1. e \in Events /\ carried[b] \in Counts
      BY PageFacts DEF IInv, RestoredInv
    <2>2. ~Out(jobs[b], carried[b], e)
      BY PageFacts
    <2>3. carried[b][N2L][e] \in Nat
      BY <2>1 DEF Counts, N2L, Directions
    <2> QED BY <2>2, <2>3 DEF Out
  <1> QED BY Invariance, <1>1, PTL

\* Both together: nothing goes round in circles, in one session or over a
\* reload.
THEOREM CirclesExcluded == Spec => []CarriedOnce
  BY CarriedOneWayOnce, NothingRepeated, PTL DEF CarriedOnce

\* An event a page has seen is stored, or about to be, or was spoilt.
THEOREM StoredOrSpoilt == Spec => []SeenIsStored
  <1>1. IInv => SeenIsStored
    BY DEF IInv
  <1> QED BY Invariance, <1>1, PTL
=============================================================================
