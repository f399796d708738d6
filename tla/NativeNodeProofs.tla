------------------------- MODULE NativeNodeProofs -------------------------
(***************************************************************************)
(* Theorems about two components of the Rust crate: BlobQuorum, for any    *)
(* finite set of keys, any founding membership and every order of          *)
(* attestations, seals and joins; and, in the second half, NativePeer, for *)
(* any repositories, tasks, capacity of the channel and number of rounds.  *)
(***************************************************************************)
EXTENDS BlobQuorum, NativePeer, FiniteSetTheorems, TLAPS

(***************************************************************************)
(* What the seals rest on: nobody leaves the quorum, only members attest,  *)
(* and a seal lists attestations that were recorded.                       *)
(***************************************************************************)
Membership ==
  /\ InitialParticipants \subseteq participants
  /\ attestations \subseteq participants
  /\ \A s \in published : s \subseteq attestations

IInv == TypeOK /\ Membership /\ SealsAreQuorums

\* A count that exceeds the threshold is at least four fifths of the members.
LEMMA ThresholdIsFourFifths ==
  ASSUME NEW n \in Nat, NEW count \in Nat, count > QuorumThreshold(n)
  PROVE  5 * count >= 4 * n
<1> DEFINE required == (4 * n + 4) \div 5
<1>1. required \in Nat /\ 5 * required >= 4 * n
  OBVIOUS
<1>2. QuorumThreshold(n) = IF required = 0 THEN 0 ELSE required - 1
  BY DEF QuorumThreshold
<1> HIDE DEF required
<1>3. count >= required
  BY <1>1, <1>2
<1> QED BY <1>1, <1>3

\* Sets of keys can be counted, and a larger one has at least as many keys.
LEMMA Counting ==
  ASSUME NEW S \in SUBSET PublicKeys, NEW T \in SUBSET S
  PROVE  /\ Cardinality(S) \in Nat /\ Cardinality(T) \in Nat
         /\ Cardinality(T) <= Cardinality(S)
<1>1. IsFiniteSet(S)
  BY FS_Subset, BlobQuorumAssumption
<1> QED BY <1>1, FS_Subset, FS_CardinalityType

\* What attest seals is a quorum of the members at that time, and so of the
\* founders.
LEMMA SealIsQuorum ==
  ASSUME NEW A \in SUBSET PublicKeys, NEW members \in SUBSET PublicKeys,
         InitialParticipants \subseteq members, Reaches(Cardinality(A), members)
  PROVE  5 * Cardinality(A) >= 4 * Cardinality(InitialParticipants)
<1>1. /\ Cardinality(A) \in Nat /\ Cardinality(members) \in Nat
      /\ Cardinality(InitialParticipants) \in Nat
      /\ Cardinality(InitialParticipants) <= Cardinality(members)
  BY Counting
<1>2. 5 * Cardinality(A) >= 4 * Cardinality(members)
  BY <1>1, ThresholdIsFourFifths DEF Reaches
<1> QED BY <1>1, <1>2

LEMMA InitInv == Init => IInv
BY BlobQuorumAssumption
   DEF Init, IInv, TypeOK, Membership, SealsAreQuorums, NoSeal, JoinEvents

\* An attestation, whether it is below the threshold, seals, or seals again.
LEMMA AttestInv == ASSUME IInv, NEW key \in PublicKeys, Attest(key) PROVE IInv'
<1>1. /\ key \in participants
      /\ attestations' = attestations \cup {key}
      /\ participants' = participants /\ joins' = joins
  BY DEF Attest
<1>2. attestations' \subseteq PublicKeys /\ attestations' \subseteq participants'
  BY <1>1 DEF IInv, TypeOK, Membership
<1>3. CASE Reaches(Cardinality(attestations'), participants)
  <2>1. seal' = attestations' /\ published' = published \cup {attestations'}
    BY <1>3 DEF Attest
  <2>2. TypeOK'
    BY <1>1, <1>2, <2>1 DEF IInv, TypeOK, Membership
  <2>3. Membership'
    BY <1>1, <1>2, <2>1 DEF IInv, Membership
  <2>4. 5 * Cardinality(attestations') >= 4 * Cardinality(InitialParticipants)
    BY <1>2, <1>3, SealIsQuorum DEF IInv, TypeOK, Membership
  <2>5. SealsAreQuorums'
    BY <1>1, <1>2, <2>1, <2>4 DEF IInv, SealsAreQuorums
  <2> QED BY <2>2, <2>3, <2>5 DEF IInv
<1>4. CASE ~Reaches(Cardinality(attestations'), participants)
  <2>1. seal' = seal /\ published' = published
    BY <1>4 DEF Attest
  <2> QED BY <1>1, <1>2, <2>1 DEF IInv, TypeOK, Membership, SealsAreQuorums
<1> QED BY <1>3, <1>4

\* Joins come and are spent; the membership only grows.
LEMMA JoinInv ==
  ASSUME IInv,
         \/ \E key \in PublicKeys : \E s \in published : RequestJoin(key, s)
         \/ \E join \in joins : AdmitMember(join) \/ RejectMember(join)
  PROVE  IInv'
<1>1. ASSUME NEW key \in PublicKeys, NEW s \in published, RequestJoin(key, s)
      PROVE  IInv'
  <2>1. [key |-> key, seal |-> s] \in JoinEvents
    BY DEF IInv, TypeOK, JoinEvents
  <2>2. /\ joins' = joins \cup {[key |-> key, seal |-> s]}
        /\ UNCHANGED <<participants, attestations, seal, published>>
    BY <1>1 DEF RequestJoin
  <2> QED BY <2>1, <2>2 DEF IInv, TypeOK, Membership, SealsAreQuorums
<1>2. ASSUME NEW join \in joins, AdmitMember(join) PROVE IInv'
  <2>1. join.key \in PublicKeys
    BY DEF IInv, TypeOK, JoinEvents
  <2>2. /\ participants' = participants \cup {join.key} /\ joins' = joins \ {join}
        /\ UNCHANGED <<attestations, seal, published>>
    BY <1>2 DEF AdmitMember
  <2> QED BY <2>1, <2>2 DEF IInv, TypeOK, Membership, SealsAreQuorums
<1>3. ASSUME NEW join \in joins, RejectMember(join) PROVE IInv'
  <2>1. /\ joins' = joins \ {join}
        /\ UNCHANGED <<participants, attestations, seal, published>>
    BY <1>3 DEF RejectMember
  <2> QED BY <2>1 DEF IInv, TypeOK, Membership, SealsAreQuorums
<1> QED BY <1>1, <1>2, <1>3

\* The inductive invariant holds in every reachable state.
THEOREM Invariance == Spec => []IInv
<1>1. IInv /\ [Next]_vars => IInv'
  <2>1. ASSUME IInv, UNCHANGED vars PROVE IInv'
    BY <2>1 DEF vars, IInv, TypeOK, Membership, SealsAreQuorums
  <2> QED BY <2>1, AttestInv, JoinInv DEF Next
<1> QED BY InitInv, <1>1, PTL DEF Spec

(***************************************************************************)
(* The cached seal is the last one published and lists all that earlier    *)
(* ones did, so a join that cites the newest seal is never turned away for *)
(* an older one.                                                           *)
(***************************************************************************)
THEOREM TypeCorrect == Spec => []TypeOK
<1>1. IInv => TypeOK
  BY DEF IInv
<1> QED BY Invariance, <1>1, PTL

(***************************************************************************)
(* Every seal that was ever published lists members only, and four fifths  *)
(* of the founders' number, for every size of the quorum and although its  *)
(* threshold moves with every join.                                        *)
(***************************************************************************)
THEOREM SealsAlwaysQuorums == Spec => []SealsAreQuorums
<1>1. IInv => SealsAreQuorums
  BY DEF IInv
<1> QED BY Invariance, <1>1, PTL

----------------------------------------------------------------------------
(***************************************************************************)
(* The event loop of the peer. The invariant has a part for each of its    *)
(* three concerns, which share nothing but the channel: the channel        *)
(* itself, the mirrors with the bundles made from them, and the rounds of  *)
(* network time.                                                           *)
(***************************************************************************)
\* A mirror task works on a repository, git runs in a directory that was made,
\* and what is sent is a bundle.
TaskInv ==
  \A t \in Tasks :
    /\ task[t].step # "idle" => task[t].repo \in Repos
    /\ task[t].step \in {"clone", "cloning", "fetch", "bundle"} => mirrorDir[task[t].repo] # Absent
    /\ task[t].step = "send" => task[t].bundle \in Bundles

\* Every sync that is asked for still has a fresh id.
RoundsLeft == timeRequestCounter + Cardinality(Syncing) <= MaxRounds

ChannelInv == commands \in Seq(Commands) /\ Len(commands) <= Capacity

MirrorInv ==
  /\ bundleCache \in [Repos -> Bundles \cup {None}]
  /\ upstream \in [Repos -> 0 .. MaxVersion]
  /\ mirrorDir \in [Repos -> (0 .. MaxVersion) \cup {Absent, Empty}]
  /\ task \in [Tasks -> TaskStates]
  /\ TaskInv

TimeInv ==
  /\ pendingTime \in [Rounds -> (0 .. MaxSamples) \cup {None}]
  /\ windows \subseteq Rounds
  /\ timeRequestCounter \in 0 .. MaxRounds
  /\ consensus \in 0 .. MaxSamples
  /\ \A id \in Rounds : pendingTime[id] # None =>
       id \in windows \/ Finalize(id) \in ToSet(commands)
  /\ RoundsLeft

PeerInv == ChannelInv /\ MirrorInv /\ TimeInv

\* The kind of a command tells which one it is.
LEMMA CommandKinds ==
  ASSUME NEW c \in Commands
  PROVE  /\ c.kind \in {"MirrorRepo", "RelayBundleRequest", "PublishPipPayload",
                        "SyncNetworkTime", "FinalizeNetworkTime"}
         /\ c.kind = "SyncNetworkTime" <=> c = Sync
         /\ c.kind = "FinalizeNetworkTime" =>
              \E id \in Rounds : c = Finalize(id)
BY DEF Commands, Mirror, Request, Publish, Sync, Finalize

\* The requests for a sync that wait in the channel can be counted.
LEMMA Syncs ==
  ASSUME ChannelInv
  PROVE  IsFiniteSet(Syncing) /\ Cardinality(Syncing) \in Nat
<1>1. IsFiniteSet(1 .. Len(commands))
  BY FS_Interval DEF ChannelInv
<1>2. Syncing \subseteq 1 .. Len(commands)
  BY DEF Syncing, ChannelInv
<1> QED BY <1>1, <1>2, FS_Subset, FS_CardinalityType

\* A command more in the channel.
LEMMA Sending ==
  ASSUME ChannelInv, NEW c \in Commands, Send(c)
  PROVE  /\ ChannelInv'
         /\ ToSet(commands') = ToSet(commands) \cup {c}
         /\ Cardinality(Syncing') =
              Cardinality(Syncing) + (IF c = Sync THEN 1 ELSE 0)
<1>1. /\ commands' = Append(commands, c) /\ Len(commands) < Capacity
      /\ commands' \in Seq(Commands) /\ Len(commands') = Len(commands) + 1
      /\ Capacity \in Nat
  BY NativePeerAssumption DEF Send, ChannelInv
<1>2. /\ \A i \in 1 .. Len(commands) : commands'[i] = commands[i]
      /\ commands'[Len(commands) + 1] = c
      /\ DOMAIN commands = 1 .. Len(commands)
      /\ DOMAIN commands' = 1 .. Len(commands) + 1
  BY <1>1
<1>3. ToSet(commands') = ToSet(commands) \cup {c}
  BY <1>1, <1>2 DEF ToSet
<1>4. CASE c = Sync
  <2>1. /\ Syncing' = Syncing \cup {Len(commands) + 1}
        /\ Len(commands) + 1 \notin Syncing
    BY <1>1, <1>2, <1>4, CommandKinds DEF Syncing
  <2>2. Cardinality(Syncing') = Cardinality(Syncing) + 1
    BY <2>1, Syncs, FS_AddElement
  <2> QED BY <2>2, <1>4, <1>1, <1>3 DEF ChannelInv
<1>5. CASE c # Sync
  <2>1. Syncing' = Syncing
    BY <1>1, <1>2, <1>5, CommandKinds DEF Syncing
  <2> QED BY <2>1, <1>5, <1>1, <1>3, Syncs DEF ChannelInv
<1> QED BY <1>4, <1>5

\* The loop has taken a command.
LEMMA Receiving ==
  ASSUME ChannelInv, NEW c, Receive(c)
  PROVE  /\ c \in Commands
         /\ ChannelInv'
         /\ ToSet(commands) \subseteq ToSet(commands') \cup {c}
         /\ Cardinality(Syncing') \in Nat
         /\ Cardinality(Syncing') + (IF c = Sync THEN 1 ELSE 0) <=
              Cardinality(Syncing)
<1>1. /\ commands # <<>> /\ c = commands[1] /\ commands' = Tail(commands)
      /\ Len(commands) \in Nat \ {0} /\ c \in Commands
      /\ commands' \in Seq(Commands) /\ Len(commands') = Len(commands) - 1
      /\ Capacity \in Nat
  BY NativePeerAssumption DEF Receive, ChannelInv
<1>2. /\ \A i \in 1 .. Len(commands) - 1 : commands'[i] = commands[i + 1]
      /\ DOMAIN commands = 1 .. Len(commands)
      /\ DOMAIN commands' = 1 .. Len(commands) - 1
  BY <1>1
<1>3. ToSet(commands) \subseteq ToSet(commands') \cup {c}
  <2> SUFFICES ASSUME NEW i \in DOMAIN commands, i # 1
               PROVE  commands[i] \in ToSet(commands')
    BY <1>1 DEF ToSet
  <2>1. i - 1 \in DOMAIN commands' /\ commands'[i - 1] = commands[i]
    BY <1>1, <1>2
  <2> QED BY <2>1 DEF ToSet
<1> DEFINE later == Syncing \ {1}
           place == [i \in later |-> i - 1]
<1>4. IsFiniteSet(later) /\ Cardinality(Syncing) \in Nat
  BY Syncs, FS_Subset
<1>5. /\ Cardinality(Syncing') \in Nat
      /\ Cardinality(Syncing') <= Cardinality(later) /\ Cardinality(later) \in Nat
  <2>1. /\ \A j \in later : j - 1 \in Syncing'
        /\ \A i \in Syncing' : i + 1 \in later /\ (i + 1) - 1 = i
    BY <1>1, <1>2 DEF Syncing
  <2> HIDE DEF later
  <2>2. place \in Surjection(later, Syncing')
    BY <2>1 DEF Surjection
  <2> QED BY <2>2, <1>4, FS_Surjection, FS_CardinalityType
<1>6. CASE c = Sync
  <2>1. 1 \in DOMAIN commands /\ commands[1].kind = "SyncNetworkTime"
    BY <1>1, <1>2, <1>6, CommandKinds
  <2> HIDE DEF later
  <2>2. Cardinality(later) = Cardinality(Syncing) - 1
    BY <2>1, Syncs, FS_RemoveElement DEF later, Syncing
  <2> QED BY <2>2, <1>1, <1>3, <1>4, <1>5, <1>6 DEF ChannelInv
<1>7. CASE c # Sync
  <2>1. Syncing = later
    BY <1>1, <1>7, CommandKinds DEF Syncing
  <2> HIDE DEF later
  <2> QED BY <2>1, <1>1, <1>3, <1>4, <1>5, <1>7 DEF ChannelInv
<1> QED BY <1>6, <1>7
\* What the peer sends are commands, and one that ends a round or asks for one
\* is told from the others by its kind.
LEMMA CommandsBuilt ==
  /\ Sync \in Commands
  /\ \A repo \in Repos, b \in Bundles :
       Publish(repo, b) \in Commands \ {Sync}
  /\ \A repo \in Repos : {Mirror(repo), Request(repo)}
                           \subseteq Commands \ {Sync}
  /\ \A id \in Rounds : Finalize(id) \in Commands \ {Sync}
<1> USE DEF Commands
<1>1. Sync \in Commands /\ Sync.kind = "SyncNetworkTime"
  BY DEF Sync
<1>2. ASSUME NEW repo \in Repos, NEW b \in Bundles
      PROVE  /\ Publish(repo, b) \in Commands
             /\ Publish(repo, b).kind = "PublishPipPayload"
  BY DEF Publish
<1>3. ASSUME NEW repo \in Repos
      PROVE  /\ {Mirror(repo), Request(repo)} \subseteq Commands
             /\ Mirror(repo).kind = "MirrorRepo"
             /\ Request(repo).kind = "RelayBundleRequest"
  BY DEF Mirror, Request
<1>4. ASSUME NEW id \in Rounds
      PROVE  /\ Finalize(id) \in Commands
             /\ Finalize(id).kind = "FinalizeNetworkTime"
  BY DEF Finalize
<1> HIDE DEF Commands
<1> QED BY <1>1, <1>2, <1>3, <1>4

\* A command that asks for no sync is sent, or finds the channel full.
LEMMA SentOther ==
  ASSUME PeerInv, NEW c \in Commands \ {Sync}, TrySend(c),
         UNCHANGED timeVars
  PROVE  ChannelInv' /\ TimeInv'
<1>1. CASE Send(c)
  <2>1. /\ ChannelInv' /\ ToSet(commands) \subseteq ToSet(commands')
        /\ Cardinality(Syncing') = Cardinality(Syncing)
    BY <1>1, Sending, Syncs DEF PeerInv
  <2> QED BY <2>1 DEF PeerInv, TimeInv, timeVars, RoundsLeft
<1>2. CASE UNCHANGED commands
  BY <1>2 DEF PeerInv, TimeInv, ChannelInv, timeVars, RoundsLeft, Syncing
<1> QED BY <1>1, <1>2 DEF TrySend

\* A command that ends no round is taken.
LEMMA ReceivedOther ==
  ASSUME PeerInv, NEW c, Receive(c), UNCHANGED timeVars,
         \A id \in Rounds : c # Finalize(id)
  PROVE  ChannelInv' /\ TimeInv'
<1>1. /\ ChannelInv'
      /\ ToSet(commands) \subseteq ToSet(commands') \cup {c}
      /\ Cardinality(Syncing') \in Nat /\ Cardinality(Syncing) \in Nat
      /\ Cardinality(Syncing') <= Cardinality(Syncing)
  BY Receiving, Syncs DEF PeerInv
<1> QED BY <1>1, NativePeerAssumption DEF PeerInv, TimeInv, timeVars, RoundsLeft

\* The channel and the rounds stay.
LEMMA Quiet ==
  ASSUME PeerInv, UNCHANGED <<commands, timeVars>>
  PROVE  ChannelInv' /\ TimeInv'
BY DEF PeerInv, ChannelInv, TimeInv, RoundsLeft, Syncing, timeVars

\* The handlers of network time: a round is opened under an id that is left, its
\* window is running, and it ends only when its end has been taken.
LEMMA HandleSyncKeeps == PeerInv /\ HandleSync => PeerInv'
<1> SUFFICES ASSUME PeerInv, HandleSync PROVE PeerInv'
  OBVIOUS
<1> USE DEF HandleSync
<1>1. /\ ChannelInv'
      /\ ToSet(commands) \subseteq ToSet(commands') \cup {Sync}
      /\ Cardinality(Syncing') \in Nat
      /\ Cardinality(Syncing') + 1 <= Cardinality(Syncing)
      /\ Cardinality(Syncing) \in Nat
  BY Receiving, Syncs DEF PeerInv
<1>2. timeRequestCounter' \in Rounds /\ RoundsLeft'
  BY <1>1, NativePeerAssumption DEF PeerInv, TimeInv, RoundsLeft, Rounds
<1>3. TimeInv'
  <2>1. /\ pendingTime' \in [Rounds -> (0 .. MaxSamples) \cup {None}]
        /\ windows' \subseteq Rounds /\ consensus' \in 0 .. MaxSamples
        /\ timeRequestCounter' \in 0 .. MaxRounds
    BY <1>2, NativePeerAssumption DEF PeerInv, TimeInv, Rounds, timeVars
  <2>2. ASSUME NEW id \in Rounds, pendingTime'[id] # None
        PROVE  id \in windows' \/ Finalize(id) \in ToSet(commands')
    <3>1. CASE id = timeRequestCounter'
      BY <3>1
    <3>2. CASE id # timeRequestCounter'
      BY <3>2, <2>2, <1>1, CommandsBuilt DEF PeerInv, TimeInv
    <3> QED BY <3>1, <3>2
  <2> QED BY <2>1, <2>2, <1>2 DEF TimeInv
<1>4. MirrorInv'
  BY DEF PeerInv, MirrorInv, TaskInv, mirrorVars
<1> QED BY <1>1, <1>3, <1>4 DEF PeerInv

\* A sync is asked for only while an id is left for it.
LEMMA TimeTickKeeps == PeerInv /\ TimeTick => PeerInv'
<1> SUFFICES ASSUME PeerInv, TimeTick PROVE PeerInv'
  OBVIOUS
<1> USE DEF TimeTick
<1>1. /\ ChannelInv' /\ ToSet(commands) \subseteq ToSet(commands')
      /\ Cardinality(Syncing') = Cardinality(Syncing) + 1
      /\ Cardinality(Syncing) \in Nat
  BY Sending, Syncs, CommandsBuilt DEF PeerInv
<1>2. TimeInv'
  BY <1>1, NativePeerAssumption DEF TimeInv, RoundsLeft, timeVars, PeerInv
<1>3. MirrorInv'
  BY DEF PeerInv, MirrorInv, TaskInv, mirrorVars
<1> QED BY <1>1, <1>2, <1>3 DEF PeerInv

\* The end of a round concerns no other round.
LEMMA HandleFinalizeKeeps ==
  ASSUME PeerInv, NEW id \in Rounds, HandleFinalize(id)
  PROVE  PeerInv'
<1> USE DEF HandleFinalize
<1>1. /\ ChannelInv'
      /\ ToSet(commands) \subseteq ToSet(commands') \cup {Finalize(id)}
      /\ Cardinality(Syncing') \in Nat /\ Cardinality(Syncing) \in Nat
      /\ Cardinality(Syncing') <= Cardinality(Syncing)
  BY Receiving, Syncs, CommandsBuilt DEF PeerInv
<1>2. \A other \in Rounds : Finalize(other) = Finalize(id) => other = id
  BY DEF Finalize
<1>3. TimeInv'
  <2>1. /\ pendingTime' \in [Rounds -> (0 .. MaxSamples) \cup {None}]
        /\ windows' \subseteq Rounds /\ consensus' \in 0 .. MaxSamples
        /\ timeRequestCounter' \in 0 .. MaxRounds
    BY DEF PeerInv, TimeInv
  <2>2. ASSUME NEW other \in Rounds, pendingTime'[other] # None
        PROVE  other \in windows' \/ Finalize(other) \in ToSet(commands')
    BY <2>2, <1>1, <1>2 DEF PeerInv, TimeInv
  <2>3. RoundsLeft'
    BY <1>1, NativePeerAssumption DEF PeerInv, TimeInv, RoundsLeft
  <2> QED BY <2>1, <2>2, <2>3 DEF TimeInv
<1>4. MirrorInv'
  BY DEF PeerInv, MirrorInv, TaskInv, mirrorVars
<1> QED BY <1>1, <1>3, <1>4 DEF PeerInv

\* The end of a window is in the channel once the window is over.
LEMMA WindowEndsKeeps ==
  ASSUME PeerInv, NEW id \in Rounds, WindowEnds(id)
  PROVE  PeerInv'
<1> USE DEF WindowEnds
<1>1. /\ ChannelInv'
      /\ ToSet(commands') = ToSet(commands) \cup {Finalize(id)}
      /\ Cardinality(Syncing') = Cardinality(Syncing)
  BY Sending, Syncs, CommandsBuilt DEF PeerInv
<1>2. TimeInv'
  BY <1>1 DEF PeerInv, TimeInv, RoundsLeft
<1>3. MirrorInv'
  BY DEF PeerInv, MirrorInv, TaskInv, mirrorVars
<1> QED BY <1>1, <1>2, <1>3 DEF PeerInv

\* A response is counted in a round that is open.
LEMMA TimeResponseKeeps ==
  ASSUME PeerInv, NEW id \in Rounds, TimeResponse(id)
  PROVE  PeerInv'
<1> USE DEF TimeResponse
<1>1. ChannelInv' /\ MirrorInv'
  BY DEF PeerInv, ChannelInv, MirrorInv, TaskInv, mirrorVars
<1>2. TimeInv'
  BY NativePeerAssumption DEF PeerInv, TimeInv, RoundsLeft, Syncing
<1> QED BY <1>1, <1>2 DEF PeerInv

\* The commands about mirrors and bundles.
LEMMA CommandsKeep ==
  ASSUME PeerInv, NEW repo \in Repos
  PROVE  /\ \A t \in Tasks : HandleMirror(repo, t) => PeerInv'
         /\ \A b \in Bundles : HandlePublish(repo, b) => PeerInv'
         /\ HandleRequest(repo) => PeerInv'
<1>1. ASSUME NEW t \in Tasks, HandleMirror(repo, t) PROVE PeerInv'
  <2>1. ChannelInv' /\ TimeInv'
    BY <1>1, ReceivedOther DEF HandleMirror, Mirror, Finalize
  <2>2. MirrorInv'
    BY <1>1
       DEF HandleMirror, PeerInv, MirrorInv, TaskInv, TaskStates, Idle
  <2> QED BY <2>1, <2>2 DEF PeerInv
<1>2. ASSUME NEW b \in Bundles, HandlePublish(repo, b) PROVE PeerInv'
  <2>1. ChannelInv' /\ TimeInv'
    BY <1>2, ReceivedOther DEF HandlePublish, Publish, Finalize
  <2>2. MirrorInv'
    BY <1>2 DEF HandlePublish, PeerInv, MirrorInv, TaskInv, mirrorVars
  <2> QED BY <2>1, <2>2 DEF PeerInv
<1>3. ASSUME HandleRequest(repo) PROVE PeerInv'
  <2>1. ChannelInv' /\ TimeInv'
    BY <1>3, ReceivedOther DEF HandleRequest, Request, Finalize
  <2>2. MirrorInv'
    BY <1>3 DEF HandleRequest, PeerInv, MirrorInv, TaskInv, mirrorVars
  <2> QED BY <2>1, <2>2 DEF PeerInv
<1> QED BY <1>1, <1>2, <1>3

\* The repository changes, its timer ticks, and bundles are asked for.
LEMMA WorldKeeps ==
  ASSUME PeerInv, NEW repo \in Repos
  PROVE  /\ UpstreamChanges(repo) => PeerInv'
         /\ MirrorTick(repo) => PeerInv'
         /\ RelayRequest(repo) => PeerInv'
         /\ GossipRequest(repo) => PeerInv'
<1>1. ASSUME UpstreamChanges(repo) PROVE PeerInv'
  <2>1. ChannelInv' /\ TimeInv'
    BY <1>1, Quiet DEF UpstreamChanges
  <2>2. MirrorInv'
    BY <1>1, NativePeerAssumption
       DEF UpstreamChanges, PeerInv, MirrorInv, TaskInv, mirrorVars
  <2> QED BY <2>1, <2>2 DEF PeerInv
<1>2. ASSUME MirrorTick(repo) PROVE PeerInv'
  <2>1. ChannelInv' /\ TimeInv'
    BY <1>2, SentOther, CommandsBuilt DEF MirrorTick, TrySend
  <2>2. MirrorInv'
    BY <1>2 DEF MirrorTick, PeerInv, MirrorInv, TaskInv, mirrorVars
  <2> QED BY <2>1, <2>2 DEF PeerInv
<1>3. ASSUME RelayRequest(repo) PROVE PeerInv'
  <2>1. ChannelInv' /\ TimeInv'
    BY <1>3, SentOther, CommandsBuilt DEF RelayRequest
  <2>2. MirrorInv'
    BY <1>3 DEF RelayRequest, PeerInv, MirrorInv, TaskInv, mirrorVars
  <2> QED BY <2>1, <2>2 DEF PeerInv
<1>4. ASSUME GossipRequest(repo) PROVE PeerInv'
  <2>1. PICK b \in Bundles : b = bundleCache[repo]
    BY <1>4 DEF GossipRequest, PeerInv, MirrorInv
  <2>2. TrySend(Publish(repo, b)) /\ UNCHANGED timeVars
    BY <1>4, <2>1 DEF GossipRequest
  <2>3. ChannelInv' /\ TimeInv'
    BY <2>2, SentOther, CommandsBuilt
  <2>4. MirrorInv'
    BY <1>4 DEF GossipRequest, PeerInv, MirrorInv, TaskInv, mirrorVars
  <2> QED BY <2>3, <2>4 DEF PeerInv
<1> QED BY <1>1, <1>2, <1>3, <1>4

\* The steps of a mirror task.
LEMMA MirrorStepKeeps ==
  ASSUME PeerInv, NEW t \in Tasks, MirrorStep(t)
  PROVE  PeerInv'
<1> USE DEF PeerInv, MirrorInv, TaskInv, TaskStates, Idle, Goes,
            Ends, At, unmirrored
<1>1. CASE MirrorBegins(t)
  BY <1>1, Quiet DEF MirrorBegins
<1>2. CASE CloneBegins(t) \/ CloneSucceeds(t) \/ CloneFails(t)
  BY <1>2, Quiet, NativePeerAssumption DEF CloneBegins, CloneSucceeds, CloneFails
<1>3. CASE FetchSucceeds(t)
  BY <1>3, Quiet, NativePeerAssumption DEF FetchSucceeds
<1>4. CASE FetchEnclosing(t)
  BY <1>4, Quiet DEF FetchEnclosing
<1>5. CASE BundleCreated(t)
  <2>1. /\ task[t].repo \in Repos
        /\ mirrorDir[task[t].repo] \in (0 .. MaxVersion) \cup {Empty}
    BY <1>5 DEF BundleCreated
  <2>2. BundleIn(task[t].repo) \in Bundles
    BY <2>1, NativePeerAssumption DEF BundleIn, Bundles
  <2>3. ChannelInv' /\ TimeInv'
    BY <1>5, Quiet DEF BundleCreated
  <2> QED BY <1>5, <2>2, <2>3 DEF BundleCreated
<1>6. CASE BundleReady(t)
  <2>1. PICK repo \in Repos, b \in Bundles :
               repo = task[t].repo /\ b = task[t].bundle
    BY <1>6 DEF BundleReady
  <2>2. TrySend(Publish(repo, b)) /\ UNCHANGED timeVars
    BY <1>6, <2>1 DEF BundleReady, TrySend
  <2>3. ChannelInv' /\ TimeInv'
    BY <2>2, SentOther, CommandsBuilt
  <2> QED BY <1>6, <2>3 DEF BundleReady
<1>7. CASE MirrorFails(t)
  BY <1>7, Quiet DEF MirrorFails
<1>8. CASE DirCreated(t)
  BY <1>8, Quiet, NativePeerAssumption DEF DirCreated
<1> QED BY <1>1, <1>2, <1>3, <1>4, <1>5, <1>6, <1>7, <1>8 DEF MirrorStep

(***************************************************************************)
(* The variables of run_node keep their types, a bundle is made only for a *)
(* repository that is mirrored and in a directory that exists, and no      *)
(* round of network time leaks: whatever fills the channel, the samples of *)
(* a round are kept only while its window runs or its end is queued.       *)
(***************************************************************************)
THEOREM PeerTypeCorrect == PeerSpec => []PeerTypeOK
<1>1. PeerInit => PeerInv
  <2> SUFFICES ASSUME PeerInit PROVE PeerInv
    OBVIOUS
  <2>1. Syncing = {} /\ Cardinality(Syncing) = 0
    BY FS_EmptySet DEF PeerInit, Syncing
  <2> QED BY <2>1, NativePeerAssumption
     DEF PeerInit, PeerInv, ChannelInv, MirrorInv, TimeInv, TaskInv,
         TaskStates, RoundsLeft, Idle
<1>2. PeerInv /\ [PeerNext]_peerVars => PeerInv'
  <2> SUFFICES ASSUME PeerInv, [PeerNext]_peerVars PROVE PeerInv'
    OBVIOUS
  <2>1. CASE Handle
    BY <2>1, CommandsKeep, HandleSyncKeeps, HandleFinalizeKeeps DEF Handle
  <2>2. CASE \/ TimeTick
              \/ \E id \in Rounds : TimeResponse(id) \/ WindowEnds(id)
    BY <2>2, TimeTickKeeps, TimeResponseKeeps, WindowEndsKeeps
  <2>3. CASE \E repo \in Repos : \/ UpstreamChanges(repo) \/ MirrorTick(repo)
                                 \/ RelayRequest(repo) \/ GossipRequest(repo)
    BY <2>3, WorldKeeps
  <2>4. CASE \E t \in Tasks : MirrorStep(t)
    BY <2>4, MirrorStepKeeps
  <2>5. CASE UNCHANGED peerVars
    BY <2>5, Quiet DEF peerVars, mirrorVars, PeerInv, MirrorInv, TaskInv
  <2> QED BY <2>1, <2>2, <2>3, <2>4, <2>5 DEF PeerNext
<1>3. PeerInv => PeerTypeOK
  BY DEF PeerInv, ChannelInv, MirrorInv, TimeInv, PeerTypeOK
<1> QED BY <1>1, <1>2, <1>3, PTL DEF PeerSpec
=============================================================================
