------------------------------ MODULE BlobQuorum ------------------------------
(***************************************************************************)
(* The life of the quorum over one blob (src/quorum.rs): members attest    *)
(* the blob, an attestation that makes the count exceed the threshold      *)
(* seals the quorum, and whoever cites the seal may join as a member.      *)
(*                                                                         *)
(* A member's attestation is identified with the member: a second one is a *)
(* duplicate whatever its id.  A seal is identified with the attestations  *)
(* it lists: attest never builds two seals over the same ones.             *)
(* An event that fails the checks of kind, type, root_id or sha256 changes *)
(* nothing and is left out.                                                *)
(***************************************************************************)
EXTENDS Naturals, FiniteSets, QuorumRule

CONSTANTS
  PublicKeys,
  InitialParticipants   \* the keys given to BlobQuorum::new

ASSUME BlobQuorumAssumption ==
  /\ IsFiniteSet(PublicKeys)
  /\ InitialParticipants \subseteq PublicKeys

VARIABLES
  participants,     \* members: the participants of the quorum's Dag
  attestations,     \* members whose attestation was recorded
  seal,             \* the cached seal: the attestations it lists, {} if none
  published,        \* every seal attest has returned to be published
  joins             \* signed join events not yet given to add_member

vars == <<participants, attestations, seal, published, joins>>

\* No seal yet.  A seal always lists the attestation that completed it.
NoSeal == {}

JoinEvents == [key : PublicKeys, seal : SUBSET PublicKeys]

Init ==
  /\ participants = InitialParticipants
  /\ attestations = {}
  /\ seal = NoSeal
  /\ published = {}
  /\ joins = {}

Reaches(count, members) == count > QuorumThreshold(Cardinality(members))

\* Mutant: the required count is compared as if it were the threshold.
AttestTooEarly(key) ==
  /\ key \in participants
  /\ key \notin attestations
  /\ attestations' = attestations \cup {key}
  /\ IF Cardinality(attestations') >= QuorumThreshold(Cardinality(participants))
       THEN seal' = attestations' /\ published' = published \cup {attestations'}
       ELSE UNCHANGED <<seal, published>>
  /\ UNCHANGED <<participants, joins>>

\* Mutant: the seal is dropped when the attestations no longer reach the
\* threshold.
AttestUnsealing(key) ==
  /\ key \in participants
  /\ key \notin attestations
  /\ attestations' = attestations \cup {key}
  /\ IF Reaches(Cardinality(attestations'), participants)
       THEN seal' = attestations' /\ published' = published \cup {attestations'}
       ELSE seal' = NoSeal /\ UNCHANGED published
  /\ UNCHANGED <<participants, joins>>

(***************************************************************************)
(* attest: every attestation at or above the threshold builds a new seal   *)
(* that replaces the cached one, also when the quorum was already sealed.  *)
(***************************************************************************)
Attest(key) ==
  /\ key \in participants
  /\ key \notin attestations
  /\ attestations' = attestations \cup {key}
  /\ IF Reaches(Cardinality(attestations'), participants)
       THEN seal' = attestations' /\ published' = published \cup {attestations'}
       ELSE UNCHANGED <<seal, published>>
  /\ UNCHANGED <<participants, joins>>

\* create_join_event by a key that has read some published seal.
RequestJoin(key, s) ==
  /\ key \notin participants
  /\ s \in published
  /\ [key |-> key, seal |-> s] \notin joins
  /\ joins' = joins \cup {[key |-> key, seal |-> s]}
  /\ UNCHANGED <<participants, attestations, seal, published>>

Admissible(join) ==
  /\ seal # NoSeal
  /\ join.seal = seal
  /\ join.key \notin participants

\* Mutant: joining ends the seal until the larger quorum attests.
AdmitMemberUnsealing(join) ==
  /\ join \in joins
  /\ Admissible(join)
  /\ participants' = participants \cup {join.key}
  /\ joins' = joins \ {join}
  /\ seal' = NoSeal
  /\ UNCHANGED <<attestations, published>>

\* add_member, accepted ...
AdmitMember(join) ==
  /\ join \in joins
  /\ Admissible(join)
  /\ participants' = participants \cup {join.key}
  /\ joins' = joins \ {join}
  /\ UNCHANGED <<attestations, seal, published>>

\* ... and rejected: the event is spent, a new one must be signed.
RejectMember(join) ==
  /\ join \in joins
  /\ ~Admissible(join)
  /\ joins' = joins \ {join}
  /\ UNCHANGED <<participants, attestations, seal, published>>

Next ==
  \/ \E key \in PublicKeys :
       Attest(key) \/ \E s \in published : RequestJoin(key, s)
  \/ \E join \in joins : AdmitMember(join) \/ RejectMember(join)

Spec == Init /\ [][Next]_vars

(***************************************************************************)
(* The initial members attest sooner or later, events handed over are      *)
(* processed, and who wants to join keeps citing the seal that is current. *)
(***************************************************************************)
FairSpec ==
  /\ Spec
  /\ \A key \in InitialParticipants : WF_vars(Attest(key))
  /\ \A key \in PublicKeys : WF_vars(seal # NoSeal /\ RequestJoin(key, seal))
  /\ \A join \in JoinEvents : WF_vars(AdmitMember(join) \/ RejectMember(join))

----------------------------------------------------------------------------
\* The fields keep their types, and the cached seal is always the last one
\* published, so what add_member compares a join with is the seal a member
\* reads from the network last.
TypeOK ==
  /\ participants \subseteq PublicKeys
  /\ attestations \subseteq PublicKeys
  /\ seal \in SUBSET PublicKeys
  /\ published \subseteq SUBSET PublicKeys
  /\ published # {} => seal \in published /\ \A s \in published : s \subseteq seal
  /\ joins \subseteq JoinEvents

(***************************************************************************)
(* Every seal the quorum ever published lists attestations of members, and *)
(* of at least four fifths of the founding membership, although seals are  *)
(* rebuilt while the membership and with it the threshold moves.           *)
(***************************************************************************)
SealsAreQuorums ==
  \A s \in published :
     s \subseteq participants
       /\ 5 * Cardinality(s) >= 4 * Cardinality(InitialParticipants)

\* Once sealed for good, everyone who keeps asking becomes a member.
EveryoneMayJoin ==
  \A key \in PublicKeys : seal # NoSeal ~> key \in participants
=============================================================================
