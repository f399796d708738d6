--------------------------- MODULE BundleReceiver ---------------------------
(***************************************************************************)
(* The browser's side of git over p2p (demo/shared/git-p2p-transport.mjs): *)
(* callers request the bundle of a repository, peers publish a bundle as a *)
(* manifest event and slice events, and gossip and relays deliver these in *)
(* any order, again and again, or never.                                   *)
(***************************************************************************)
EXTENDS Naturals, SequencesExt

CONSTANTS
  Repos,          \* repository URLs
  Requests,       \* calls of requestBundle
  Wanted,         \* Wanted[r]: the repository r asks for
  Publications,   \* bundles published by peers
  Path,           \* Path[p]: the repository named in the manifest of p
  Packets,        \* Packets[p]: how many slices p has, data and parity
  Parity,         \* Parity[p]: the numbers of its parity slices
  Chained,        \* Chained[p]: each slice of p names the slice before it
  None            \* neither a publication nor an entry

ASSUME BundleAssumption ==
  /\ Wanted \in [Requests -> Repos]
  /\ Path \in [Publications -> Repos]
  /\ Packets \in [Publications -> Nat \ {0}]
  /\ \A p \in Publications : Parity[p] \subseteq 1 .. Packets[p]
  /\ Chained \in [Publications -> BOOLEAN]
  /\ None \notin Publications

VARIABLES
  manifests,        \* the latest manifest received for a repository
  slices,           \* slices received, filed under the id they name as parent
  pendingRequests,  \* one entry per repository
  timers,           \* requests whose timeout is running
  status,           \* of the promise of a request
  answer            \* what a request resolved with, as the slices in order

vars == <<manifests, slices, pendingRequests, timers, status, answer>>

\* The manifest event of p is <<p, 0>> and its i-th slice event <<p, i>>.
Ids(p) == {p} \X (0 .. Packets[p])
EventIds == UNION {Ids(p) : p \in Publications}

\* The "e" tag of a slice: build_transfer_slice_event names the manifest,
\* encode_payload_as_transfer_events_chained the event before it.
ParentId(p, i) == IF Chained[p] THEN <<p, i - 1>> ELSE <<p, 0>>

Init ==
  /\ manifests = [repo \in Repos |-> None]
  /\ slices = [id \in EventIds |-> <<>>]
  /\ pendingRequests = [repo \in Repos |-> None]
  /\ timers = {}
  /\ status = [r \in Requests |-> "new"]
  /\ answer = [r \in Requests |-> <<>>]

----------------------------------------------------------------------------
\* Enough slices are filed under the manifest of p.
Complete(p, filed) == Len(filed[<<p, 0>>]) >= Packets[p]

\* Mutant: the slices are concatenated as they came.
ReconstructUnsorted(p, filed) == filed[<<p, 0>>]

\* reconstructPayload: the slices by sequence number, which counts data and
\* parity slices alike; is_parity is parsed and not looked at.
SortedBy(s, order) ==
  \A i, j \in DOMAIN s : i < j => s[order[i]][2] <= s[order[j]][2]

Sorted(s) ==
  LET order == CHOOSE f \in Bijection(DOMAIN s, DOMAIN s) : SortedBy(s, f)
  IN  [i \in DOMAIN s |-> s[order[i]]]

ReconstructPayload(p, filed) == Sorted(filed[<<p, 0>>])

\* checkComplete of the entry for repo, given what is filed by now.
CheckComplete(repo, pending, filed) ==
  \/ /\ Complete(pending.manifest, filed)
     /\ timers' = timers \ {pending.request}
     /\ pendingRequests' = [pendingRequests EXCEPT ![repo] = None]
     /\ status' = [status EXCEPT ![pending.request] = "resolved"]
     /\ answer' = [answer EXCEPT ![pending.request] =
                      ReconstructPayload(pending.manifest, filed)]
  \/ /\ ~Complete(pending.manifest, filed)
     /\ pendingRequests' = [pendingRequests EXCEPT ![repo] = pending]
     /\ UNCHANGED <<timers, status, answer>>

----------------------------------------------------------------------------
\* The entry for repo has no manifest yet.
AwaitsManifest(repo) ==
  pendingRequests[repo] # None /\ pendingRequests[repo].manifest = None

\* Mutant: a new manifest replaces the one of the entry unexamined.
ProcessManifestBlindly(p) ==
  /\ manifests' = [manifests EXCEPT ![Path[p]] = p]
  /\ IF pendingRequests[Path[p]] # None
       THEN pendingRequests' = [pendingRequests EXCEPT ![Path[p]].manifest = p]
       ELSE UNCHANGED pendingRequests
  /\ UNCHANGED <<slices, timers, status, answer>>

\* processTransferEvent of a manifest.  Only the first manifest after the
\* request becomes that of the entry.
ProcessManifest(p) ==
  /\ manifests' = [manifests EXCEPT ![Path[p]] = p]
  /\ UNCHANGED slices
  /\ \/ /\ AwaitsManifest(Path[p])
        /\ CheckComplete(Path[p],
                         [pendingRequests[Path[p]] EXCEPT !.manifest = p],
                         slices)
     \/ /\ ~AwaitsManifest(Path[p])
        /\ UNCHANGED <<pendingRequests, timers, status, answer>>

\* The entry for repo waits for slices of the manifest with this id.
AwaitsSlices(repo, id) ==
  pendingRequests[repo] # None /\ <<pendingRequests[repo].manifest, 0>> = id

\* processTransferEvent of a slice; one that is already filed changes nothing.
ProcessSlice(p, i) ==
  LET id == ParentId(p, i)
      filed == [slices EXCEPT ![id] = Append(@, <<p, i>>)]
  IN  /\ <<p, i>> \notin ToSet(slices[id])
      /\ slices' = filed
      /\ UNCHANGED manifests
      /\ \/ /\ AwaitsSlices(Path[p], id)
            /\ CheckComplete(Path[p], pendingRequests[Path[p]], filed)
         \/ /\ ~AwaitsSlices(Path[p], id)
            /\ UNCHANGED <<pendingRequests, timers, status, answer>>

----------------------------------------------------------------------------
Cached(repo) == manifests[repo] # None /\ Complete(manifests[repo], slices)

\* requestBundle with the bundle at hand.
RequestCached(r) ==
  /\ status[r] = "new"
  /\ Cached(Wanted[r])
  /\ status' = [status EXCEPT ![r] = "resolved"]
  /\ answer' = [answer EXCEPT ![r] =
                   ReconstructPayload(manifests[Wanted[r]], slices)]
  /\ UNCHANGED <<manifests, slices, pendingRequests, timers>>

\* Mutant: the timeout of the request whose entry is replaced is cleared.
RequestBundleReplacing(r) ==
  /\ status[r] = "new"
  /\ ~Cached(Wanted[r])
  /\ LET old == pendingRequests[Wanted[r]]
     IN  timers' = (IF old = None THEN timers ELSE timers \ {old.request}) \cup {r}
  /\ pendingRequests' =
       [pendingRequests EXCEPT ![Wanted[r]] = [request |-> r, manifest |-> None]]
  /\ status' = [status EXCEPT ![r] = "waiting"]
  /\ UNCHANGED <<manifests, slices, answer>>

\* requestBundle without it: start the timeout, and replace the entry of the
\* repository by one that has no manifest, whatever has been received.
RequestBundle(r) ==
  /\ status[r] = "new"
  /\ ~Cached(Wanted[r])
  /\ timers' = timers \cup {r}
  /\ pendingRequests' =
       [pendingRequests EXCEPT ![Wanted[r]] = [request |-> r, manifest |-> None]]
  /\ status' = [status EXCEPT ![r] = "waiting"]
  /\ UNCHANGED <<manifests, slices, answer>>

\* Mutant: the entry stays behind.
TimeoutKeepingEntry(r) ==
  /\ r \in timers
  /\ timers' = timers \ {r}
  /\ status' = [status EXCEPT ![r] = "rejected"]
  /\ UNCHANGED <<manifests, slices, pendingRequests, answer>>

\* The timeout of r deletes the entry of the repository, its own or that of
\* a later request.
Timeout(r) ==
  /\ r \in timers
  /\ timers' = timers \ {r}
  /\ pendingRequests' = [pendingRequests EXCEPT ![Wanted[r]] = None]
  /\ status' = [status EXCEPT ![r] = "rejected"]
  /\ UNCHANGED <<manifests, slices, answer>>

Next ==
  \/ \E p \in Publications : ProcessManifest(p)
  \/ \E p \in Publications : \E i \in 1 .. Packets[p] : ProcessSlice(p, i)
  \/ \E r \in Requests : RequestCached(r) \/ RequestBundle(r) \/ Timeout(r)

Spec == Init /\ [][Next]_vars

\* Timers fire.  Nothing is assumed of peers, gossip and relays.
FairSpec == Spec /\ \A r \in Requests : WF_vars(Timeout(r))

----------------------------------------------------------------------------
Entries == [request : Requests, manifest : Publications \cup {None}]

(***************************************************************************)
(* The fields of GitP2PTransport keep their types, and an entry belongs to *)
(* a request for its repository that still waits.  Timers delete entries   *)
(* they did not create, so this depends on every path that settles a       *)
(* request deleting the entry too: an entry that outlived its request      *)
(* would take the manifest meant for a later one.                          *)
(***************************************************************************)
TypeOK ==
  /\ manifests \in [Repos -> Publications \cup {None}]
  /\ slices \in [EventIds -> Seq(EventIds)]
  /\ pendingRequests \in [Repos -> Entries \cup {None}]
  /\ timers \subseteq Requests
  /\ status \in [Requests -> {"new", "waiting", "resolved", "rejected"}]
  /\ answer \in [Requests -> Seq(EventIds)]
  /\ \A repo \in Repos :
       pendingRequests[repo] # None =>
          LET r == pendingRequests[repo].request
          IN  Wanted[r] = repo /\ status[r] = "waiting" /\ r \in timers

(***************************************************************************)
(* No wakeup is lost: an entry that has its manifest is not waiting for a  *)
(* bundle that is already complete, in whichever order manifest, slices    *)
(* and request came.                                                       *)
(***************************************************************************)
NoLostWakeup ==
  \A repo \in Repos :
     pendingRequests[repo] # None =>
        LET p == pendingRequests[repo].manifest
        IN  p # None => Len(slices[<<p, 0>>]) < Packets[p]

(***************************************************************************)
(* A request resolves with what one publication of the repository it asked *)
(* for carries: all its slices, each once and in order, although manifests *)
(* replace each other while slices of several publications come in.  The   *)
(* bundle is less: "Consumers reconstruct payloads by collecting data      *)
(* slices (is_parity: false), ordering them by seq_num, and concatenating" *)
(* (PIP.md:181).  So the answer is the bundle exactly when the publication *)
(* has no parity slices, as those of packetizePayload of the pages, and    *)
(* those of packetize_payload of the native peer that fit into one slice.  *)
(***************************************************************************)
Carried(p) == [i \in 1 .. Packets[p] |-> <<p, i>>]

DataSlices(p) == {<<p, i>> : i \in (1 .. Packets[p]) \ Parity[p]}

IsBundle(p, s) ==
  /\ ToSet(s) = DataSlices(p)
  /\ \A i, j \in DOMAIN s : i < j => s[i][2] < s[j][2]

AnswersAreWhole ==
  \A r \in Requests : status[r] = "resolved" =>
     \E p \in Publications :
        /\ Path[p] = Wanted[r]
        /\ answer[r] = Carried(p)
        /\ IsBundle(p, answer[r]) <=> Parity[p] = {}

(***************************************************************************)
(* Every request is settled, whatever the network delivers and however     *)
(* many requests for the same repository replace each other's entry.       *)
(***************************************************************************)
EveryRequestSettles ==
  \A r \in Requests : status[r] = "waiting" ~> status[r] \in {"resolved", "rejected"}

(***************************************************************************)
(* "If the bundle is already cached locally, resolves immediately"         *)
(* (requestBundle): true of a bundle when its manifest is the latest of    *)
(* the repository and all its slices have been received.                   *)
(***************************************************************************)
Received(p) == UNION {ToSet(slices[id]) : id \in Ids(p)}

HasBundle(repo) ==
  /\ manifests[repo] # None
  /\ Received(manifests[repo]) = Ids(manifests[repo]) \ {<<manifests[repo], 0>>}

CachedResolvesAtOnce ==
  [][\A r \in Requests :
        status[r] = "new" /\ status'[r] # "new" /\ HasBundle(Wanted[r])
          => status'[r] = "resolved"]_vars
=============================================================================
