----------------------------- MODULE NativePeer -----------------------------
(***************************************************************************)
(* The event loop of the native p2p peer (src/p2p_node.rs) and the tasks   *)
(* it spawns: one channel of commands that timers, tasks, relay requests   *)
(* and the loop itself write to, a cache of git bundles, mirror tasks that *)
(* clone or fetch a repository and bundle it, and rounds of network time.  *)
(* Commands that only publish or print (chat, presence, dial) keep no      *)
(* state and are left out.                                                 *)
(***************************************************************************)
EXTENDS Integers, FiniteSets, SequencesExt

CONSTANTS
  Repos,           \* repositories in GIT_MIRROR_REPOS
  Tasks,           \* bound: mirror tasks that are asked for or running at once
  Capacity,        \* of the channel of commands (64)
  MaxVersion,      \* bound: how often a repository changes
  MaxRounds,       \* bound: rounds of network time
  MaxSamples,      \* bound: responses counted per round
  Absent, Empty,   \* a mirror directory before it is made and before it is filled
  None

ASSUME NativePeerAssumption ==
  /\ Capacity \in Nat \ {0}
  /\ MaxVersion \in Nat
  /\ MaxRounds \in Nat
  /\ MaxSamples \in Nat
  /\ None \notin Repos
  /\ Absent # Empty /\ {Absent, Empty} \cap (0 .. MaxVersion) = {}

VARIABLES
  commands,        \* the channel
  bundleCache,     \* bundle_cache: the bundle served for a repository
  upstream,        \* the current version of a repository
  mirrorDir,       \* Absent, Empty, or the version that has been cloned
  task,            \* per mirror task: its step, repository and bundle
  pendingTime,     \* pending_time_requests: samples of the rounds under way
  windows,         \* rounds whose collection window is running
  timeRequestCounter,
  consensus        \* how many samples consensus_offset_ms is the median of

mirrorVars == <<mirrorDir, task>>
timeVars == <<pendingTime, windows, timeRequestCounter, consensus>>
peerVars == <<commands, bundleCache, upstream, mirrorVars, timeVars>>

\* A bundle: the repository it was made from (None for the one around the
\* working directory) and its version.
Bundles == [from : Repos \cup {None}, version : 0 .. MaxVersion]

Idle == [step |-> "idle", repo |-> None, bundle |-> None]

Mirror(repo) == [kind |-> "MirrorRepo", repo |-> repo]
Request(repo) == [kind |-> "RelayBundleRequest", repo |-> repo]
Publish(repo, bundle) ==
  [kind |-> "PublishPipPayload", repo |-> repo, bundle |-> bundle]
Sync == [kind |-> "SyncNetworkTime"]
Finalize(id) == [kind |-> "FinalizeNetworkTime", id |-> id]

Rounds == 1 .. MaxRounds

Commands ==
  {Mirror(repo) : repo \in Repos} \cup {Request(repo) : repo \in Repos}
  \cup {Publish(repo, b) : repo \in Repos, b \in Bundles}
  \cup {Sync} \cup {Finalize(id) : id \in Rounds}

PeerInit ==
  /\ commands = <<>>
  /\ bundleCache = [repo \in Repos |-> None]
  /\ upstream = [repo \in Repos |-> 0]
  /\ mirrorDir = [repo \in Repos |-> Absent]
  /\ task = [t \in Tasks |-> Idle]
  /\ pendingTime = [id \in Rounds |-> None]
  /\ windows = {}
  /\ timeRequestCounter = 0
  /\ consensus = 0

----------------------------------------------------------------------------
\* send(..).await waits for room, try_send gives up without it.
Send(command) ==
  /\ Len(commands) < Capacity
  /\ commands' = Append(commands, command)

TrySend(command) ==
  \/ Send(command)
  \/ /\ Len(commands) >= Capacity
     /\ UNCHANGED commands

\* The world: a repository changes.
UpstreamChanges(repo) ==
  /\ upstream[repo] < MaxVersion
  /\ upstream' = [upstream EXCEPT ![repo] = @ + 1]
  /\ UNCHANGED <<commands, bundleCache, mirrorVars, timeVars>>

\* The interval of five minutes (and the mirrors started at startup). Bound: a
\* task is left for every mirror that is asked for.
Asked == {i \in DOMAIN commands : commands[i].kind = "MirrorRepo"}
Running == {t \in Tasks : task[t] # Idle}

MirrorTick(repo) ==
  /\ Cardinality(Asked) + Cardinality(Running) < Cardinality(Tasks)
  /\ Send(Mirror(repo))
  /\ UNCHANGED <<bundleCache, upstream, mirrorVars, timeVars>>

\* The time tick, and SyncNetworkTime asked for by the user.
Syncing == {i \in DOMAIN commands : commands[i].kind = "SyncNetworkTime"}

TimeTick ==
  /\ timeRequestCounter + Cardinality(Syncing) < MaxRounds
  /\ Send(Sync)
  /\ UNCHANGED <<bundleCache, upstream, mirrorVars, timeVars>>

\* A browser asks for a bundle through a relay ...
RelayRequest(repo) ==
  /\ TrySend(Request(repo))
  /\ UNCHANGED <<bundleCache, upstream, mirrorVars, timeVars>>

\* ... or on the gossip topic: the loop sends itself what is cached now.
GossipRequest(repo) ==
  /\ bundleCache[repo] # None
  /\ TrySend(Publish(repo, bundleCache[repo]))
  /\ UNCHANGED <<bundleCache, upstream, mirrorVars, timeVars>>

\* A response to a time query, of a round that may be over.
TimeResponse(id) ==
  /\ pendingTime[id] # None
  /\ pendingTime[id] < MaxSamples
  /\ pendingTime' = [pendingTime EXCEPT ![id] = @ + 1]
  /\ UNCHANGED <<commands, bundleCache, upstream, mirrorVars,
                 windows, timeRequestCounter, consensus>>

----------------------------------------------------------------------------
(***************************************************************************)
(* The loop takes the next command.                                        *)
(***************************************************************************)
Receive(command) ==
  /\ commands # <<>>
  /\ Head(commands) = command
  /\ commands' = Tail(commands)

\* MirrorRepo spawns a task.
HandleMirror(repo, t) ==
  /\ Receive(Mirror(repo))
  /\ task[t] = Idle
  /\ task' = [task EXCEPT ![t] = [Idle EXCEPT !.step = "start", !.repo = repo]]
  /\ UNCHANGED <<bundleCache, upstream, mirrorDir, timeVars>>

\* Mutant: what was published for a repository first stays in the cache.
HandlePublishOnce(repo, bundle) ==
  /\ Receive(Publish(repo, bundle))
  /\ bundleCache' = [bundleCache EXCEPT ![repo] = IF @ = None THEN bundle ELSE @]
  /\ UNCHANGED <<upstream, mirrorVars, timeVars>>

\* PublishPipPayload: into the cache, then out to relays and gossip.
HandlePublish(repo, bundle) ==
  /\ Receive(Publish(repo, bundle))
  /\ bundleCache' = [bundleCache EXCEPT ![repo] = bundle]
  /\ UNCHANGED <<upstream, mirrorVars, timeVars>>

\* RelayBundleRequest: what is cached, if anything, goes out to relays and
\* gossip; nothing of it stays in the peer.
HandleRequest(repo) ==
  /\ Receive(Request(repo))
  /\ UNCHANGED <<bundleCache, upstream, mirrorVars, timeVars>>

\* SyncNetworkTime: open a round under a fresh id, and a task that ends it.
HandleSync ==
  /\ Receive(Sync)
  /\ timeRequestCounter' = timeRequestCounter + 1
  /\ pendingTime' = [pendingTime EXCEPT ![timeRequestCounter'] = 0]
  /\ windows' = windows \cup {timeRequestCounter'}
  /\ UNCHANGED <<bundleCache, upstream, mirrorVars, consensus>>

\* FinalizeNetworkTime: the median of the round's samples, none included.
HandleFinalize(id) ==
  /\ Receive(Finalize(id))
  /\ pendingTime' = [pendingTime EXCEPT ![id] = None]
  /\ consensus' = IF pendingTime[id] # None THEN pendingTime[id] ELSE consensus
  /\ UNCHANGED <<bundleCache, upstream, mirrorVars, windows, timeRequestCounter>>

\* Mutant: the task of a round ends it with try_send.
WindowEndsTrying(id) ==
  /\ id \in windows
  /\ TrySend(Finalize(id))
  /\ windows' = windows \ {id}
  /\ UNCHANGED <<bundleCache, upstream, mirrorVars, pendingTime,
                 timeRequestCounter, consensus>>

\* The task of a round has slept through its window.
WindowEnds(id) ==
  /\ id \in windows
  /\ Send(Finalize(id))
  /\ windows' = windows \ {id}
  /\ UNCHANGED <<bundleCache, upstream, mirrorVars, pendingTime,
                 timeRequestCounter, consensus>>

----------------------------------------------------------------------------
(***************************************************************************)
(* mirror_repo_bundle, in the steps between which other tasks and the      *)
(* world may move: look for the directory, make it, start git clone and    *)
(* let it run, or run git fetch, run git bundle and read its file, hand    *)
(* the bundle to the loop.                                                 *)
(***************************************************************************)
Goes(t, step) == task' = [task EXCEPT ![t].step = step]
Ends(t) == task' = [task EXCEPT ![t] = Idle]
At(t, step) == task[t].step = step
unmirrored == <<bundleCache, upstream, timeVars>>

\* mirror_dir.exists()
MirrorBegins(t) ==
  /\ At(t, "start")
  /\ IF mirrorDir[task[t].repo] = Absent THEN Goes(t, "create") ELSE Goes(t, "fetch")
  /\ UNCHANGED <<commands, mirrorDir, unmirrored>>

\* create_dir_all is content with a directory another task has made since.
DirCreated(t) ==
  /\ At(t, "create")
  /\ mirrorDir' = [mirrorDir EXCEPT ![task[t].repo] = IF @ = Absent THEN Empty ELSE @]
  /\ Goes(t, "clone")
  /\ UNCHANGED <<commands, unmirrored>>

\* git clone begins in a directory that it finds empty, which it may do while
\* another clone has just begun there.
CloneBegins(t) ==
  /\ At(t, "clone")
  /\ mirrorDir[task[t].repo] = Empty
  /\ Goes(t, "cloning")
  /\ UNCHANGED <<commands, mirrorDir, unmirrored>>

CloneSucceeds(t) ==
  /\ At(t, "cloning")
  /\ mirrorDir' = [mirrorDir EXCEPT ![task[t].repo] = upstream[task[t].repo]]
  /\ Goes(t, "bundle")
  /\ UNCHANGED <<commands, unmirrored>>

\* A git clone that fails empties the directory, of what another task has
\* cloned too, and leaves it there.
CloneFails(t) ==
  /\ At(t, "cloning")
  /\ mirrorDir' = [mirrorDir EXCEPT ![task[t].repo] = Empty]
  /\ Ends(t)
  /\ UNCHANGED <<commands, unmirrored>>

\* git fetch in a clone.
FetchSucceeds(t) ==
  /\ At(t, "fetch")
  /\ mirrorDir[task[t].repo] # Empty
  /\ mirrorDir' = [mirrorDir EXCEPT ![task[t].repo] = upstream[task[t].repo]]
  /\ Goes(t, "bundle")
  /\ UNCHANGED <<commands, unmirrored>>

\* git fetch in an empty directory works on the repository around it, when the
\* peer runs inside one (.gitignore lists the mirrors), and else fails.
FetchEnclosing(t) ==
  /\ At(t, "fetch")
  /\ mirrorDir[task[t].repo] = Empty
  /\ Goes(t, "bundle")
  /\ UNCHANGED <<commands, mirrorDir, unmirrored>>

\* No directory can be made, git cannot be run, clone finds the directory in
\* use, fetch or bundle fails, or the file cannot be read: the task ends.
MirrorFails(t) ==
  /\ task[t].step \in {"create", "clone", "fetch", "bundle"}
  /\ Ends(t)
  /\ UNCHANGED <<commands, mirrorDir, unmirrored>>

\* git bundle create --all, in the same directory.
BundleIn(repo) ==
  IF mirrorDir[repo] = Empty THEN [from |-> None, version |-> 0]
                               ELSE [from |-> repo, version |-> mirrorDir[repo]]

\* ... and its file read: git replaces the file at once, and a task that reads
\* what another one has just put there reads a later bundle of the same path.
BundleCreated(t) ==
  /\ At(t, "bundle")
  /\ task' = [task EXCEPT ![t].step = "send", ![t].bundle = BundleIn(task[t].repo)]
  /\ UNCHANGED <<commands, mirrorDir, unmirrored>>

BundleReady(t) ==
  /\ At(t, "send")
  /\ Send(Publish(task[t].repo, task[t].bundle))
  /\ Ends(t)
  /\ UNCHANGED <<mirrorDir, unmirrored>>

MirrorStep(t) ==
  \/ MirrorBegins(t) \/ DirCreated(t)
  \/ CloneBegins(t) \/ CloneSucceeds(t) \/ CloneFails(t)
  \/ FetchSucceeds(t) \/ FetchEnclosing(t)
  \/ BundleCreated(t) \/ BundleReady(t) \/ MirrorFails(t)

----------------------------------------------------------------------------
Handle ==
  \/ \E repo \in Repos, t \in Tasks : HandleMirror(repo, t)
  \/ \E repo \in Repos, b \in Bundles : HandlePublish(repo, b)
  \/ \E repo \in Repos : HandleRequest(repo)
  \/ HandleSync
  \/ \E id \in Rounds : HandleFinalize(id)

PeerNext ==
  \/ Handle
  \/ \E repo \in Repos : \/ UpstreamChanges(repo) \/ MirrorTick(repo)
                         \/ RelayRequest(repo) \/ GossipRequest(repo)
  \/ TimeTick
  \/ \E id \in Rounds : TimeResponse(id) \/ WindowEnds(id)
  \/ \E t \in Tasks : MirrorStep(t)

PeerSpec == PeerInit /\ [][PeerNext]_peerVars

(***************************************************************************)
(* tokio::select! serves the channel, the tasks of the runtime make        *)
(* progress, and a sender that waits for room gets it in its turn (the     *)
(* channel of tokio is fair), hence strong fairness for those that wait.   *)
(* The mirror timer keeps ticking, and git and the file system, tried      *)
(* again and again, succeed at some point.                                 *)
(***************************************************************************)
PeerFairness ==
  /\ WF_peerVars(Handle)
  /\ \A id \in Rounds : SF_peerVars(WindowEnds(id))
  /\ \A repo \in Repos : SF_peerVars(MirrorTick(repo))
  /\ \A t \in Tasks : WF_peerVars(MirrorStep(t)) /\ SF_peerVars(BundleReady(t))
  /\ SF_peerVars(\E t \in Tasks : FetchSucceeds(t))
  /\ SF_peerVars(\E t \in Tasks : BundleCreated(t))

FairPeerSpec == PeerSpec /\ PeerFairness

----------------------------------------------------------------------------
TaskStates ==
  [step : {"idle", "start", "create", "clone", "cloning", "fetch", "bundle", "send"},
   repo : Repos \cup {None}, bundle : Bundles \cup {None}]

\* The variables of run_node keep their types, and no round of network time
\* leaks: as long as its samples are kept, either its window is running or its
\* end is in the channel.
PeerTypeOK ==
  /\ commands \in Seq(Commands) /\ Len(commands) <= Capacity
  /\ bundleCache \in [Repos -> Bundles \cup {None}]
  /\ upstream \in [Repos -> 0 .. MaxVersion]
  /\ mirrorDir \in [Repos -> (0 .. MaxVersion) \cup {Absent, Empty}]
  /\ task \in [Tasks -> TaskStates]
  /\ pendingTime \in [Rounds -> (0 .. MaxSamples) \cup {None}]
  /\ windows \subseteq Rounds
  /\ timeRequestCounter \in 0 .. MaxRounds
  /\ consensus \in 0 .. MaxSamples
  /\ \A id \in Rounds : pendingTime[id] # None =>
       id \in windows \/ Finalize(id) \in ToSet(commands)

\* Every round is finalized, however full the channel.
EveryRoundEnds == \A id \in Rounds : pendingTime[id] # None ~> pendingTime[id] = None

(***************************************************************************)
(* While there is a clone of a repository, periodic mirroring brings the   *)
(* bundle that peers are served up to date again and again, although       *)
(* requests queued before put an older bundle back, tasks for one          *)
(* repository overlap from the first clone on, one of them may have        *)
(* bundled another repository, and fetches fail.  A directory whose clone  *)
(* failed for good is never filled again, and promises nothing.            *)
(***************************************************************************)
Cloned(repo) == mirrorDir[repo] \notin {Absent, Empty}

CacheRefreshed ==
  \A repo \in Repos :
     <>[]Cloned(repo) =>
       []<>(bundleCache[repo] = [from |-> repo, version |-> upstream[repo]])
=============================================================================
