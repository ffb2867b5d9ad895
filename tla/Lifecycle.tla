----------------------------- MODULE Lifecycle ------------------------------
(***************************************************************************)
(* The life of a raft node in a NodeHost: StartCluster and StopCluster, a  *)
(* node that asks for its own removal, the workers of the execution engine *)
(* that keep their own maps of nodes and refresh them when the set of      *)
(* clusters has changed, and OffloadedStatus, which tells when the user's  *)
(* state machine may be closed (nodehost.go, execengine.go,                *)
(* internal/rsm/managedstatemachine.go).                                   *)
(*                                                                         *)
(* A cluster may be started again after it was stopped: each start is a    *)
(* new incarnation, a number, of the node.  Of raft only the vote of one   *)
(* term is kept, in memory and in the logdb.                               *)
(***************************************************************************)
EXTENDS Integers, FiniteSets

CONSTANTS Clusters, Candidates, MaxStarts,
          Workers \* the kinds of worker: "step", "commit" and "snapshot" load
                  \* and let go of nodes alike

ASSUME LifecycleAssumption == MaxStarts \in Nat /\ "nodehost" \notin Workers

Incarnations == 1 .. MaxStarts
NoNode == 0
NoVote == "no vote"

VARIABLES nodehost, \* clusters: the node of each
          started,  \* incarnations so far
          worker,   \* of each: its nodes; stale: its cci is not the csi
          status,   \* the OffloadedStatus of each incarnation; stopc: asked to stop
          monitor,  \* the cluster closeStoppedClusters has found to be stopped, if any
          vote,     \* of each incarnation
          logdb,    \* the saved vote of each cluster's node
          votes     \* the votes sent, of the node of each cluster

lifecycleVars == <<nodehost, started, worker, status, monitor, vote, logdb, votes>>

NewStatus == [loaded |-> {}, offloaded |-> {}, destroyed |-> FALSE, stopc |-> FALSE]
\* reading: a worker has read the csi and not yet the map; changed: the csi
\* has changed since.
NothingLoaded == [nodes |-> [c \in Clusters |-> NoNode], stale |-> FALSE,
         reading |-> FALSE, changed |-> FALSE]

LifecycleInit ==
    /\ nodehost = [clusters |-> [c \in Clusters |-> NoNode], stopped |-> FALSE,
                   engineStopped |-> FALSE]
    /\ started = 0
    /\ worker = [w \in Workers |-> NothingLoaded]
    /\ status = [i \in Incarnations |-> NewStatus]
    /\ monitor = {}
    /\ vote = [i \in Incarnations |-> NoVote]
    /\ logdb = [c \in Clusters |-> NoVote]
    /\ votes = [c \in Clusters |-> {}]

-----------------------------------------------------------------------------
(* OffloadedStatus.                                                         *)

\* Mutant of SetOffloaded: a worker that never loaded the node is waited for.
MutWaits_SetOffloaded(s, from) ==
    LET off == s.offloaded \cup {from}
    IN  [s EXCEPT !.offloaded = off, !.destroyed = @ \/ off = Workers \cup {"nodehost"}]

\* Mutant of SetOffloaded: the first worker to let go closes the state machine.
MutFirst_SetOffloaded(s, from) ==
    LET off == s.offloaded \cup {from}
    IN  [s EXCEPT !.offloaded = off,
                  !.destroyed = @ \/ ("nodehost" \in off /\ off \cap Workers # {})]

\* SetOffloaded and Offloaded: when the NodeHost lets go of a node, the
\* workers that have not loaded it never will.
SetOffloaded(s, from) ==
    LET unloaded == IF from = "nodehost" THEN Workers \ s.loaded ELSE {}
        off == s.offloaded \cup {from} \cup unloaded
    IN  [s EXCEPT !.offloaded = off, !.destroyed = @ \/ off = Workers \cup {"nodehost"}]

SetLoaded(s, from) == [s EXCEPT !.loaded = @ \cup {from}]

-----------------------------------------------------------------------------
(* The NodeHost.                                                            *)

\* clusterMu.csi++: the cci of no worker is the csi any more.
NextClusterSetIndex ==
    worker' = [w \in Workers |->
                  [worker[w] EXCEPT !.stale = TRUE, !.changed = worker[w].reading]]

\* startCluster, under clusterMu; newNode replays the log.
StartCluster(c) ==
    /\ ~nodehost.stopped /\ nodehost.clusters[c] = NoNode /\ started < MaxStarts
    /\ started' = started + 1
    /\ nodehost' = [nodehost EXCEPT !.clusters[c] = started']
    /\ NextClusterSetIndex
    /\ vote' = [vote EXCEPT ![started'] = logdb[c]]
    /\ UNCHANGED <<status, monitor, logdb, votes>>

\* stopNode, under clusterMu.
StopNode(c) ==
    LET i == nodehost.clusters[c]
    IN  IF i = NoNode THEN UNCHANGED <<nodehost, worker, status>>
        ELSE /\ nodehost' = [nodehost EXCEPT !.clusters[c] = NoNode]
             /\ NextClusterSetIndex
             /\ status' = [status EXCEPT ![i] =
                              SetOffloaded([@ EXCEPT !.stopc = TRUE], "nodehost")]

StopCluster(c) ==
    /\ nodehost.clusters[c] # NoNode
    /\ StopNode(c)
    /\ UNCHANGED <<started, monitor, vote, logdb, votes>>

\* requestRemoval, by a node that has applied its own removal.
RequestRemoval(c) ==
    LET i == nodehost.clusters[c]
    IN  /\ i # NoNode /\ ~status[i].stopc
        /\ worker["commit"].nodes[c] = i
        /\ status' = [status EXCEPT ![i].stopc = TRUE]
        /\ UNCHANGED <<nodehost, started, worker, monitor, vote, logdb, votes>>

\* closeStoppedClusters looks for a closed stopc under clusterMu, and stops
\* the node, then by its ids, after it has released it.
FindStopped(c) ==
    /\ monitor = {} /\ ~nodehost.stopped
    /\ nodehost.clusters[c] # NoNode /\ status[nodehost.clusters[c]].stopc
    /\ monitor' = {c}
    /\ UNCHANGED <<nodehost, started, worker, status, vote, logdb, votes>>

StopFound ==
    /\ \E c \in monitor : StopNode(c)
    /\ monitor' = {}
    /\ UNCHANGED <<started, vote, logdb, votes>>

\* NodeHost.Stop: no more starts, then every node is stopped (StopCluster),
\* then the engine.
StopNodeHost ==
    /\ \/ /\ ~nodehost.stopped
          /\ nodehost' = [nodehost EXCEPT !.stopped = TRUE]
       \/ /\ nodehost.stopped /\ ~nodehost.engineStopped
          /\ monitor = {}
          /\ \A c \in Clusters : nodehost.clusters[c] = NoNode
          /\ nodehost' = [nodehost EXCEPT !.engineStopped = TRUE]
    /\ UNCHANGED <<started, worker, status, monitor, vote, logdb, votes>>

-----------------------------------------------------------------------------
(* The workers.                                                             *)

\* loadBucketNodes reads the csi first ...
ReadClusterSetIndex(w) ==
    /\ ~nodehost.engineStopped /\ ~worker[w].reading
    /\ worker[w].stale
    /\ worker' = [worker EXCEPT ![w].reading = TRUE]
    /\ UNCHANGED <<nodehost, started, status, monitor, vote, logdb, votes>>

\* The nodes a worker drops when it loads new ones in their place: a cluster
\* that is there again, as a new incarnation, counts as still loaded.
LetGo(old, new) == {old[c] : c \in {d \in Clusters : new[d] = NoNode}}

Offloads(st, w, nodes) ==
    [i \in Incarnations |-> IF i \in nodes THEN SetOffloaded(st[i], w) ELSE st[i]]

\* ... and walks over the clusters under clusterMu later.
LoadNodes(w) ==
    /\ worker[w].reading
    /\ LET new == nodehost.clusters
           loaded == {new[c] : c \in Clusters}
       IN  /\ status' = Offloads([i \in Incarnations |-> IF i \in loaded
                                     THEN SetLoaded(status[i], w) ELSE status[i]],
                                 w, LetGo(worker[w].nodes, new))
           /\ worker' = [worker EXCEPT ![w] =
                            [NothingLoaded EXCEPT !.nodes = new, !.stale = worker[w].changed]]
    /\ UNCHANGED <<nodehost, started, monitor, vote, logdb, votes>>

\* offloadNodeMap, when the worker is told to stop.
ExitWorker(w) ==
    /\ nodehost.engineStopped
    /\ \E c \in Clusters : worker[w].nodes[c] # NoNode
    /\ status' = Offloads(status, w, {worker[w].nodes[c] : c \in Clusters})
    /\ worker' = [worker EXCEPT ![w] = NothingLoaded]
    /\ UNCHANGED <<nodehost, started, monitor, vote, logdb, votes>>

\* The step worker steps a node with a vote request in its queue and saves
\* the vote; stepNode does not ask whether the node has been stopped.
StepVote(c, candidate) ==
    LET i == worker["step"].nodes[c]
    IN  /\ i # NoNode /\ vote[i] = NoVote
        /\ ~worker["step"].reading
        /\ vote' = [vote EXCEPT ![i] = candidate]
        /\ logdb' = [logdb EXCEPT ![c] = candidate]
        /\ votes' = [votes EXCEPT ![c] = @ \cup {candidate}]
        /\ UNCHANGED <<nodehost, started, worker, status, monitor>>

WorkerStep(w) == ReadClusterSetIndex(w) \/ LoadNodes(w) \/ ExitWorker(w)
MonitorStep == StopFound \/ \E c \in Clusters : FindStopped(c)

LifecycleNext ==
    \/ \E c \in Clusters : StartCluster(c) \/ StopCluster(c) \/ RequestRemoval(c)
    \/ StopNodeHost \/ MonitorStep
    \/ \E w \in Workers : WorkerStep(w)
    \/ \E c \in Clusters, v \in Candidates : StepVote(c, v)

LifecycleSpec == LifecycleInit /\ [][LifecycleNext]_lifecycleVars

-----------------------------------------------------------------------------
(* Properties.                                                              *)

LifecycleTypeOK ==
    /\ nodehost.clusters \in [Clusters -> {NoNode} \cup Incarnations]
    /\ \A w \in Workers : worker[w].nodes \in [Clusters -> {NoNode} \cup Incarnations]
    /\ \A w \in Workers : worker[w].changed => worker[w].reading
    /\ \A i \in Incarnations : status[i].loaded \subseteq Workers

\* The user's state machine is closed only when the NodeHost and all the
\* workers have let go of the node (OffloadedStatus), so that none of them
\* ever calls a closed one.
ClosedOnlyWhenUnused ==
    \A i \in Incarnations : status[i].destroyed =>
        \A c \in Clusters : nodehost.clusters[c] # i /\ \A w \in Workers : worker[w].nodes[c] # i

\* A node in the NodeHost's map has not been offloaded from it: SetLoaded,
\* which panics for one that has, is only called on nodes of that map.
LoadedWhileListed ==
    \A c \in Clusters : nodehost.clusters[c] # NoNode =>
        "nodehost" \notin status[nodehost.clusters[c]].offloaded

\* No state machine is closed under its users, or used before it is theirs.
LifecycleSafe == LifecycleTypeOK /\ ClosedOnlyWhenUnused /\ LoadedWhileListed

\* A worker holds i no more but has not said so: it loaded a newer
\* incarnation of the same cluster in its place.
Replaced(i) ==
    \E w \in status[i].loaded \ status[i].offloaded :
        \A c \in Clusters : worker[w].nodes[c] # i

\* A node that asked for its removal is taken out, and the state machine of
\* a stopped node is closed in the end, unless the cluster was started again
\* before a worker looked: loadBucketNodes compares cluster ids only.
ClosedInTheEnd ==
    <>[](\A i \in Incarnations :
            status[i].stopc => status[i].destroyed \/ Replaced(i) \/ nodehost.stopped)

\* The node of a cluster votes for at most one candidate of the term, over
\* all of its incarnations: StopCluster "removes and stops the Raft node",
\* and StartCluster may restart "a crashed or stopped node".
OneVote == \A c \in Clusters : Cardinality(votes[c]) <= 1

=============================================================================
