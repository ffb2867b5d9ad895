------------------------------- MODULE Fleet -------------------------------
(***************************************************************************)
(* Drummer looking after one Raft cluster on a fleet of NodeHosts: what    *)
(* the hosts report, the image of the fleet the Drummer DB keeps, the      *)
(* scheduler that launches, restores and repairs the cluster from a copy   *)
(* of that image, and the hosts that carry out what they are asked         *)
(* (drummer/{db,clusterimage,nodehostimage,scheduler,filter,drummer}.go,   *)
(* drummer/client/nodehost.go).                                            *)
(*                                                                         *)
(* Instead of ticks there are ages, the number of ticks since a tick was   *)
(* recorded, up to the first age that counts as failed.  The managed       *)
(* cluster appears as the history of its membership: the n-th element of   *)
(* configs is the membership with ConfigChangeIndex n.  All hosts are in   *)
(* one region.  The Drummer DB is replicated by Raft: an update is a step. *)
(***************************************************************************)
EXTENDS Integers, Sequences, FiniteSets, SequencesExt, FiniteSetsExt

CONSTANTS
    Hosts,               \* NodeHost addresses, numbers here
    MaxLeaders,          \* bound: the Drummers that believe they are the leader
    ExpectedSize,         \* len(Members) of the cluster as it was defined
    nodeHostTTL,
    launchDeadlineTick,
    LaunchBudgets,       \* bounds on a behaviour that begins with the launch, and on
    RepairBudgets,       \* one that begins with a cluster that runs
    MaxAsked             \* bound: the requests a host has got and not handled

\* How many ticks and plans there are, how often a host goes down, and how many
\* new node ids the random source produces.
Budgets == [ticks : Nat, plans : Nat, downs : Nat, ids : Nat]

ASSUME FleetAssumption ==
    /\ Hosts \subseteq Nat /\ ExpectedSize \in 1 .. Cardinality(Hosts)
    /\ nodeHostTTL \in Nat \ {0} /\ launchDeadlineTick \in Nat
    /\ LaunchBudgets \subseteq Budgets /\ RepairBudgets \subseteq Budgets /\ MaxAsked \in Nat \ {0} /\ MaxLeaders \in Nat \ {0}

VARIABLES
    configs,      \* the memberships of the cluster, each NodeID -> address
    runs,      \* the node each host runs, 0 for none
    knows,        \* the config change index that node has applied, 0: pending
    infos,        \* the nodes each host has a bootstrap record of
    joined,       \* the nodes whose record says Join
    alive,        \* the hosts that are up
    asked,        \* drummerClient.req.requests
    image,        \* DB.ClusterImage: index and nodes
    specs,        \* DB.NodeHostImage
    nodesToKill,  \* DB.ClusterImage.NodesToKill
    requests,     \* DB.Requests
    launched,     \* the launched key is in DB.KVMap
    deadline,     \* ticks left until the launch has failed plus 1, 0: no deadline
    gaveUp,       \* DB.Failed
    budget,       \* what is left of the bounds
    plans         \* the requests Drummers have computed and not yet proposed

clusterVars == <<configs, runs, knows, infos, joined>>
hostVars == <<alive, asked>>
dbVars == <<image, specs, nodesToKill, requests, launched, deadline, gaveUp>>
fleetVars == <<clusterVars, hostVars, dbVars, plans, budget>>

Expired == nodeHostTTL + 1     \* EntityFailed
Waiting == -1                  \* Tick = 0: FirstObserved, never heard of
Older(age) == IF age = Waiting THEN Waiting ELSE Min({age + 1, Expired})

NoPlan == [h \in Hosts |-> <<>>]

Request(type, node, at, index) == [type |-> type, node |-> node, at |-> at, index |-> index]

Members == IF configs = <<>> THEN <<>> ELSE Last(configs)

\* Hosts that could be selected at random are interchangeable: the first ones.
Placed(suitable) == SubSeq(SetToSortSeq(suitable, <), 1, ExpectedSize)

On(at, h) == {n \in DOMAIN at : at[n] = h}

\* Before the launch, and with a cluster that has been launched and reported.
FleetInit ==
    /\ LET at == Placed(Hosts)
       IN  \/ /\ configs = <<>> /\ infos = [h \in Hosts |-> {}]
              /\ image = [index |-> 0, nodes |-> <<>>]
              /\ launched = FALSE /\ budget \in LaunchBudgets
           \/ /\ configs = <<at>> /\ infos = [h \in Hosts |-> On(at, h)]
              /\ image = [index |-> 1,
                          nodes |-> [n \in DOMAIN at |-> [address |-> at[n], age |-> 0]]]
              /\ launched = TRUE /\ budget \in RepairBudgets
    /\ runs = [h \in Hosts |-> IF infos[h] = {} THEN 0 ELSE Min(infos[h])]
    /\ knows = [h \in Hosts |-> IF infos[h] = {} THEN 0 ELSE 1]
    /\ specs = [h \in Hosts |-> [age |-> 0, has |-> infos[h] # {}, logs |-> infos[h]]]
    /\ joined = {} /\ alive = Hosts /\ asked = [h \in Hosts |-> <<>>]
    /\ nodesToKill = {} /\ requests = [h \in Hosts |-> <<>>]
    /\ deadline = 0 /\ gaveUp = FALSE
    /\ plans = <<>>

-----------------------------------------------------------------------------
(* The Drummer DB.                                                          *)

applyTickUpdate ==
    /\ ~gaveUp /\ budget.ticks > 0 /\ budget' = [budget EXCEPT !.ticks = @ - 1]
    /\ image' = [image EXCEPT !.nodes =
                    [n \in DOMAIN @ |-> [@[n] EXCEPT !.age = Older(@)]]]
    /\ specs' = [h \in Hosts |-> [specs[h] EXCEPT !.age = Older(@)]]
    /\ deadline' = Max({0, deadline - 1})
    /\ gaveUp' = (deadline = 1)
    /\ UNCHANGED <<clusterVars, hostVars, nodesToKill, requests, launched, plans>>

\* syncCluster, and getCluster when the image has no record yet.
syncCluster(img, index) ==
    IF img.index > index THEN img
    ELSE [index |-> index,
          nodes |-> [n \in DOMAIN configs[index] |->
                        IF n \in DOMAIN img.nodes THEN img.nodes[n]
                        ELSE [address |-> configs[index][n], age |-> Waiting]]]

killRequestRequired(img, report) ==
    /\ img.index > report.index
    /\ report.node \notin DOMAIN img.nodes

updateNodeTick(img, node) ==
    IF node \in DOMAIN img.nodes THEN [img EXCEPT !.nodes[node].age = 0] ELSE img

\* doUpdate: a pending or incomplete report only shows that the node is there.
Synced(img, report) ==
    IF report.index = 0 \/ report.incomplete THEN img ELSE syncCluster(img, report.index)

\* The hosts that are known to have the cluster: the ones that say so, and,
\* syncClusterInfo, the ones the image has a node on.
Knowing(h, report, img) ==
    [k \in Hosts |->
        [age |-> IF k = h THEN 0 ELSE specs[k].age,
         has |-> \/ IF k = h THEN report.node # 0 ELSE specs[k].has
                 \/ \E n \in DOMAIN img.nodes : img.nodes[n].address = k,
         logs |-> IF k = h THEN report.logs ELSE specs[k].logs]]

\* What SendNodeHostInfo reports: getClusterInfo, and whether the index list of
\* Drummer said that the membership is known.  That list may be older than the
\* image the report meets.
Report(h, incomplete) ==
    [node |-> runs[h], index |-> knows[h], incomplete |-> incomplete, logs |-> infos[h]]

\* The reply takes along what waited for the host.  It can be lost: what is
\* Outgoing is deleted by the next report.
applyNodeHostInfoUpdate(h, incomplete, lost) ==
    LET report == Report(h, incomplete)
        synced == Synced(image, report)
        img == updateNodeTick(synced, report.node)
        zombie == report.node # 0 /\ synced.index > 0 /\ killRequestRequired(synced, report)
    IN  /\ h \in alive /\ ~gaveUp
        /\ incomplete => knows[h] \in 1 .. image.index
        /\ lost => requests[h] # <<>>
        /\ Len(asked[h]) + Len(requests[h]) <= MaxAsked
        /\ image' = img
        /\ nodesToKill' = IF zombie THEN nodesToKill \cup {<<report.node, h>>} ELSE nodesToKill
        /\ specs' = Knowing(h, report, img)
        /\ requests' = [requests EXCEPT ![h] = <<>>]
        /\ asked' = IF lost THEN asked ELSE [asked EXCEPT ![h] = @ \o requests[h]]
        /\ deadline' = IF img.index > 0 /\ \A n \in DOMAIN img.nodes : img.nodes[n].age # Waiting
                       THEN 0 ELSE deadline
        /\ UNCHANGED <<clusterVars, alive, launched, gaveUp, plans, budget>>

isLaunch(plan) == \E h \in Hosts : \E i \in DOMAIN plan[h] : plan[h][i].type = "launch"

\* What waited for a host is replaced.
Replaced(plan) == [h \in Hosts |-> IF plan[h] = <<>> THEN requests[h] ELSE plan[h]]

\* Mutant of applyRequestsUpdate: the launched flag is not looked at.
MutAgain_applyRequestsUpdate(d) ==
    /\ ~gaveUp
    /\ requests' = Replaced(plans[d])
    /\ launched' = (launched \/ isLaunch(plans[d]))
    /\ deadline' = IF isLaunch(plans[d]) THEN launchDeadlineTick + 1 ELSE deadline
    /\ plans' = RemoveAt(plans, d)
    /\ UNCHANGED <<clusterVars, hostVars, image, specs, nodesToKill, gaveUp, budget>>

applyRequestsUpdate(d) ==
    LET plan == plans[d]
        ignored == launched /\ isLaunch(plan)
    IN  /\ ~gaveUp
        /\ requests' = IF ignored THEN requests ELSE Replaced(plan)
        /\ launched' = (launched \/ isLaunch(plan))
        /\ deadline' = IF isLaunch(plan) /\ ~ignored THEN launchDeadlineTick + 1 ELSE deadline
        /\ plans' = RemoveAt(plans, d)
        /\ UNCHANGED <<clusterVars, hostVars, image, specs, nodesToKill, gaveUp, budget>>

\* The proposal fails, the session is reset.
DropPlan(d) ==
    /\ plans' = RemoveAt(plans, d)
    /\ UNCHANGED <<clusterVars, hostVars, dbVars, budget>>

-----------------------------------------------------------------------------
(* The scheduler, on the context it has just read.                          *)

failedNodes == {n \in DOMAIN image.nodes : image.nodes[n].age = Expired}
nodesToStart == {n \in DOMAIN image.nodes : image.nodes[n].age = Waiting}
okNodes == DOMAIN image.nodes \ (failedNodes \cup nodesToStart)
Address(n) == image.nodes[n].address

available == Cardinality(okNodes) > Cardinality(DOMAIN image.nodes) \div 2

addRequired == failedNodes # {} /\ nodesToStart = {} /\ available
createRequired == nodesToStart # {}
\* Mutant of deleteRequired: at the expected size too.
MutEqual_deleteRequired ==
    /\ available /\ failedNodes # {}
    /\ Cardinality(failedNodes \cup okNodes) >= ExpectedSize
deleteRequired ==
    /\ available /\ failedNodes # {}
    /\ Cardinality(failedNodes \cup okNodes) > ExpectedSize
needToBeRestored == ~available /\ nodesToStart = {}

canBeRestored ==
    {n \in failedNodes : specs[Address(n)].age # Expired /\ n \in specs[Address(n)].logs}
readyToBeRestored ==
    Cardinality(okNodes \cup canBeRestored) > Cardinality(DOMAIN image.nodes) \div 2

\* liveFilter and basicFilter.
findSuitableNodeHost == {h \in Hosts : specs[h].age < nodeHostTTL /\ ~specs[h].has}

toRestore == IF needToBeRestored /\ ~readyToBeRestored THEN {} ELSE canBeRestored

\* A node id the random source has not produced before: the next one.
Fresh(n) ==
    /\ \A i \in DOMAIN configs : n \notin DOMAIN configs[i]
    /\ \A h \in Hosts :
           \A q \in {requests[h], asked[h]} \cup {plans[d][h] : d \in DOMAIN plans} :
               \A i \in DOMAIN q : q[i].node # n
newNodeID ==
    LET fresh == {n \in ExpectedSize + 1 .. ExpectedSize + budget.ids : Fresh(n)}
    IN  {n \in fresh : n = Min(fresh)}

Ask(h, req) == [NoPlan EXCEPT ![h] = <<req>>]

\* repairClusters: one change at a time; no result when there is no host.
Repairs ==
    IF toRestore # {} \/ (failedNodes = {} /\ nodesToStart = {}) THEN {NoPlan}
    ELSE IF deleteRequired
    THEN {Ask(Address(n), Request("delete", Min(failedNodes), "", image.index)) : n \in okNodes}
    ELSE IF createRequired
    THEN {Ask(Address(Min(nodesToStart)), Request("join", Min(nodesToStart), "", 0))}
    ELSE IF addRequired
    THEN {Ask(Address(n), Request("add", new, h, image.index)) :
             n \in okNodes, new \in newNodeID, h \in findSuitableNodeHost}
    ELSE {NoPlan}

Restores(h) ==
    LET here == {n \in toRestore : Address(n) = h}
    IN  IF here = {} THEN <<>> ELSE <<Request("restore", Min(here), "", 0)>>

killZombieNodes(h) ==
    LET here == {k[1] : k \in {k \in nodesToKill : k[2] = h}}
    IN  [i \in 1 .. Cardinality(here) |->
            Request("kill", SetToSortSeq(here, <)[i], "", 0)]

maintainClusters == {[h \in Hosts |-> Restores(h) \o r[h] \o killZombieNodes(h)] : r \in Repairs}

\* getLaunchRequests: every member on a host of its own.
launch ==
    LET at == Placed(findSuitableNodeHost)
    IN  IF Cardinality(findSuitableNodeHost) < ExpectedSize THEN {}
        ELSE {[h \in Hosts |-> IF On(at, h) = {} THEN <<>>
                               ELSE <<Request("launch", Min(On(at, h)), at, 0)>>]}

schedule ==
    /\ Len(plans) < MaxLeaders /\ ~gaveUp
    /\ budget.plans > 0 /\ budget' = [budget EXCEPT !.plans = @ - 1]
    /\ \E plan \in IF ~launched /\ image.index = 0 THEN launch ELSE maintainClusters :
           /\ plan # NoPlan
           /\ plans' = Append(plans, plan)
    /\ UNCHANGED <<clusterVars, hostVars, dbVars>>

-----------------------------------------------------------------------------
(* The hosts.                                                               *)

Handling(h, type) == h \in alive /\ asked[h] # <<>> /\ Head(asked[h]).type \in type
Handled(h) ==
    /\ asked' = [asked EXCEPT ![h] = Tail(@)]
    /\ UNCHANGED <<alive, dbVars, plans, budget>>

\* StartCluster fails when the host has the cluster, and when the record of an
\* initial member is asked to join.
Starts(h, req) ==
    /\ runs[h] = 0
    /\ req.type = "restore" => req.node \in infos[h]
    /\ req.type = "join" => (req.node \in infos[h] => req.node \in joined)

handleInstantiateRequest(h) ==
    LET req == Head(asked[h])
    IN  /\ Handling(h, {"launch", "join", "restore"})
        /\ Handled(h)
        /\ IF Starts(h, req)
           THEN /\ runs' = [runs EXCEPT ![h] = req.node]
                /\ knows' = [knows EXCEPT ![h] = 0]
                /\ infos' = [infos EXCEPT ![h] = @ \cup {req.node}]
                /\ joined' = IF req.type = "join" THEN joined \cup {req.node} ELSE joined
                /\ configs' = IF req.type = "launch" /\ configs = <<>> THEN <<req.at>> ELSE configs
           ELSE UNCHANGED clusterVars

\* A majority of the members is there to commit a change.
Quorate ==
    2 * Cardinality({n \in DOMAIN Members :
                        Members[n] \in alive /\ runs[Members[n]] = n}) > Cardinality(DOMAIN Members)

\* The membership as handleConfigChange of the Raft cluster leaves it: ordered
\* config changes, no address twice, no node a second time.
Accepted(req) ==
    /\ req.index = Len(configs)
    /\ req.type = "add" => /\ req.at \notin Range(Members)
                           /\ \A i \in DOMAIN configs : req.node \notin DOMAIN configs[i]
Changed(req) ==
    IF req.type = "add" THEN [n \in DOMAIN Members \cup {req.node} |->
                                 IF n = req.node THEN req.at ELSE Members[n]]
    ELSE [n \in DOMAIN Members \ {req.node} |-> Members[n]]

handleAddDeleteRequest(h, committed) ==
    LET req == Head(asked[h])
    IN  /\ Handling(h, {"add", "delete"})
        /\ committed => runs[h] # 0 /\ Quorate /\ Accepted(req)
        /\ Handled(h)
        /\ configs' = IF committed THEN Append(configs, Changed(req)) ELSE configs
        /\ UNCHANGED <<runs, knows, infos, joined>>

handleKillRequest(h) ==
    /\ Handling(h, {"kill"})
    /\ Handled(h)
    /\ runs' = [runs EXCEPT ![h] = IF @ = Head(asked[h]).node THEN 0 ELSE @]
    /\ UNCHANGED <<configs, knows, infos, joined>>

\* The node applies a config change or a snapshot, and stops when it reads that
\* it is removed.
Learn(h, index) ==
    LET removed == /\ runs[h] \notin DOMAIN configs[index]
                   /\ \E i \in 1 .. index : runs[h] \in DOMAIN configs[i]
    IN  /\ runs[h] # 0 /\ h \in alive /\ index > knows[h]
        /\ knows' = [knows EXCEPT ![h] = index]
        /\ runs' = IF removed THEN [runs EXCEPT ![h] = 0] ELSE runs
        /\ UNCHANGED <<configs, infos, joined, hostVars, dbVars, plans, budget>>

GoDown(h) ==
    /\ h \in alive /\ alive' = alive \ {h}
    /\ budget.downs > 0 /\ budget' = [budget EXCEPT !.downs = @ - 1]
    /\ runs' = [runs EXCEPT ![h] = 0] /\ knows' = [knows EXCEPT ![h] = 0]
    /\ asked' = [asked EXCEPT ![h] = <<>>]
    /\ UNCHANGED <<configs, infos, joined, dbVars, plans>>

ComeUp(h) ==
    /\ h \notin alive /\ alive' = alive \cup {h}
    /\ UNCHANGED <<clusterVars, asked, dbVars, plans, budget>>

FleetNext ==
    \/ applyTickUpdate
    \/ schedule
    \/ \E d \in DOMAIN plans : applyRequestsUpdate(d) \/ DropPlan(d)
    \/ \E h \in Hosts :
           \/ \E incomplete, lost \in BOOLEAN : applyNodeHostInfoUpdate(h, incomplete, lost)
           \/ \E committed \in BOOLEAN : handleAddDeleteRequest(h, committed)
           \/ handleInstantiateRequest(h) \/ handleKillRequest(h)
           \/ \E i \in DOMAIN configs : Learn(h, i)
           \/ GoDown(h) \/ ComeUp(h)

-----------------------------------------------------------------------------
(* Properties.                                                              *)

\* The image in the DB is a membership the cluster has had, under its own index:
\* syncCluster's panics (same index with other nodes, a changed or a duplicated
\* address) are out of reach, in whatever order reports arrive.
ImageIsTrue ==
    /\ image.index > 0 =>
           configs[image.index] = [n \in DOMAIN image.nodes |-> image.nodes[n].address]
    /\ IsInjective(Members)

\* Whatever the scheduler decides from a context that is old by now, and however
\* many Drummers decide, repairs never leave the cluster with fewer members than
\* it was defined with, or with more than one extra (repairClusters).
SizeIsKept ==
    configs # <<>> => Cardinality(DOMAIN Members) \in ExpectedSize .. ExpectedSize + 1

\* A node that is to be killed is no member and will not become one again
\* (killRequestRequired; "zombie" in the comment of killZombieNodes).
KillsOnlyZombies ==
    /\ \A k \in nodesToKill : k[1] \notin DOMAIN Members
    /\ \A h \in Hosts : \A i \in DOMAIN asked[h] :
           asked[h][i].type = "kill" => asked[h][i].node \notin DOMAIN Members

\* A host is never asked to launch a node it has a record of: the panic of
\* handleInstantiateRequest is out of reach, with two Drummers launching too.
LaunchedOnce ==
    \A h \in Hosts :
        Handling(h, {"launch"}) => Head(asked[h]).node \notin infos[h]

\* Repairs are sound: the DB knows the truth, the cluster keeps its size, and
\* only nodes that have left are killed.
RepairsAreSafe == ImageIsTrue /\ SizeIsKept /\ KillsOnlyZombies

=============================================================================
