------------------------------- MODULE MCHost -------------------------------
(***************************************************************************)
(* The parts of a NodeHost that run beside raft, each checked on its own   *)
(* instance: in a behaviour one of them moves, and the others rest in an   *)
(* initial state.                                                          *)
(***************************************************************************)
EXTENDS Requests, Engine, Lifecycle, Delivery, Quiesce, TLC

CONSTANTS p1, p2, r1, r2, c1, c2

SomeLoads == {l \cup {Ticks, Closes} : l \in {{p1}, {r1, r2}, {r1, Noop}, {c1, c2}}}
             \cup {{p1, p2, Ticks}, {p1, p2, Closes}, {r1, r2, Noop}, {p1, r1, c1}}
ShardMap == (p1 :> 1) @@ (p2 :> 2)

\* Proposals with messages that are late, reads with a node that dies.
SomeUses == {[request |-> "propose", deaths |-> 0, late |-> 1],
             [request |-> "read", deaths |-> 1, late |-> 0]}

VARIABLE part

Parts == {"requests", "engine", "lifecycle", "delivery", "quiesce"}

AnyOf(S) == CHOOSE x \in S : TRUE

HostInit ==
    /\ part \in Parts
    /\ RequestsInit /\ EngineInit /\ LifecycleInit /\ DeliveryInit /\ QuiesceInit
    /\ part # "requests" => load = AnyOf(Workloads)
    /\ part # "engine" => raft.committed = 0 /\ occasion = AnyOf(Occasions)
    /\ part # "quiesce" => use = AnyOf(Uses)

HostNext ==
    /\ UNCHANGED part
    /\ \/ /\ part = "requests" /\ RequestsNext
          /\ UNCHANGED <<engineVars, lifecycleVars, deliveryVars, quiesceVars>>
       \/ /\ part = "engine" /\ EngineNext
          /\ UNCHANGED <<requestsVars, lifecycleVars, deliveryVars, quiesceVars>>
       \/ /\ part = "lifecycle" /\ LifecycleNext
          /\ UNCHANGED <<requestsVars, engineVars, deliveryVars, quiesceVars>>
       \/ /\ part = "delivery" /\ DeliveryNext
          /\ UNCHANGED <<requestsVars, engineVars, lifecycleVars, quiesceVars>>
       \/ /\ part = "quiesce" /\ QuiesceNext
          /\ UNCHANGED <<requestsVars, engineVars, lifecycleVars, deliveryVars>>

hostVars == <<part, requestsVars, engineVars, lifecycleVars, deliveryVars, quiesceVars>>

\* A worker comes back to a node as long as it is loaded: tickWorkerMain sends
\* every node a LocalTick, which makes it ready, for ever.  A client's call
\* returns, and a close once begun goes on.
RequestsFairness ==
    /\ WF_requestsVars(part = "requests" /\ \E r \in Requests : Enqueue(r))
    /\ WF_requestsVars(part = "requests" /\ ~ closing /\ RequestsStep)
    /\ SF_requestsVars(part = "requests" /\ ~ closing /\ Messages(1))
    /\ WF_requestsVars(part = "requests" /\ ApplyNotify)
    /\ WF_requestsVars(part = "requests" /\ closing /\ Close)

\* Each worker of the engine is a thread that is woken by a channel or by its
\* ticker; it reloads its nodes on the ticker, and the monitor has one too.
EngineFairness ==
    /\ WF_engineVars(part = "engine" /\ EngineStep)
    /\ WF_engineVars(part = "engine" /\ EngineCommit)
    /\ WF_engineVars(part = "engine" /\ EngineSnapshot)

LifecycleFairness ==
    /\ \A w \in Workers : WF_lifecycleVars(part = "lifecycle" /\ WorkerStep(w))
    /\ WF_lifecycleVars(part = "lifecycle" /\ MonitorStep)

\* A thread that has put a message into the queue goes on; the worker is only
\* woken by its channel.
DeliveryFairness ==
    /\ \A t \in Senders : WF_deliveryVars(part = "delivery" /\ DeliverySteps(t))
    /\ WF_deliveryVars(part = "delivery" /\ DeliveryReads)
    /\ WF_deliveryVars(part = "delivery" /\ DeliveryPushes)

\* The clocks tick, messages arrive, raft elects a leader when it should, and
\* every node is asked again and again.
QuiesceFairness ==
    /\ WF_quiesceVars(part = "quiesce" /\ QuiesceTick)
    /\ WF_quiesceVars(part = "quiesce" /\ Campaigns)
    /\ WF_quiesceVars(part = "quiesce" /\ Receives)
    /\ \A n \in Nodes : WF_quiesceVars(part = "quiesce" /\ (ProposeAt(n) \/ ReadAt(n)))

HostSpec ==
    /\ HostInit /\ [][HostNext]_hostVars
    /\ RequestsFairness /\ EngineFairness /\ LifecycleFairness
    /\ DeliveryFairness /\ QuiesceFairness

=============================================================================
