------------------------------ MODULE MCStore ------------------------------
(***************************************************************************)
(* What a NodeHost keeps and sends, and what Drummer makes of a fleet of   *)
(* them, each part checked on its own instance: in a behaviour one part    *)
(* moves, and the others rest in an initial state.                         *)
(***************************************************************************)
EXTENDS RaftMessages, DrummerMessages, Sessions, Codec, LogDB, SnapshotStore, SnapshotLane, MessageLane, Fleet

AllTables == RaftTables @@ DrummerTables

\* A file that ends with a chunk, two files, and a file of one chunk.
SomeFiles == <<<<4>>, <<3, 2>>, <<2>>>>

\* The third message does not fit with the two before it, the fourth fits nowhere else.
SomeTraffic == <<1, 2, 1, 3, 1>>

Budget(ticks, planned, downs, ids) ==
    [ticks |-> ticks, plans |-> planned, downs |-> downs, ids |-> ids]

\* A launch that may fail, and one that two Drummers ask for.
Launches == {Budget(1, 1, 0, 0), Budget(0, 2, 0, 0)}

\* A repair up to the death of the zombie, and two repairs with a host that fails.
RepairWork == {Budget(2, 4, 0, 1), Budget(1, 2, 1, 2)}

\* One client proposes; the other takes its place in the session store.
Series == <<2, 0>>

VARIABLE part

Parts == {"sessions", "codec", "logdb", "snapshots", "images", "messages", "fleet"}

AnyOf(S) == CHOOSE x \in S : TRUE

PartsInit ==
    /\ part \in Parts
    /\ part # "codec" => name = "State" /\ message = ZeroOf("State") /\ extra = <<>>
    /\ part # "fleet" => budget = AnyOf(LaunchBudgets)
    /\ SessionsInit
    /\ part # "sessions" => replica[Here].size = AnyOf(Capacities)
    /\ LogDBInit /\ StoreInit /\ LaneInit /\ MessageLaneInit /\ FleetInit /\ CodecInit

otherVars == <<sessionsVars, logdbVars, storeVars, laneVars, messageLaneVars>>

PartsNext ==
    /\ UNCHANGED part
    /\ \/ /\ part = "sessions" /\ SessionsNext
          /\ UNCHANGED <<codecVars, logdbVars, storeVars, laneVars, messageLaneVars, fleetVars>>
       \/ /\ part = "codec" /\ CodecNext
          /\ UNCHANGED <<otherVars, fleetVars>>
       \/ /\ part = "logdb" /\ LogDBNext
          /\ UNCHANGED <<sessionsVars, codecVars, storeVars, laneVars, messageLaneVars, fleetVars>>
       \/ /\ part = "snapshots" /\ StoreNext
          /\ UNCHANGED <<sessionsVars, codecVars, logdbVars, laneVars, messageLaneVars, fleetVars>>
       \/ /\ part = "images" /\ LaneNext
          /\ UNCHANGED <<sessionsVars, codecVars, logdbVars, storeVars, messageLaneVars, fleetVars>>
       \/ /\ part = "messages" /\ MessageLaneNext
          /\ UNCHANGED <<sessionsVars, codecVars, logdbVars, storeVars, laneVars, fleetVars>>
       \/ /\ part = "fleet" /\ FleetNext
          /\ UNCHANGED <<otherVars, codecVars>>

partsVars == <<part, otherVars, codecVars, fleetVars>>

PartsSpec == PartsInit /\ [][PartsNext]_partsVars

=============================================================================
