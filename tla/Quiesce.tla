------------------------------ MODULE Quiesce -------------------------------
(***************************************************************************)
(* Quiesce: the nodes of an idle cluster stop their clocks and exchange no *)
(* heartbeats until there is work again (quiesce.go, and its use in        *)
(* node.go).  Each node has its quiesceManager.  Of raft, which is         *)
(* external, the leader's heartbeats, the forwarding of requests, the      *)
(* replication of a proposal and the election of a new leader are kept.    *)
(*                                                                         *)
(* All clocks tick together; a message may take any number of ticks.  The  *)
(* times of a quiesceManager are kept as ages, capped where they no longer *)
(* matter.                                                                 *)
(***************************************************************************)
EXTENDS Integers, FiniteSets

CONSTANTS Nodes,
          ElectionTick,    \* of the quiesceManager
          Threshold,       \* quiesceThreshold
          ElectionTimeout, \* ticks after which raft campaigns
          Uses             \* of each behaviour: the request made in it, how many
                           \* deaths it has, and how often messages take more
                           \* than a tick (late)

VARIABLES q,        \* the quiesceManagers
          leader,   \* the leader
          timer,    \* raft's electionTick of each node
          network,  \* messages on their way
          alive,
          late,     \* ticks that have passed while messages were on their way
          use,      \* of the Uses
          busy      \* do the clients still make requests?

quiesceVars == <<q, leader, timer, network, alive, late, use, busy>>

Cap(n, max) == IF n > max THEN max ELSE n

\* quiesced, noActivitySince, quiescedSince and exitQuiesceTick; exited matters
\* only of a node that is awake.
Awake == [quiesced |-> FALSE, idle |-> 0, since |-> 0, exited |-> 0]

QuiesceInit ==
    /\ q = [n \in Nodes |-> Awake]
    /\ leader = CHOOSE n \in Nodes : TRUE
    /\ timer = [n \in Nodes |-> 0]
    /\ network = {}
    /\ alive = Nodes
    /\ late = 0
    /\ use \in Uses
    /\ busy = TRUE

Message(type, from, to) == [type |-> type, from |-> from, to |-> to]
ToOthers(type, n) == {Message(type, n, m) : m \in Nodes \ {n}}

-----------------------------------------------------------------------------
(* quiesceManager.                                                          *)

enterQuiesce(m) == [m EXCEPT !.quiesced = TRUE, !.since = 0, !.idle = 0, !.exited = 0]
exitQuiesce(m) == [m EXCEPT !.quiesced = FALSE, !.since = 0, !.exited = 0]

newToQuiesce(m) == m.quiesced /\ m.since < ElectionTick
justExitedQuiesce(m) == ~m.quiesced /\ m.exited < Threshold

\* Mutant of Ignored: a heartbeat counts as activity.
MutNone_Ignored(m, type) == FALSE

\* Mutant of Ignored: a quiesced node takes no notice of messages.
MutAsleep_Ignored(m, type) == m.quiesced \/ type \in {"heartbeat", "heartbeatresp"}

\* Heartbeats neither keep a node awake nor, when they are late, wake it.
Ignored(m, type) ==
    type \in {"heartbeat", "heartbeatresp"} /\ (~m.quiesced \/ newToQuiesce(m))

recordActivity(m, type) ==
    IF Ignored(m, type) THEN m
    ELSE LET r == [m EXCEPT !.idle = 0] IN IF m.quiesced THEN exitQuiesce(r) ELSE r

tryEnterQuiesce(m) ==
    IF justExitedQuiesce(m) \/ m.quiesced THEN m ELSE enterQuiesce(m)

\* increaseQuiesceTick.
Aged(m) ==
    IF m.quiesced THEN [m EXCEPT !.since = Cap(@ + 1, ElectionTick)]
    ELSE LET a == [m EXCEPT !.idle = @ + 1, !.exited = Cap(@ + 1, Threshold)]
         IN  IF a.idle > Threshold THEN enterQuiesce(a) ELSE a

\* sendEnterQuiesceMessages, by the nodes that have just entered.
Entered(new) ==
    UNION {ToOthers("quiesce", n) : n \in {m \in Nodes : new[m].quiesced /\ ~q[m].quiesced}}

Heard(messages) == {m \in messages : m.to \in alive}

-----------------------------------------------------------------------------

\* node.tick of every node.  A quiesced node only counts.
QuiesceTick ==
    LET new == [n \in Nodes |-> IF n \in alive THEN Aged(q[n]) ELSE q[n]]
        beats == IF leader \in alive /\ ~new[leader].quiesced
                 THEN ToOthers("heartbeat", leader) ELSE {}
    IN  /\ \A n \in alive \ {leader} : ~q[n].quiesced => timer[n] < ElectionTimeout
        /\ late' = IF network = {} THEN late ELSE late + 1
        /\ late' <= use.late
        /\ q' = new
        /\ timer' = [n \in Nodes |-> Cap(timer[n] + 1, ElectionTimeout)]
        /\ network' = network \cup Heard(Entered(new) \cup beats)
        /\ UNCHANGED <<leader, alive, use, busy>>

\* A follower that is awake and has not heard from its leader campaigns.  Raft
\* is external: the campaign succeeds, and its messages are activity everywhere.
Campaign(n) ==
    /\ n \in alive \ {leader} /\ ~q[n].quiesced /\ timer[n] = ElectionTimeout
    /\ Cardinality(alive) * 2 > Cardinality(Nodes)
    /\ leader' = n
    /\ q' = [m \in Nodes |-> IF m \in alive THEN recordActivity(q[m], "vote") ELSE q[m]]
    /\ timer' = [m \in Nodes |-> 0]
    /\ network' = network \cup Heard(ToOthers("replicate", n))
    /\ UNCHANGED <<alive, late, use, busy>>

\* What raft sends when it handles a message.
Answer(m) ==
    CASE m.type = "heartbeat" -> {Message("heartbeatresp", m.to, m.from)}
      [] m.type = "replicate" -> {Message("replicateresp", m.to, m.from)}
      [] m.type = "propose" /\ m.to = leader -> ToOthers("replicate", m.to)
      [] OTHER -> {}

\* handleReceivedMessages.
ReceiveMessage(m) ==
    LET new == [q EXCEPT ![m.to] = IF m.type = "quiesce" THEN tryEnterQuiesce(@)
                                   ELSE recordActivity(@, m.type)]
    IN  /\ m \in network
        /\ q' = new
        /\ timer' = IF m.type \in {"heartbeat", "replicate"} /\ m.from = leader
                    THEN [timer EXCEPT ![m.to] = 0] ELSE timer
        /\ network' = (network \ {m}) \cup Heard(Entered(new) \cup Answer(m))
        /\ UNCHANGED <<leader, alive, late, use, busy>>

\* handleProposals does not record activity: the leader replicates, another
\* node forwards the proposal to the leader.  A bound: requests are made one at
\* a time, when the messages of the last one have arrived.
ProposeAt(n) ==
    /\ busy /\ use.request = "propose" /\ n \in alive /\ network = {}
    /\ network' = Heard(IF n = leader THEN ToOthers("replicate", n)
                                     ELSE {Message("propose", n, leader)})
    /\ UNCHANGED <<q, leader, timer, alive, late, use, busy>>

\* handleReadIndexRequests; the leader confirms a read with heartbeats that
\* carry a hint, which counts as a read.
ReadAt(n) ==
    /\ busy /\ use.request = "read" /\ n \in alive /\ network = {}
    /\ q' = [q EXCEPT ![n] = recordActivity(@, "read")]
    /\ network' = Heard(IF n = leader THEN ToOthers("read", n)
                                     ELSE {Message("read", n, leader)})
    /\ UNCHANGED <<leader, timer, alive, late, use, busy>>

Die(n) ==
    /\ n \in alive /\ Cardinality(Nodes \ alive) < use.deaths
    /\ alive' = alive \ {n}
    /\ network' = {m \in network : m.to # n}
    /\ UNCHANGED <<q, leader, timer, late, use, busy>>

StopAsking ==
    /\ busy
    /\ busy' = FALSE
    /\ UNCHANGED <<q, leader, timer, network, alive, late, use>>

Campaigns == \E n \in Nodes : Campaign(n)
Receives == \E m \in network : ReceiveMessage(m)
Requested == \E n \in Nodes : ProposeAt(n) \/ ReadAt(n)

QuiesceNext ==
    \/ QuiesceTick \/ Campaigns \/ Receives \/ Requested \/ StopAsking
    \/ \E n \in Nodes : Die(n)

\* Proposals are made, and one node dies.
DyingLeader == {[request |-> "propose", deaths |-> 1, late |-> 0]}

\* A cluster in use, whose leader may die, and whose clients do not give up.
\* The clocks tick, messages arrive, raft elects a leader when it should, and
\* every node is asked again and again.
QuiesceSpec ==
    /\ QuiesceInit /\ [][QuiesceNext]_quiesceVars
    /\ WF_quiesceVars(QuiesceTick) /\ WF_quiesceVars(Campaigns) /\ WF_quiesceVars(Receives)
    /\ \A n \in Nodes : WF_quiesceVars(ProposeAt(n) \/ ReadAt(n))

-----------------------------------------------------------------------------
(* Properties.                                                              *)

\* Once the clients have stopped and messages arrive in time, all the nodes
\* come to rest, although they enter quiesce at different ticks and late
\* messages wake some of them.
EverybodyRests == <>[](busy \/ \A n \in alive : q[n].quiesced)

\* A cluster that is used is awake again and again, under a leader that is
\* alive: "let the Raft cluster enter quiesce mode when there is no cluster
\* activity" (config.go).
UsedClusterIsAwake == []<>(~busy \/ (leader \in alive /\ ~q[leader].quiesced))

=============================================================================
