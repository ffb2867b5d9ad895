-------------------------------- MODULE Raft --------------------------------
(***************************************************************************)
(* A raft group: the protocol core of every member (RaftCore), what each   *)
(* has on disk, the messages in flight, and the step engine's discipline   *)
(* for releasing messages (execengine.go, node.go).  An iteration of the   *)
(* engine handles an event, hands committed entries to the state machine,  *)
(* sends Replicate messages, saves the node's state and only then sends    *)
(* everything else.  Nothing else looks at the node in between, so an      *)
(* iteration is one step, with two outcomes: it completes, or the process  *)
(* dies before the save.  A node may also crash between iterations; it     *)
(* restarts from its disk.                                                 *)
(*                                                                         *)
(* A message in net may be delivered late, again, in any order, or never,  *)
(* except that a forwarded read request is delivered at most once: the     *)
(* protocol counts on requests being unique, and the transport never sends *)
(* a message twice.                                                        *)
(*                                                                         *)
(* Setups[s] is a group to start and what may happen to it:                *)
(*   disk                what each node finds when it starts               *)
(*   observers           the nodes started with config.IsObserver          *)
(*   checkQuorum, snapshotEntries, compactionOverhead   the configuration  *)
(*   proposals, reads, transfers   what clients ask for                    *)
(*   events              the optional local events "heartbeat", "timeout", *)
(*                       "unreachable", and the types of the messages that *)
(*                       are not all lost                                  *)
(*   links               the <<a, b>> whose messages are not all lost      *)
(*   campaigns           the <<n, t>> for which node n's election timer    *)
(*                       may fire and take it to term t                    *)
(*   maxLog              no proposal at a log of this length               *)
(*   maxCrash, crashing  how many crashes, and of which nodes              *)
(***************************************************************************)
EXTENDS RaftCore

CONSTANT Setups

VARIABLES peer,     \* peer[n]: the volatile state of node n
          disk,     \* disk[n]: what n finds when it restarts
          net,      \* messages sent so far
          decided,  \* the longest log prefix handed to any state machine
          reads,    \* reads[ctx]: the client's side of a read request
          crashes,  \* number of crashes so far
          setup     \* which group this is, and its fortune

vars == <<peer, disk, net, decided, reads, crashes, setup>>

Env == Setups[setup]

\* newRaft and LaunchPeer on what a disk holds.
StartPeer(n, d) ==
    LET observer == n \in Env.observers /\ n \notin d.snapshot.members.voters
        p == [term |-> d.term, vote |-> d.vote,
              role |-> IF observer THEN "observer" ELSE "follower",
              leader |-> None, granted |-> {}, rejected |-> {},
              log |-> d.log, marker |-> d.snapshot.index,
              committed |-> d.committed, applied |-> d.snapshot.index,
              snapshot |-> d.snapshot, compactTo |-> 0,
              members |-> d.snapshot.members,
              remotes |-> [v \in Node |-> NewRemote(0, 1)],
              pendingConfigChange |-> FALSE, transferTarget |-> None,
              reads |-> <<>>, readyToRead |-> {}, checkQuorum |-> Env.checkQuorum]
    IN  [p EXCEPT !.remotes = ResetRemotes(p, n)]

\* A new node: the bootstrap entries are abstracted as a membership that
\* holds from index 0 on.
FirstDisk(members, observer) ==
    [term |-> IF observer THEN 0 ELSE 1, vote |-> None, committed |-> 0,
     log |-> <<>>, snapshot |-> [index |-> 0, members |-> members]]

\* All nodes start from their disks: new ones in a new group, or those of a
\* group that was shut down as a whole.
Init ==
    /\ setup \in DOMAIN Setups
    /\ disk = Env.disk
    /\ peer = [n \in Node |-> StartPeer(n, disk[n])]
    /\ net = {}
    /\ \E n \in Node :
          /\ \A v \in Node : disk[v].committed <= disk[n].committed
          /\ decided = SubSeq(disk[n].log, 1, disk[n].committed)
    /\ reads = [c \in ReadCtx |-> [status |-> "new", node |-> None, base |-> 0, index |-> 0]]
    /\ crashes = 0

---------------------------------------------------------------------------
\* The step engine (execNodes).  res is the outcome of the event handler.

Durable(p) == [term |-> p.term, vote |-> p.vote, committed |-> p.committed,
               log |-> p.log, snapshot |-> p.snapshot]

\* Committed entries are handed to the state machine, which will apply them
\* and answer the clients.
Publish(p) ==
    decided' = IF p.committed > Len(decided) THEN SubSeq(p.log, 1, p.committed)
                                             ELSE decided

ReadsAnswered(n, p, rds) ==
    [c \in ReadCtx |->
        IF rds[c].status = "waiting" /\ rds[c].node = n /\ \E r \in p.readyToRead : r.ctx = c
        THEN [rds[c] EXCEPT !.status = "ready",
                            !.index = (CHOOSE r \in p.readyToRead : r.ctx = c).index]
        ELSE rds[c]]

\* A read request dies with the process that made it.
ReadsLost(n, rds) ==
    [c \in ReadCtx |-> IF rds[c].status = "waiting" /\ rds[c].node = n
                       THEN [rds[c] EXCEPT !.status = "lost"] ELSE rds[c]]

\* processRaftUpdate also compacts the log when a snapshot asked for it.
Complete(n, res, rest, rds) ==
    /\ net' = rest \cup res.out
    /\ disk' = [disk EXCEPT ![n] = Durable(res.p)]
    /\ Publish(res.p)
    /\ reads' = ReadsAnswered(n, res.p, rds)
    /\ peer' = [peer EXCEPT ![n] = [res.p EXCEPT !.marker = MaxOf(res.p.marker, res.p.compactTo),
                                                 !.compactTo = 0,
                                                 !.readyToRead = {}]]
    /\ UNCHANGED <<crashes, setup>>

Restart(n, rds) ==
    /\ n \in Env.crashing /\ crashes < Env.maxCrash
    /\ crashes' = crashes + 1
    /\ peer' = [peer EXCEPT ![n] = StartPeer(n, disk[n])]
    /\ reads' = ReadsLost(n, rds)
    /\ UNCHANGED <<disk, setup>>

\* Mutant of FreeOrderMessages: acknowledgements do not wait for the save.
AllMessagesAreFree(out) == out

FreeOrderMessages(out) == {m \in out : m.type = "Replicate"}

\* The process dies before SaveRaftState has taken effect: entries have been
\* handed over (unless the update carries a snapshot, which must be saved
\* first), Replicate messages sent, reads released.
DieBeforeSave(n, res, rest, rds) ==
    /\ net' = rest \cup FreeOrderMessages(res.out)
    /\ IF res.p.snapshot = disk[n].snapshot THEN Publish(res.p) ELSE UNCHANGED decided
    /\ Restart(n, ReadsAnswered(n, res.p, rds))

\* rest: the messages left in flight; rds: the read requests made so far.
IterateWith(n, result, rest, rds) ==
    \E res \in {result} :
        Complete(n, res, rest, rds) \/ DieBeforeSave(n, res, rest, rds)

Iterate(n, res) == IterateWith(n, res, net, reads)

Crash(n) == Restart(n, reads) /\ UNCHANGED <<net, decided>>

---------------------------------------------------------------------------
\* Local events: ticks, client requests, reports of the transport.

Election(n) ==
    /\ <<n, peer[n].term + 1>> \in Env.campaigns
    /\ CanCampaign(peer[n], n)
    /\ Iterate(n, Campaign(peer[n], n, FALSE))

\* The last queued read request rides on every heartbeat.
LeaderHeartbeat(n) ==
    /\ "heartbeat" \in Env.events
    /\ peer[n].role = "leader"
    /\ LET p == peer[n]
           ctx == IF p.reads = <<>> THEN None ELSE p.reads[Len(p.reads)].ctx
       IN  Iterate(n, BroadcastHeartbeat(p, n, ctx))

LeaderElectionTimeout(n) ==
    /\ "timeout" \in Env.events
    /\ peer[n].role = "leader"
    /\ Iterate(n, Result(HandleLeaderElectionTimeout(peer[n], n), {}))

\* A proposal at a follower is forwarded; it is modelled as made at the leader.
Propose(n, cmd) ==
    /\ peer[n].role = "leader"
    /\ LastIndex(peer[n]) < Env.maxLog
    /\ Iterate(n, HandleLeaderPropose(peer[n], n, cmd))

\* RequestLeaderTransfer stamps the request with the target as its sender.
RequestLeaderTransfer(n, target) ==
    \/ /\ peer[n].role = "leader" /\ IsMember(peer[n], target)
       /\ Iterate(n, HandleLeaderLeaderTransfer(peer[n], n, target, target))
    \/ /\ peer[n].role = "follower"
       /\ Iterate(n, HandleFollowerLeaderTransfer(peer[n], n, target))

RequestRead(n, ctx) ==
    LET rds == [reads EXCEPT ![ctx] = [status |-> "waiting", node |-> n,
                                       base |-> Len(decided), index |-> 0]]
    IN  /\ reads[ctx].status = "new"
        /\ \/ /\ peer[n].role = "leader"
              /\ IterateWith(n, HandleLeaderReadIndex(peer[n], n, n, ctx), net, rds)
           \/ /\ peer[n].role \in {"follower", "observer"}
              /\ IterateWith(n, HandleFollowerReadIndex(peer[n], n, ctx), net, rds)

\* The transport, or the feedback timer, reports on a snapshot transfer.
ReportSnapshotStatus(n, v, reject) ==
    /\ peer[n].role = "leader" /\ v \in Others(peer[n], n)
    /\ peer[n].remotes[v].state = "Snapshot"
    /\ Iterate(n, Result(HandleLeaderSnapshotStatus(peer[n], v, reject), {}))

ReportUnreachable(n, v) ==
    /\ "unreachable" \in Env.events
    /\ peer[n].role = "leader" /\ v \in Others(peer[n], n)
    /\ Iterate(n, Result(HandleLeaderUnreachable(peer[n], v), {}))

---------------------------------------------------------------------------
\* Messages.  Peer.Handle drops a response from a node that is not a member.

Inbox(n) ==
    {m \in net : /\ m.to = n /\ m.type \in Env.events /\ <<m.from, n>> \in Env.links
                 /\ IsResponseMessage(m) => IsMember(peer[n], m.from)}

\* A message that is not of a lower term, at a node that after stepping to
\* the message's term is in one of the given roles.
Receives(n, m, roles) ==
    /\ m.term = 0 \/ m.term >= peer[n].term
    /\ StepTerm(peer[n], n, m).role \in roles

RecvRequestVote(n, m) ==
    /\ m.type = "RequestVote"
    /\ Receives(n, m, {"follower", "candidate", "leader"})
    /\ ~ MustDropRequestVote(peer[n], m)
    /\ Iterate(n, HandleRequestVote(StepTerm(peer[n], n, m), n, m))

RecvRequestVoteResp(n, m) ==
    /\ m.type = "RequestVoteResp"
    /\ Receives(n, m, {"candidate"})
    /\ Iterate(n, HandleRequestVoteResp(peer[n], n, m))

RecvReplicate(n, m) ==
    /\ m.type = "Replicate"
    /\ Receives(n, m, {"follower", "candidate", "observer"})
    /\ \E res \in {HandleReplicate(StepTerm(peer[n], n, m), n, m)} :
          CommitIsInLog(res.p) /\ Iterate(n, res)

RecvReplicateResp(n, m) ==
    /\ m.type = "ReplicateResp"
    /\ Receives(n, m, {"leader"})
    /\ Iterate(n, HandleLeaderReplicateResp(peer[n], n, m))

RecvHeartbeat(n, m) ==
    /\ m.type = "Heartbeat"
    /\ Receives(n, m, {"follower", "candidate", "observer"})
    /\ \E res \in {HandleHeartbeat(StepTerm(peer[n], n, m), n, m)} :
          CommitIsInLog(res.p) /\ Iterate(n, res)

RecvHeartbeatResp(n, m) ==
    /\ m.type = "HeartbeatResp"
    /\ Receives(n, m, {"leader"})
    /\ Iterate(n, HandleLeaderHeartbeatResp(peer[n], n, m))

RecvInstallSnapshot(n, m) ==
    /\ m.type = "InstallSnapshot"
    /\ Receives(n, m, {"follower", "candidate", "observer"})
    /\ Iterate(n, HandleInstallSnapshot(StepTerm(peer[n], n, m), n, m))

\* The target of a leadership transfer campaigns at once, unless it may not.
RecvTimeoutNow(n, m) ==
    /\ m.type = "TimeoutNow"
    /\ Receives(n, m, {"follower"}) /\ <<n, m.term + 1>> \in Env.campaigns
    /\ LET p == StepTerm(peer[n], n, m)
       IN  Iterate(n, IF CanCampaign(p, n) THEN Campaign(p, n, TRUE)
                                          ELSE Result(p, {}))

RecvLeaderTransfer(n, m) ==
    /\ m.type = "LeaderTransfer"
    /\ Receives(n, m, {"leader"})
    /\ Iterate(n, HandleLeaderLeaderTransfer(peer[n], n, m.from, m.target))

RecvReadIndex(n, m) ==
    /\ m.type = "ReadIndex"
    /\ \/ /\ peer[n].role = "leader"
          /\ IterateWith(n, HandleLeaderReadIndex(peer[n], n, m.from, m.ctx),
                         net \ {m}, reads)
       \/ /\ peer[n].role \in {"follower", "observer"}
          /\ IterateWith(n, HandleFollowerReadIndex(peer[n], n, m.ctx),
                         net \ {m}, reads)

RecvReadIndexResp(n, m) ==
    /\ m.type = "ReadIndexResp"
    /\ Receives(n, m, {"follower", "observer"})
    /\ Iterate(n, HandleReadIndexResp(StepTerm(peer[n], n, m), m))

\* A higher term is adopted even when the message then finds no handler.
RecvUnhandled(n, m) ==
    /\ m.type \in {"NoOP", "RequestVote", "RequestVoteResp", "ReplicateResp",
                   "HeartbeatResp", "TimeoutNow", "LeaderTransfer"}
    /\ m.type \in {"RequestVote", "TimeoutNow"} => peer[n].role = "observer"
    /\ m.term > peer[n].term
    /\ Receives(n, m, {"follower", "observer"})
    /\ Iterate(n, Result(StepTerm(peer[n], n, m), {}))

\* With CheckQuorum, the sender of a stale leader message is told so.
RecvStaleLeaderMessage(n, m) ==
    /\ peer[n].checkQuorum /\ IsLeaderMessage(m) /\ m.term < peer[n].term
    /\ Iterate(n, Result(peer[n], {NoOPMsg(peer[n], n, m.from)}))

---------------------------------------------------------------------------
\* The replicated state machine, run by the commit and snapshot workers.

IsConfigChange(p, i) == p.log[i].cmd \in ConfigChange

\* The entries handed over, up to and including the first config change.
ApplyTo(p) ==
    LET new == p.applied + 1 .. p.committed
        changes == {i \in new : IsConfigChange(p, i)}
    IN  CHOOSE i \in new : IF changes = {} THEN i = p.committed ELSE IsFirst(i, changes)

Apply(n) ==
    LET p == peer[n]
        i == ApplyTo(p)
        p1 == [p EXCEPT !.applied = i]
    IN  /\ p.applied < p.committed /\ p.applied >= p.marker
        /\ Iterate(n, IF IsConfigChange(p, i) THEN HandleConfigChange(p1, n, p.log[i].cmd)
                                             ELSE Result(p1, {}))

\* An installed snapshot replaces the state machine's contents.
RecoverFromSnapshot(n) ==
    LET p == peer[n]
    IN  /\ p.applied < p.marker
        /\ Iterate(n, Result(RestoreRemotes([p EXCEPT !.applied = p.snapshot.index], n,
                                           p.snapshot.members), {}))

\* The snapshot is recorded on disk by the snapshot worker itself; the log
\* is compacted by the step worker's next flush.
SaveSnapshot(n) ==
    LET p == peer[n]
        ss == [index |-> p.applied, members |-> p.members]
    IN  /\ Env.snapshotEntries > 0
        /\ p.applied > Env.snapshotEntries + p.snapshot.index
        /\ peer' = [peer EXCEPT ![n].snapshot = ss,
                                ![n].compactTo = MaxOf(0, p.applied - Env.compactionOverhead)]
        /\ disk' = [disk EXCEPT ![n].snapshot = ss]
        /\ UNCHANGED <<net, decided, reads, crashes, setup>>

---------------------------------------------------------------------------

Recv(n, m) ==
    \/ RecvRequestVote(n, m) \/ RecvRequestVoteResp(n, m)
    \/ RecvReplicate(n, m) \/ RecvReplicateResp(n, m)
    \/ RecvHeartbeat(n, m) \/ RecvHeartbeatResp(n, m)
    \/ RecvInstallSnapshot(n, m)
    \/ RecvTimeoutNow(n, m) \/ RecvLeaderTransfer(n, m)
    \/ RecvReadIndex(n, m) \/ RecvReadIndexResp(n, m)
    \/ RecvUnhandled(n, m) \/ RecvStaleLeaderMessage(n, m)

NodeStep(n) ==
    \/ Election(n) \/ LeaderHeartbeat(n) \/ LeaderElectionTimeout(n)
    \/ \E cmd \in Env.proposals : Propose(n, cmd)
    \/ \E target \in Env.transfers : RequestLeaderTransfer(n, target)
    \/ \E ctx \in Env.reads : RequestRead(n, ctx)
    \/ \E v \in Node, reject \in BOOLEAN : ReportSnapshotStatus(n, v, reject)
    \/ \E v \in Node : ReportUnreachable(n, v)
    \/ \E m \in Inbox(n) : Recv(n, m)
    \/ Crash(n)
    \/ Apply(n) \/ RecoverFromSnapshot(n) \/ SaveSnapshot(n)

Next == \E n \in Node : NodeStep(n)

Spec == Init /\ [][Next]_vars

---------------------------------------------------------------------------
\* Types.

MaybeNode == Node \cup {None}

ReadStatus == [ctx : ReadCtx, index : Nat, from : Node, acks : SUBSET Node]

Peer == [term : Nat, vote : MaybeNode,
         role : {"follower", "candidate", "leader", "observer"},
         leader : MaybeNode, granted : SUBSET Node, rejected : SUBSET Node,
         log : Seq(Entry), marker : Nat,
         committed : Nat, applied : Nat,
         snapshot : Snapshot, compactTo : Nat,
         members : Members, remotes : [Node -> Remote],
         pendingConfigChange : BOOLEAN, transferTarget : MaybeNode,
         reads : Seq(ReadStatus),
         readyToRead : SUBSET [ctx : ReadCtx, index : Nat], checkQuorum : BOOLEAN]

Disk == [term : Nat, vote : MaybeNode, committed : Nat, log : Seq(Entry),
         snapshot : Snapshot]

\* A disk that a node can have left behind.
DiskInOrder(d) ==
    /\ \A i \in 1..Len(d.log) : d.log[i].term \in 1..d.term
    /\ d.snapshot.index <= d.committed /\ d.committed <= Len(d.log)

ASSUME SetupsAssumption ==
    \A s \in DOMAIN Setups :
        /\ Setups[s].disk \in [Node -> Disk]
        /\ \A n \in Node : DiskInOrder(Setups[s].disk[n])
        /\ Setups[s].proposals \subseteq Command \cup ConfigChange
        /\ Setups[s].snapshotEntries \in Nat /\ Setups[s].compactionOverhead \in Nat

Message ==
         [type : {"Replicate"}, from : Node, to : Node, term : Nat,
          prev : Nat, prevTerm : Nat, entries : Seq(Entry), commit : Nat]
    \cup [type : {"InstallSnapshot"}, from : Node, to : Node, term : Nat,
          ss : [log : Seq(Entry), members : Members]]
    \cup [type : {"Heartbeat"}, from : Node, to : Node, term : Nat,
          commit : Nat, ctx : ReadCtx \cup {None}]
    \cup [type : {"RequestVote"}, from : Node, to : Node, term : Nat,
          lastIndex : Nat, lastTerm : Nat, transfer : BOOLEAN]
    \cup [type : {"RequestVoteResp"}, from : Node, to : Node, term : Nat,
          reject : BOOLEAN]
    \cup [type : {"ReplicateResp"}, from : Node, to : Node, term : Nat,
          reject : BOOLEAN, index : Nat, hint : Nat]
    \cup [type : {"HeartbeatResp"}, from : Node, to : Node, term : Nat,
          ctx : ReadCtx \cup {None}]
    \cup [type : {"ReadIndex"}, from : Node, to : Node, term : {0}, ctx : ReadCtx]
    \cup [type : {"ReadIndexResp"}, from : Node, to : Node, term : Nat,
          ctx : ReadCtx, index : Nat]
    \cup [type : {"LeaderTransfer"}, from : Node, to : Node, term : Nat, target : Node]
    \cup [type : {"TimeoutNow", "NoOP"}, from : Node, to : Node, term : Nat]

\* The state of every node, of its disk, of the network and of the readers
\* is well formed.
TypeOK ==
    /\ peer \in [Node -> Peer]
    /\ disk \in [Node -> Disk]
    /\ net \subseteq Message
    /\ decided \in Seq(Entry)
    /\ reads \in [ReadCtx -> [status : {"new", "waiting", "ready", "lost"},
                             node : MaybeNode, base : Nat, index : Nat]]
    /\ setup \in DOMAIN Setups /\ crashes \in 0..Env.maxCrash

---------------------------------------------------------------------------
\* Properties.

LeaderMessages == {m \in net : m.type \in {"Replicate", "InstallSnapshot", "Heartbeat"}}

\* The pairs of a term and a node that has acted as its leader.
Leaderships ==
    {<<peer[n].term, n>> : n \in {n \in Node : peer[n].role = "leader"}}
      \cup {<<m.term, m.from>> : m \in LeaderMessages}

\* At most one node ever acts as the leader of a term, across crashes,
\* CheckQuorum step-downs and leadership transfers (campaign,
\* handleNodeRequestVote, SaveRaftState before RequestVoteResp).
ElectionSafety ==
    \A x, y \in Leaderships : x[1] = y[1] => x[2] = y[2]

\* Two logs that agree on the term of an entry agree up to it
\* (handleReplicateMessage and tryAppend).
LogMatching ==
    \A a, b \in Node : \A i \in 1..MinOf(LastIndex(peer[a]), LastIndex(peer[b])) :
        peer[a].log[i].term = peer[b].log[i].term =>
            \A j \in 1..i : peer[a].log[j] = peer[b].log[j]

AgreesWith(log, other, i) == \A j \in 1..MinOf(i, Len(other)) : log[j] = other[j]

\* No two state machines are ever handed different entries at one index:
\* what a node considers committed agrees with everything handed over before.
StateMachineSafety ==
    \A n \in Node : /\ peer[n].committed <= LastIndex(peer[n])
                   /\ AgreesWith(peer[n].log, decided, peer[n].committed)

\* The leader of the latest term holds every entry ever handed to a state
\* machine, so it never asks a follower to give one up (upToDate).
LeaderCompleteness ==
    \A n \in Node :
        peer[n].role = "leader" /\ (\A v \in Node : disk[v].term <= peer[n].term) =>
            /\ Len(decided) <= LastIndex(peer[n])
            /\ AgreesWith(peer[n].log, decided, Len(decided))

\* What a leader counts as held by a member is on the member's disk, as long
\* as the member has not moved on to a higher term (ReplicateResp is sent
\* after SaveRaftState).  A leader never probes beyond its own log either:
\* entryLog.term answers 0 there without an error, which a follower could take
\* for a match.
MatchIsDurable ==
    \A n \in Node : peer[n].role = "leader" =>
        \A v \in Others(peer[n], n) :
            /\ peer[n].remotes[v].next \in 1 .. LastIndex(peer[n]) + 1
            /\ disk[v].term = peer[n].term =>
                  /\ peer[n].remotes[v].match <= Len(disk[v].log)
                  /\ AgreesWith(disk[v].log, peer[n].log, peer[n].remotes[v].match)

\* A Heartbeat or Replicate still in flight never drives its receiver into a
\* panic, whatever the receiver did meanwhile: of commitTo ("invalid commitTo
\* index"), or of append after a match beyond the end of the log.
NoAppendPanic ==
    \A m \in net : LET p == peer[m.to] IN
        p.role # "leader" /\ m.term >= p.term =>
            /\ m.type = "Heartbeat" => m.commit <= LastIndex(p)
            /\ m.type = "Replicate" /\ MatchTerm(p, m.prev, m.prevTerm) =>
                  m.prev <= LastIndex(p)

\* The term on a disk never goes back and the vote of a term, once saved, is
\* never changed or forgotten (reset, handleNodeRequestVote).
VoteIsFinal ==
    [][\A n \in Node :
          /\ disk[n].term <= disk'[n].term
          /\ disk[n].term = disk'[n].term /\ disk[n].vote # None =>
                disk'[n].vote = disk[n].vote]_vars

\* A read is answered with an index that covers everything that had been
\* handed to any state machine when the read was made, although the leader
\* may have been deposed meanwhile (handleLeaderReadIndex, readIndex.confirm).
ReadLinearizable ==
    \A c \in ReadCtx : reads[c].status = "ready" => reads[c].index >= reads[c].base

\* preLeaderPromotionHandleConfigChange never finds "multiple uncommitted
\* config change entries": a config change is proposed only when the previous
\* one has been applied, and reaches a node together with the news that the
\* previous one is committed.
OneConfigChangeInFlight ==
    \A n \in Node : Cardinality(PendingConfigChanges(peer[n])) <= 1

\* A snapshot in flight never drives its receiver into the panic "converting
\* to observer" of restore: who is listed as an observer is one.
NoConversionToObserver ==
    \A m \in net : m.type = "InstallSnapshot" =>
        LET p == peer[m.to] IN
            /\ p.role # "leader" /\ m.term >= p.term
            /\ Len(m.ss.log) > p.committed
            /\ m.to \in m.ss.members.observers
            => p.role = "observer"

\* Only entries that a snapshot on disk covers are dropped from the log
\* (SaveSnapshot, compactLog, entryLog.restore).
CompactedIsSaved == \A n \in Node : peer[n].marker <= disk[n].snapshot.index

\* A leader tells the target of a leadership transfer to campaign only when
\* the target holds the leader's whole log: a slow target could only disturb
\* the group (handleLeaderLeaderTransfer, handleLeaderReplicateResp).
TransferTargetCaughtUp ==
    [][\A m \in net' \ net : m.type = "TimeoutNow" =>
          peer'[m.from].remotes[m.to].match = LastIndex(peer'[m.from])]_vars

ReplicatedLog == INSTANCE ReplicatedLog
    WITH Replica <- Node, Value <- Entry, log <- decided,
         handed <- [n \in Node |-> SubSeq(peer[n].log, 1, peer[n].committed)]

\* The group implements a replicated log: one log that only grows, of which
\* every state machine is handed a prefix that only grows, crashes included
\* (execNodes, tryCommit, commitTo, restore, SaveRaftState).
ImplementsReplicatedLog == ReplicatedLog!Spec

=============================================================================
