------------------------------ MODULE RaftCore ------------------------------
(***************************************************************************)
(* The message handlers of one raft node (internal/raft/raft.go,           *)
(* readindex.go), as functions from the node's state p (n is its identity) *)
(* and a message m to the new state and the set of messages emitted:       *)
(* [p |-> ..., out |-> ...].  Tick counters are abstracted: a timeout may  *)
(* fire whenever the state allows it.                                      *)
(***************************************************************************)
EXTENDS EntryLog, FiniteSets

CONSTANTS Node,          \* the identities a member can have
          Command,       \* application payloads
          ConfigChange,  \* membership changes that clients may ask for
          ReadCtx,       \* identities of read requests (raftpb.SystemCtx)
          None,          \* NoNode, NoLeader, the zero SystemCtx
          Noop,          \* the empty application entry
          MaxEntries     \* entries per Replicate message (MaxEntrySize)

ASSUME NodeAssumption == IsFiniteSet(Node) /\ Node # {} /\ None \notin Node
ASSUME ConfigChangeAssumption ==
    ConfigChange \subseteq [type : {"AddNode", "AddObserver", "RemoveNode"}, node : Node]
ASSUME MaxEntriesAssumption == MaxEntries \in Nat \ {0}

Entry == [term : Nat, cmd : Command \cup ConfigChange \cup {Noop}]
Members == [voters : SUBSET Node, observers : SUBSET Node, removed : SUBSET Node]
Snapshot == [index : Nat, members : Members]
Others(p, n) == (p.members.voters \cup p.members.observers) \ {n}
IsMember(p, n) == n \in p.members.voters \cup p.members.observers

\* Mutant of Quorum: half is enough.
HalfIsEnough(p) == (Cardinality(p.members.voters) + 1) \div 2

Quorum(p) == Cardinality(p.members.voters) \div 2 + 1
IsSingleNodeQuorum(p) == Quorum(p) = 1

\* In the role of an observer, membership means being listed as one.
SelfRemoved(p, n) ==
    IF p.role = "observer" THEN n \notin p.members.observers
                           ELSE n \notin p.members.voters

---------------------------------------------------------------------------
\* State transitions.

ResetRemotes(p, n) ==
    [v \in Node |-> NewRemote(IF v = n THEN LastIndex(p) ELSE 0, LastIndex(p) + 1)]

\* Mutant of Reset: the vote is forgotten although the term stays.
ResetForgetsVote(p, n, term) ==
    [p EXCEPT !.term = term, !.vote = None, !.leader = None,
              !.granted = {}, !.rejected = {}, !.reads = <<>>,
              !.pendingConfigChange = FALSE, !.transferTarget = None,
              !.remotes = ResetRemotes(p, n)]

Reset(p, n, term) ==
    [p EXCEPT !.term = term,
              !.vote = IF term = p.term THEN @ ELSE None,
              !.leader = None,
              !.granted = {}, !.rejected = {},
              !.reads = <<>>,
              !.pendingConfigChange = FALSE,
              !.transferTarget = None,
              !.remotes = ResetRemotes(p, n)]

BecomeFollower(p, n, term, leader) ==
    [Reset(p, n, term) EXCEPT !.role = "follower", !.leader = leader]

BecomeObserver(p, n, term, leader) ==
    [Reset(p, n, term) EXCEPT !.leader = leader]

\* Mutant of BecomeCandidate: the vote for itself is not recorded.
CandidateWithoutVote(p, n) ==
    [Reset(p, n, p.term + 1) EXCEPT !.role = "candidate", !.granted = {n}]

BecomeCandidate(p, n) ==
    [Reset(p, n, p.term + 1) EXCEPT !.role = "candidate", !.vote = n,
                                    !.granted = {n}]

\* The order statistic matched[len - quorum] of the voters' match values.
QuorumMatch(p) ==
    LET match(v) == p.remotes[v].match
        AtLeast(i) == Cardinality({v \in p.members.voters : match(v) >= i})
    IN  CHOOSE i \in {match(v) : v \in p.members.voters} :
            /\ AtLeast(i) >= Quorum(p)
            /\ AtLeast(i + 1) < Quorum(p)

WillCommit(p) == p.members.voters # {} /\ CanCommit(p, QuorumMatch(p))

TryCommit(p) == IF WillCommit(p) THEN CommitTo(p, QuorumMatch(p)) ELSE p

AppendEntry(p, n, cmd) ==
    LET p1 == [p EXCEPT !.log = Append(@, [term |-> p.term, cmd |-> cmd]),
                        !.remotes[n] = TryUpdate(@, LastIndex(p) + 1)]
    IN  IF IsSingleNodeQuorum(p1) THEN TryCommit(p1) ELSE p1

PendingConfigChanges(p) ==
    {i \in p.committed + 1 .. LastIndex(p) : p.log[i].cmd \in ConfigChange}

\* Mutant of BecomeLeader: an inherited config change is not noticed.
LeaderForgetsConfigChange(p, n) ==
    AppendEntry([Reset(p, n, p.term) EXCEPT !.role = "leader", !.leader = n], n, Noop)

BecomeLeader(p, n) ==
    AppendEntry([Reset(p, n, p.term) EXCEPT
                    !.role = "leader", !.leader = n,
                    !.pendingConfigChange = PendingConfigChanges(p) # {}],
                n, Noop)

---------------------------------------------------------------------------
\* Messages.

ReplicateMsg(p, n, v) ==
    LET next == p.remotes[v].next
    IN  [type |-> "Replicate", from |-> n, to |-> v, term |-> p.term,
         prev |-> next - 1, prevTerm |-> TermAt(p, next - 1),
         entries |-> SubSeq(p.log, next, MinOf(LastIndex(p), next + MaxEntries - 1)),
         commit |-> p.committed]

InstallSnapshotMsg(p, n, v) ==
    [type |-> "InstallSnapshot", from |-> n, to |-> v, term |-> p.term,
     ss |-> [log |-> SubSeq(p.log, 1, p.snapshot.index),
             members |-> p.snapshot.members]]

\* Mutant of HeartbeatMsg: the commit index is not cut to what v is known to hold.
HeartbeatWithFullCommit(p, n, v, ctx) ==
    [type |-> "Heartbeat", from |-> n, to |-> v, term |-> p.term,
     commit |-> p.committed, ctx |-> ctx]

HeartbeatMsg(p, n, v, ctx) ==
    [type |-> "Heartbeat", from |-> n, to |-> v, term |-> p.term,
     commit |-> MinOf(p.remotes[v].match, p.committed), ctx |-> ctx]

RequestVoteMsg(p, n, v, transfer) ==
    [type |-> "RequestVote", from |-> n, to |-> v, term |-> p.term,
     lastIndex |-> LastIndex(p), lastTerm |-> LastTerm(p), transfer |-> transfer]

RequestVoteRespMsg(p, n, v, reject) ==
    [type |-> "RequestVoteResp", from |-> n, to |-> v, term |-> p.term,
     reject |-> reject]

ReplicateRespMsg(p, n, v, reject, index, hint) ==
    [type |-> "ReplicateResp", from |-> n, to |-> v, term |-> p.term,
     reject |-> reject, index |-> index, hint |-> hint]

HeartbeatRespMsg(p, n, v, ctx) ==
    [type |-> "HeartbeatResp", from |-> n, to |-> v, term |-> p.term, ctx |-> ctx]

ReadIndexMsg(n, v, ctx) ==
    [type |-> "ReadIndex", from |-> n, to |-> v, term |-> 0, ctx |-> ctx]

ReadIndexRespMsg(p, n, v, ctx, index) ==
    [type |-> "ReadIndexResp", from |-> n, to |-> v, term |-> p.term,
     ctx |-> ctx, index |-> index]

LeaderTransferMsg(p, n, v, target) ==
    [type |-> "LeaderTransfer", from |-> n, to |-> v, term |-> p.term,
     target |-> target]

TimeoutNowMsg(p, n, v) ==
    [type |-> "TimeoutNow", from |-> n, to |-> v, term |-> p.term]

NoOPMsg(p, n, v) == [type |-> "NoOP", from |-> n, to |-> v, term |-> p.term]

IsLeaderMessage(m) ==
    m.type \in {"Replicate", "InstallSnapshot", "Heartbeat", "TimeoutNow",
                "ReadIndexResp"}

IsResponseMessage(m) ==
    m.type \in {"ReplicateResp", "RequestVoteResp", "HeartbeatResp",
                "ReadIndexResp", "LeaderTransfer"}

---------------------------------------------------------------------------
\* Sending the log.

Result(p, out) == [p |-> p, out |-> out]

\* The next entry for the member has been compacted away.
NeedsSnapshot(p, v) == p.remotes[v].next <= p.marker

CanSend(p, v) ==
    /\ ~ IsPaused(p.remotes[v])
    /\ NeedsSnapshot(p, v) => p.remotes[v].active

RemoteAfterSend(p, v) ==
    LET r == p.remotes[v]
    IN  IF NeedsSnapshot(p, v) THEN BecomeSnapshot(r, p.snapshot.index)
        ELSE IF r.next <= LastIndex(p)
             THEN Progress(r, MinOf(LastIndex(p), r.next + MaxEntries - 1))
             ELSE r

\* sendReplicateMessage to every member of T that is not paused.
SendReplicate(p, n, T) ==
    LET S == {v \in T : CanSend(p, v)}
    IN  Result([p EXCEPT !.remotes =
                   [v \in Node |-> IF v \in S THEN RemoteAfterSend(p, v) ELSE @[v]]],
               {IF NeedsSnapshot(p, v) THEN InstallSnapshotMsg(p, n, v)
                                       ELSE ReplicateMsg(p, n, v) : v \in S})

BroadcastReplicate(p, n) == SendReplicate(p, n, Others(p, n))

\* A heartbeat that carries a read request goes to voters only.
BroadcastHeartbeat(p, n, ctx) ==
    Result(p, {HeartbeatMsg(p, n, v, ctx) :
                  v \in IF ctx = None THEN Others(p, n) ELSE p.members.voters \ {n}})

---------------------------------------------------------------------------
\* Elections.

\* campaign(), reached through nonLeaderTick or TimeoutNow.
CanCampaign(p, n) ==
    /\ p.role \in {"follower", "candidate"}
    /\ ~ SelfRemoved(p, n)
    /\ p.committed <= p.applied

Campaign(p, n, transfer) ==
    LET p1 == BecomeCandidate(p, n)
    IN  IF IsSingleNodeQuorum(p1) THEN Result(BecomeLeader(p1, n), {})
        ELSE Result(p1, {RequestVoteMsg(p1, n, v, transfer) :
                            v \in p.members.voters \ {n}})

HandleRequestVote(p, n, m) ==
    LET grant == /\ p.vote \in {None, m.from}
                 /\ UpToDate(p, m.lastIndex, m.lastTerm)
    IN  Result(IF grant THEN [p EXCEPT !.vote = m.from] ELSE p,
               {RequestVoteRespMsg(p, n, m.from, ~ grant)})

\* Mutant of HandleVoteResp: a rejection is counted as a vote.
EveryAnswerIsAVote(p, m) == [p EXCEPT !.granted = @ \cup {m.from}]

\* Only the first answer of a member counts.
HandleVoteResp(p, m) ==
    IF m.from \in p.granted \cup p.rejected THEN p
    ELSE IF m.reject THEN [p EXCEPT !.rejected = @ \cup {m.from}]
                     ELSE [p EXCEPT !.granted = @ \cup {m.from}]

HandleRequestVoteResp(p, n, m) ==
    IF m.from \in p.members.observers THEN Result(p, {})
    ELSE LET p1 == HandleVoteResp(p, m)
         IN  IF Cardinality(p1.granted) = Quorum(p)
             THEN BroadcastReplicate(BecomeLeader(p1, n), n)
             ELSE IF Cardinality(p1.rejected) = Quorum(p)
             THEN Result(BecomeFollower(p1, n, p.term, None), {})
             ELSE Result(p1, {})

---------------------------------------------------------------------------
\* Handlers of a follower, an observer, and of a candidate that gives up.

\* handleCandidate*: the sender is the leader of this term.
FollowLeader(p, n, m) ==
    IF p.role = "candidate" THEN BecomeFollower(p, n, p.term, m.from)
                            ELSE [p EXCEPT !.leader = m.from]

HandleReplicate(p0, n, m) ==
    LET p == FollowLeader(p0, n, m)
        lastIdx == m.prev + Len(m.entries)
    IN  IF m.prev < p.committed
        THEN Result(p, {ReplicateRespMsg(p, n, m.from, FALSE, p.committed, 0)})
        ELSE IF MatchTerm(p, m.prev, m.prevTerm)
        THEN Result(CommitTo(TryAppend(p, m.prev, m.entries), MinOf(lastIdx, m.commit)),
                    {ReplicateRespMsg(p, n, m.from, FALSE, lastIdx, 0)})
        ELSE Result(p, {ReplicateRespMsg(p, n, m.from, TRUE, m.prev, LastIndex(p))})

HandleHeartbeat(p0, n, m) ==
    LET p == FollowLeader(p0, n, m)
    IN  Result(CommitTo(p, m.commit), {HeartbeatRespMsg(p, n, m.from, m.ctx)})

\* raft.restore: a snapshot the log already contains only moves committed.
Restore(p, ss) ==
    IF Len(ss.log) <= p.committed THEN p
    ELSE IF MatchTerm(p, Len(ss.log), ss.log[Len(ss.log)].term)
    THEN CommitTo(p, Len(ss.log))
    ELSE RestoreLog(p, ss)

HandleInstallSnapshot(p0, n, m) ==
    LET p == Restore(FollowLeader(p0, n, m), m.ss)
    IN  Result(p, {ReplicateRespMsg(p, n, m.from, FALSE, p.committed, 0)})

\* A follower passes a request on to the leader it knows.
HandleFollowerReadIndex(p, n, ctx) ==
    Result(p, IF p.leader = None THEN {} ELSE {ReadIndexMsg(n, p.leader, ctx)})

HandleFollowerLeaderTransfer(p, n, target) ==
    Result(p, IF p.leader = None THEN {}
              ELSE {LeaderTransferMsg(p, n, p.leader, target)})

HandleReadIndexResp(p, m) ==
    Result([p EXCEPT !.leader = m.from,
                     !.readyToRead = @ \cup {[ctx |-> m.ctx, index |-> m.index]}], {})

---------------------------------------------------------------------------
\* Handlers of the leader.

SetRemote(p, v, r) == [p EXCEPT !.remotes[v] = r]

HandleLeaderPropose(p, n, cmd) ==
    IF SelfRemoved(p, n) \/ p.transferTarget # None THEN Result(p, {})
    ELSE LET dropped == cmd \in ConfigChange /\ p.pendingConfigChange
             p1 == IF cmd \in ConfigChange
                   THEN [p EXCEPT !.pendingConfigChange = TRUE] ELSE p
         IN  BroadcastReplicate(AppendEntry(p1, n, IF dropped THEN Noop ELSE cmd), n)

HandleLeaderReplicateResp(p, n, m) ==
    LET v == m.from
        r == [p.remotes[v] EXCEPT !.active = TRUE]
        p1 == SetRemote(p, v, RespondedTo(TryUpdate(r, m.index)))
        sent == IF WillCommit(p1) THEN BroadcastReplicate(TryCommit(p1), n)
                ELSE IF IsPaused(r) THEN SendReplicate(p1, n, {v})
                ELSE Result(p1, {})
        timeoutNow == IF p.transferTarget = v /\ m.index = LastIndex(p)
                      THEN {TimeoutNowMsg(p, n, v)} ELSE {}
    IN  IF ~ m.reject
        THEN IF IsNews(r, m.index) THEN Result(sent.p, sent.out \cup timeoutNow)
             ELSE Result(SetRemote(p, v, TryUpdate(r, m.index)), {})
        ELSE IF CanDecrease(r, m.index)
             THEN SendReplicate(
                     SetRemote(p, v, EnterRetryState(DecreaseTo(r, m.index, m.hint))),
                     n, {v})
             ELSE Result(SetRemote(p, v, r), {})

HandleLeaderSnapshotStatus(p, v, reject) ==
    LET r == p.remotes[v]
    IN  SetRemote(p, v, BecomeWait([r EXCEPT !.snapshotIndex =
                                        IF reject THEN 0 ELSE @]))

HandleLeaderUnreachable(p, v) == SetRemote(p, v, EnterRetryState(p.remotes[v]))

\* Mutant of HandleLeaderLeaderTransfer: the target is told at once.
TransferAtOnce(p, n, from, target) ==
    IF p.transferTarget # None \/ target = n THEN Result(p, {})
    ELSE Result([p EXCEPT !.transferTarget = target], {TimeoutNowMsg(p, n, target)})

\* from is the sender of the request, whose progress is the one consulted.
HandleLeaderLeaderTransfer(p, n, from, target) ==
    IF p.transferTarget # None \/ target = n THEN Result(p, {})
    ELSE Result([p EXCEPT !.transferTarget = target],
                IF p.remotes[from].match = LastIndex(p)
                THEN {TimeoutNowMsg(p, n, target)} ELSE {})

LeaderHasQuorum(p, n) ==
    Cardinality({v \in p.members.voters : v = n \/ p.remotes[v].active}) >= Quorum(p)

\* leaderTick at the election timeout: CheckQuorum, then a leadership
\* transfer that has not succeeded is given up.
HandleLeaderElectionTimeout(p, n) ==
    LET active(v) == p.remotes[v].active /\ v \notin p.members.voters
        p1 == [p EXCEPT !.remotes = [v \in Node |->
                  [p.remotes[v] EXCEPT !.active = active(v)]]]
    IN  IF p.checkQuorum
        THEN IF LeaderHasQuorum(p, n) THEN [p1 EXCEPT !.transferTarget = None]
             ELSE BecomeFollower(p1, n, p.term, None)
        ELSE [p EXCEPT !.transferTarget = None]

---------------------------------------------------------------------------
\* ReadIndex (thesis section 6.4): p.reads is the queue of requests waiting
\* for a quorum of heartbeat responses.

HasCommittedEntryAtCurrentTerm(p) == TermAt(p, p.committed) = p.term

HandleLeaderReadIndex(p, n, from, ctx) ==
    IF ~ IsSingleNodeQuorum(p)
    THEN IF ~ HasCommittedEntryAtCurrentTerm(p) THEN Result(p, {})
         ELSE LET known == \E i \in 1..Len(p.reads) : p.reads[i].ctx = ctx
                  req == [ctx |-> ctx, index |-> p.committed, from |-> from, acks |-> {}]
              IN  BroadcastHeartbeat(
                     IF known THEN p ELSE [p EXCEPT !.reads = Append(@, req)], n, ctx)
    ELSE Result([p EXCEPT !.readyToRead = @ \cup {[ctx |-> ctx, index |-> p.committed]}],
                IF from # n /\ from \in p.members.observers
                THEN {ReadIndexRespMsg(p, n, from, ctx, p.committed)} ELSE {})

\* Mutant of HandleReadIndexLeaderConfirmation: the requests released are
\* given the index of the oldest one.
ReleaseAtOldestIndex(p, n, from, ctx) ==
    LET k == CHOOSE i \in 1..Len(p.reads) : p.reads[i].ctx = ctx
    IN  IF ~ \E i \in 1..Len(p.reads) : p.reads[i].ctx = ctx THEN Result(p, {})
        ELSE Result([p EXCEPT
                        !.reads = SubSeq(@, k + 1, Len(@)),
                        !.readyToRead = @ \cup {[ctx |-> p.reads[i].ctx,
                                                 index |-> p.reads[1].index] : i \in 1..k}],
                    {})

\* readIndex.confirm: a confirmed request releases every request queued
\* before it, with its own index.  A released request of another member is
\* answered under the context of the confirming heartbeat.
HandleReadIndexLeaderConfirmation(p, n, from, ctx) ==
    LET k == CHOOSE i \in 1..Len(p.reads) : p.reads[i].ctx = ctx
        acks == p.reads[k].acks \cup {from}
        done == {p.reads[i] : i \in 1..k}
        index == p.reads[k].index
    IN  IF ~ \E i \in 1..Len(p.reads) : p.reads[i].ctx = ctx THEN Result(p, {})
        ELSE IF Cardinality(acks) + 1 < Quorum(p)
        THEN Result([p EXCEPT !.reads[k].acks = acks], {})
        ELSE Result([p EXCEPT
                        !.reads = SubSeq(@, k + 1, Len(@)),
                        !.readyToRead = @ \cup {[ctx |-> s.ctx, index |-> index] :
                                                   s \in {s \in done : s.from = n}}],
                    {ReadIndexRespMsg(p, n, s.from, ctx, index) :
                        s \in {s \in done : s.from # n}})

HandleLeaderHeartbeatResp(p, n, m) ==
    LET v == m.from
        r == WaitToRetry([p.remotes[v] EXCEPT !.active = TRUE])
        sent == IF r.match < LastIndex(p)
                THEN SendReplicate(SetRemote(p, v, r), n, {v})
                ELSE Result(SetRemote(p, v, r), {})
        conf == HandleReadIndexLeaderConfirmation(sent.p, n, v, m.ctx)
    IN  IF m.ctx = None THEN sent ELSE Result(conf.p, sent.out \cup conf.out)

---------------------------------------------------------------------------
\* Membership: what the replicated state machine decides about a committed
\* config change (statemachine.go) and what the raft node then does.

ConfigChangeAccepted(members, cc) ==
    /\ cc.type \in {"AddNode", "AddObserver"} =>
          cc.node \notin members.removed \cup members.voters
    /\ cc.type = "AddObserver" => cc.node \notin members.observers

ChangedMembers(members, cc) ==
    CASE cc.type = "AddNode" ->
            [members EXCEPT !.voters = @ \cup {cc.node}, !.observers = @ \ {cc.node}]
      [] cc.type = "AddObserver" ->
            [members EXCEPT !.observers = @ \cup {cc.node}]
      [] cc.type = "RemoveNode" ->
            [members EXCEPT !.voters = @ \ {cc.node}, !.observers = @ \ {cc.node},
                            !.removed = @ \cup {cc.node}]

\* addNode: a promoted observer keeps its progress; promoted itself, a node
\* becomes a follower.
AddNode(p, n, v) ==
    IF v \in p.members.observers
    THEN IF v = n THEN BecomeFollower(p, n, p.term, p.leader) ELSE p
    ELSE SetRemote(p, v, NewRemote(0, LastIndex(p) + 1))

RemoveNode(p, n, v) ==
    LET p1 == [p EXCEPT !.transferTarget = IF @ = v THEN None ELSE @]
    IN  IF WillCommit(p1) THEN BroadcastReplicate(TryCommit(p1), n) ELSE Result(p1, {})

HandleConfigChange(p, n, cc) ==
    LET p1 == [p EXCEPT !.pendingConfigChange = FALSE]
        members == ChangedMembers(p.members, cc)
        Changed(q) == [q EXCEPT !.members = members]
    IN  IF ~ ConfigChangeAccepted(p.members, cc) THEN Result(p1, {})
        ELSE CASE cc.type = "AddNode" -> Result(Changed(AddNode(p1, n, cc.node)), {})
               [] cc.type = "AddObserver" ->
                     Result(SetRemote(Changed(p1), cc.node,
                                      NewRemote(0, LastIndex(p) + 1)), {})
               [] cc.type = "RemoveNode" -> RemoveNode(Changed(p1), n, cc.node)

\* restoreRemotes: the membership of an installed snapshot replaces the
\* node's own.  Any observer that has become a voter, not only the node
\* itself, turns the node into a follower.
RestoreRemotes(p, n, members) ==
    LET promoted == members.voters \cap p.members.observers # {}
        p1 == IF promoted THEN BecomeFollower(p, n, p.term, p.leader) ELSE p
    IN  [p1 EXCEPT !.members = members, !.remotes = ResetRemotes(p, n)]

---------------------------------------------------------------------------
\* Terms (onMessageTermNotMatched): a message of a higher term makes the
\* node leave its role before the message is handled.

StepTerm(p, n, m) ==
    LET leader == IF IsLeaderMessage(m) THEN m.from ELSE None
    IN  IF m.term <= p.term THEN p
        ELSE IF p.role = "observer" THEN BecomeObserver(p, n, m.term, leader)
        ELSE BecomeFollower(p, n, m.term, leader)

\* A leader that checks its quorum never lets a vote request depose it,
\* unless the request comes from a leadership transfer.  A follower that
\* knows a leader ignores one for as long as an election timeout, which
\* shows as the message not being handled yet.
MustDropRequestVote(p, m) ==
    p.checkQuorum /\ m.term > p.term /\ p.role = "leader" /\ ~ m.transfer

=============================================================================
