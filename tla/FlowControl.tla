---------------------------- MODULE FlowControl ----------------------------
(***************************************************************************)
(* One leader brings one member of its group up to date: the leader's      *)
(* remote record for that member (Remote), the handlers that drive it      *)
(* (raft.go) and the member's side, over a network that loses and reorders *)
(* messages.  The term is fixed.  The rest of the group shows only in that *)
(* entries get committed, with or without the member's own acknowledgement.*)
(*                                                                         *)
(* Logs are abstracted to the member's last index and the length of the    *)
(* prefix on which it agrees with the leader.                              *)
(***************************************************************************)
EXTENDS Integers, FiniteSets, Remote

CONSTANTS Start,       \* the leader's last index when it is elected
          Marker,      \* the leader's log is compacted up to here
          MaxLast,     \* bound on the leader's last index
          MaxEntries,  \* entries per Replicate message
          MaxInFlight, \* what is sent into a full network is lost
          MemberLogs   \* the [agree, last] a member may start with

\* The leader's log has its noop, whatever is compacted lies before it, and a
\* message can carry an entry.  What a member starts with cannot agree with an
\* entry that the leader has just made.
ASSUME StartAssumption == Start \in Nat /\ Marker \in Nat /\ Marker < Start
ASSUME MaxEntriesAssumption == MaxEntries \in Nat \ {0}
ASSUME MemberLogsAssumption ==
    \A l \in MemberLogs : /\ l \in [agree : Nat, last : Nat]
                         /\ l.agree < Start

VARIABLES last,       \* the leader's last index
          committed,  \* the leader's committed index
          remote,     \* the leader's record of the member
          log,        \* the member's log: [agree, last]
          commit,     \* the member's committed index
          net         \* messages in flight

leader == <<last, committed, remote>>
member == <<log, commit>>
vars == <<last, committed, remote, log, commit, net>>

Sent(pending, m) == IF Cardinality(pending) < MaxInFlight THEN pending \cup {m} ELSE pending

ReplicateMsg(prev, upTo, com) ==
    [type |-> "Replicate", prev |-> prev, last |-> upTo, commit |-> com]

\* becomeLeader has appended its noop, the entry Start, and broadcast it.
Init ==
    /\ last = Start
    /\ committed \in Marker .. Start - 1
    /\ remote = Progress(NewRemote(0, Start), Start)
    /\ log \in MemberLogs
    /\ commit = 0
    /\ net = {ReplicateMsg(Start - 1, Start, committed)}

---------------------------------------------------------------------------
\* The leader.

NeedsSnapshot(r) == r.next <= Marker

CanSend(r) == ~ IsPaused(r) /\ (NeedsSnapshot(r) => r.active)

LastSent(r) == MinOf(last', r.next + MaxEntries - 1)

\* sendReplicateMessage from the record r, once last' and committed' are fixed.
SendReplicate(r, pending) ==
    \/ /\ ~ CanSend(r)
       /\ remote' = r /\ net' = pending
    \/ /\ CanSend(r) /\ NeedsSnapshot(r)
       /\ remote' = BecomeSnapshot(r, Marker)
       /\ net' = Sent(pending, [type |-> "InstallSnapshot", index |-> Marker])
    \/ /\ CanSend(r) /\ ~ NeedsSnapshot(r)
       /\ remote' = IF r.next <= last' THEN Progress(r, LastSent(r)) ELSE r
       /\ net' = Sent(pending, ReplicateMsg(r.next - 1, LastSent(r), committed'))

NoSend(r, pending) == remote' = r /\ net' = pending

Propose ==
    /\ last < MaxLast
    /\ last' = last + 1
    /\ UNCHANGED <<committed, member>>
    /\ SendReplicate(remote, net)

\* A quorum without the member: tryCommit, then broadcastReplicateMessage.
Commit ==
    /\ committed' \in committed + 1 .. last
    /\ UNCHANGED <<last, member>>
    /\ SendReplicate(remote, net)

\* Mutant of Heartbeat: the commit index is not cut to what the member holds.
HeartbeatWithFullCommit ==
    /\ net' = Sent(net, [type |-> "Heartbeat", commit |-> committed])
    /\ UNCHANGED <<leader, member>>

Heartbeat ==
    /\ net' = Sent(net, [type |-> "Heartbeat", commit |-> MinOf(remote.match, committed)])
    /\ UNCHANGED <<leader, member>>

\* handleLeaderReplicateResp.  The acknowledgement may complete a quorum.
Accepted(m) ==
    LET r == [remote EXCEPT !.active = TRUE]
        r1 == RespondedTo(TryUpdate(r, m.index))
    IN  \/ /\ IsNews(r, m.index) /\ m.index > committed
           /\ committed' \in committed + 1 .. m.index
           /\ UNCHANGED last
           /\ SendReplicate(r1, net \ {m})
        \/ /\ IsNews(r, m.index)
           /\ UNCHANGED <<last, committed>>
           /\ IF IsPaused(r) THEN SendReplicate(r1, net \ {m}) ELSE NoSend(r1, net \ {m})
        \/ /\ ~ IsNews(r, m.index)
           /\ UNCHANGED <<last, committed>>
           /\ NoSend(TryUpdate(r, m.index), net \ {m})

Rejected(m) ==
    LET r == [remote EXCEPT !.active = TRUE]
    IN  /\ UNCHANGED <<last, committed>>
        /\ IF CanDecrease(r, m.index)
           THEN SendReplicate(EnterRetryState(DecreaseTo(r, m.index, m.hint)), net \ {m})
           ELSE NoSend(r, net \ {m})

RecvReplicateResp ==
    /\ \E m \in net : /\ m.type = "ReplicateResp"
                      /\ IF m.reject THEN Rejected(m) ELSE Accepted(m)
    /\ UNCHANGED member

\* Mutant of RecvHeartbeatResp: a paused record stays paused.
HeartbeatRespKeepsWaiting ==
    LET r == [remote EXCEPT !.active = TRUE]
    IN  /\ UNCHANGED <<last, committed, member>>
        /\ \E m \in net : /\ m.type = "HeartbeatResp"
                          /\ IF r.match < last THEN SendReplicate(r, net \ {m})
                                               ELSE NoSend(r, net \ {m})

\* handleLeaderHeartbeatResp
RecvHeartbeatResp ==
    LET r == WaitToRetry([remote EXCEPT !.active = TRUE])
    IN  /\ UNCHANGED <<last, committed, member>>
        /\ \E m \in net : /\ m.type = "HeartbeatResp"
                          /\ IF r.match < last THEN SendReplicate(r, net \ {m})
                                               ELSE NoSend(r, net \ {m})

\* handleLeaderSnapshotStatus: sooner or later the transport or the feedback
\* timer reports, rightly or not.
SnapshotStatus ==
    /\ remote.state = "Snapshot"
    /\ \E reject \in BOOLEAN :
          remote' = BecomeWait([remote EXCEPT !.snapshotIndex = IF reject THEN 0 ELSE @])
    /\ UNCHANGED <<last, committed, member, net>>

Unreachable ==
    /\ remote' = EnterRetryState(remote)
    /\ UNCHANGED <<last, committed, member, net>>

\* leaderHasQuorum starts a new round of observing who is active.
CheckQuorumTick ==
    /\ remote' = [remote EXCEPT !.active = FALSE]
    /\ UNCHANGED <<last, committed, member, net>>

---------------------------------------------------------------------------
\* The member.

Resp(m, reject, index, hint) ==
    net' = Sent(net \ {m}, [type |-> "ReplicateResp", reject |-> reject,
                            index |-> index, hint |-> hint])

RecvReplicate ==
    /\ \E m \in net :
          /\ m.type = "Replicate"
          /\ \/ /\ m.prev < commit
                /\ Resp(m, FALSE, commit, 0)
                /\ UNCHANGED <<log, commit>>
             \/ /\ m.prev >= commit /\ m.prev <= log.agree
                /\ log' = IF m.last > log.agree
                          THEN [agree |-> m.last, last |-> m.last] ELSE log
                /\ commit' = MaxOf(commit, MinOf(m.last, m.commit))
                /\ Resp(m, FALSE, m.last, 0)
             \/ /\ m.prev >= commit /\ m.prev > log.agree
                /\ Resp(m, TRUE, m.prev, log.last)
                /\ UNCHANGED <<log, commit>>
    /\ UNCHANGED leader

RecvHeartbeat ==
    /\ \E m \in net :
          /\ m.type = "Heartbeat"
          /\ commit' = MaxOf(commit, m.commit)
          /\ net' = Sent(net \ {m}, [type |-> "HeartbeatResp"])
    /\ UNCHANGED <<leader, log>>

\* raft.restore
RecvInstallSnapshot ==
    /\ \E m \in net :
          /\ m.type = "InstallSnapshot"
          /\ commit' = MaxOf(commit, m.index)
          /\ log' = IF m.index > log.agree
                    THEN [agree |-> m.index, last |-> m.index] ELSE log
          /\ Resp(m, FALSE, commit', 0)
    /\ UNCHANGED leader

---------------------------------------------------------------------------

Lose ==
    /\ \E m \in net : net' = net \ {m}
    /\ UNCHANGED <<leader, member>>

Next ==
    \/ Propose \/ Commit \/ Heartbeat \/ RecvReplicateResp \/ RecvHeartbeatResp
    \/ SnapshotStatus \/ Unreachable \/ CheckQuorumTick
    \/ RecvReplicate \/ RecvHeartbeat \/ RecvInstallSnapshot
    \/ Lose

\* The leader's tick sends heartbeats, reports on snapshots come in the end,
\* and of the messages of a kind that are sent again and again some arrive.
Fairness ==
    /\ WF_vars(Heartbeat) /\ WF_vars(SnapshotStatus)
    /\ SF_vars(RecvReplicate) /\ SF_vars(RecvReplicateResp)
    /\ SF_vars(RecvHeartbeat) /\ SF_vars(RecvHeartbeatResp)
    /\ SF_vars(RecvInstallSnapshot)

Spec == Init /\ [][Next]_vars
FairSpec == Spec /\ Fairness

---------------------------------------------------------------------------

Message ==
         [type : {"Replicate"}, prev : Nat, last : Nat, commit : Nat]
    \cup [type : {"InstallSnapshot"}, index : Nat]
    \cup [type : {"Heartbeat"}, commit : Nat]
    \cup [type : {"HeartbeatResp"}]
    \cup [type : {"ReplicateResp"}, reject : BOOLEAN, index : Nat, hint : Nat]

\* Indices stay unsigned: next never reaches 0, where next - 1 would wrap.
TypeOK ==
    /\ last \in Nat /\ committed \in Nat /\ remote \in Remote
    /\ log \in [agree : Nat, last : Nat] /\ commit \in Nat
    /\ net \subseteq Message

\* The leader never believes the member to hold more than it holds, and never
\* probes beyond its own log (tryUpdate, becomeRetry after a snapshot).
ProgressIsReal ==
    /\ remote.match <= log.agree
    /\ remote.next <= last + 1

\* What the member considers committed is a prefix it shares with the leader
\* and the leader considers committed (heartbeats carry min(match, committed)).
MemberCommitIsSafe == commit <= log.agree /\ commit <= committed

\* Whatever is lost, reordered or wrongly reported, the leader learns in the
\* end that the member holds its whole log: no mode of the remote record is
\* a trap (waitToRetry, respondedTo, handleLeaderSnapshotStatus).
CatchesUp == <>[](remote.match = last)


=============================================================================
