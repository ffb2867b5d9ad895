--------------------------- MODULE RaftElections ----------------------------
(***************************************************************************)
(* Votes and elections, in groups of any size.  The proofs come in three   *)
(* parts: what each handler of raft does to the part of a node that        *)
(* elections are about (its term, its vote, its role and the members it    *)
(* knows of); that every step of a node is an iteration of its step engine *)
(* that does one such move, a snapshot saved or a crash (EveryStep); and   *)
(* what the moves mean for votes.  Whatever is lost, repeated or crashes,  *)
(* no node takes back a vote it has saved (VInv, VStep).  EInv says who    *)
(* has been promised which vote: it is the inductive invariant of          *)
(* elections in a group whose membership stays what it was at the start.   *)
(* It means that no term has two leaders (EInvIsSafe), and every step      *)
(* keeps it (EStep).                                                       *)
(***************************************************************************)
EXTENDS RaftInvariants, TLAPS

---------------------------------------------------------------------------
\* What the handlers do to the part of a node's state that elections are
\* about.

\* Nothing of it changes.
Keeps(p, q) ==
    /\ Shape(q)
    /\ q.term = p.term /\ q.vote = p.vote /\ q.role = p.role /\ q.granted = p.granted
    /\ q.members = p.members /\ q.snapshot = p.snapshot

\* The term and the vote stay; at most the node becomes a follower.
Abides(p, q) ==
    /\ Shape(q)
    /\ q.term = p.term /\ q.vote = p.vote
    /\ \/ q.role = "follower"
       \/ q.role = p.role /\ q.granted = p.granted

\* What node n may say in state p outside elections.
MaySay(p, n, m) ==
    /\ m.term \in {0, p.term}
    /\ m.type \notin VoteTypes
    /\ m.type \in LeaderTypes => p.role = "leader" /\ m.from = n /\ m.term = p.term
    /\ m.type = "InstallSnapshot" => m.ss.members = p.snapshot.members

Says(p, n, out) == \A m \in out : MaySay(p, n, m)

\* The outcome of a handler that has nothing to do with elections.
Plain(p, n, res) == Keeps(p, res.p) /\ Says(p, n, res.out)

LEMMA KeepsTransitive ==
    ASSUME NEW p, NEW q, NEW r, Keeps(p, q), Keeps(q, r)
    PROVE  Keeps(p, r)
  BY Zenon DEF Keeps

LEMMA KeepsAbides ==
    ASSUME NEW p, NEW q, Keeps(p, q)
    PROVE  Abides(p, q)
  BY Zenon DEF Keeps, Abides

LEMMA PlainAfter ==
    ASSUME NEW p, NEW q, NEW n, NEW res, Keeps(p, q), Plain(q, n, res)
    PROVE  Plain(p, n, res)
  BY Zenon DEF Plain, Keeps, Says, MaySay

LEMMA PlainSilence ==
    ASSUME NEW p, NEW q, NEW n, Keeps(p, q)
    PROVE  Plain(p, n, Result(q, {}))
  BY Zenon DEF Plain, Says, Result

LEMMA ResetDoes ==
    ASSUME NEW p, Shape(p), NEW n, NEW t
    PROVE  LET q == Reset(p, n, t)
           IN  /\ Shape(q)
               /\ q.term = t /\ q.vote = (IF t = p.term THEN p.vote ELSE None)
               /\ q.role = p.role /\ q.granted = {}
               /\ q.members = p.members /\ q.snapshot = p.snapshot
  BY Zenon DEF Reset, Shape

LEMMA BecomeFollowerDoes ==
    ASSUME NEW p, Shape(p), NEW n, NEW t, NEW l
    PROVE  LET q == BecomeFollower(p, n, t, l)
           IN  /\ Shape(q)
               /\ q.term = t /\ q.vote = (IF t = p.term THEN p.vote ELSE None)
               /\ q.role = "follower"
               /\ q.members = p.members /\ q.snapshot = p.snapshot
  BY ResetDoes DEF BecomeFollower, Shape

LEMMA CommitToKeeps ==
    ASSUME NEW p, Shape(p), NEW i
    PROVE  Keeps(p, CommitTo(p, i))
  BY Zenon DEF CommitTo, Keeps, Shape

LEMMA AppendEntryKeeps ==
    ASSUME NEW p, Shape(p), NEW n, NEW cmd
    PROVE  Keeps(p, AppendEntry(p, n, cmd))
<1> DEFINE q == [p EXCEPT !.log = Append(@, [term |-> p.term, cmd |-> cmd]),
                          !.remotes[n] = TryUpdate(@, LastIndex(p) + 1)]
<1>1. Keeps(p, q)
  BY Zenon DEF Keeps, Shape
<1> HIDE DEF q
<1>2. Keeps(q, TryCommit(q))
  BY <1>1, CommitToKeeps, Zenon DEF TryCommit, Keeps
<1>3. AppendEntry(p, n, cmd) = IF IsSingleNodeQuorum(q) THEN TryCommit(q) ELSE q
  BY Zenon DEF AppendEntry, q
<1> QED
  BY <1>1, <1>2, <1>3, KeepsTransitive, Zenon

LEMMA BecomeLeaderDoes ==
    ASSUME NEW p, Shape(p), NEW n
    PROVE  LET q == BecomeLeader(p, n)
           IN  /\ Shape(q)
               /\ q.term = p.term /\ q.vote = p.vote /\ q.role = "leader"
               /\ q.members = p.members /\ q.snapshot = p.snapshot
<1> DEFINE q == [Reset(p, n, p.term) EXCEPT
                    !.role = "leader", !.leader = n,
                    !.pendingConfigChange = PendingConfigChanges(p) # {}]
<1>1. /\ Shape(q)
      /\ q.term = p.term /\ q.vote = p.vote /\ q.role = "leader"
      /\ q.members = p.members /\ q.snapshot = p.snapshot
  BY ResetDoes DEF Shape
<1>2. BecomeLeader(p, n) = AppendEntry(q, n, Noop)
  BY Zenon DEF BecomeLeader
<1> HIDE DEF q
<1> QED
  BY <1>1, <1>2, AppendEntryKeeps DEF Keeps

LEMMA SetRemoteKeeps ==
    ASSUME NEW p, Shape(p), NEW v, NEW r
    PROVE  Keeps(p, SetRemote(p, v, r))
  BY Zenon DEF SetRemote, Keeps, Shape

LEMMA TryCommitKeeps ==
    ASSUME NEW p, Shape(p)
    PROVE  Keeps(p, TryCommit(p))
  BY CommitToKeeps, Zenon DEF TryCommit, Keeps

LEMMA SendReplicatePlain ==
    ASSUME NEW p, Shape(p), p.role = "leader", NEW n, NEW T
    PROVE  Plain(p, n, SendReplicate(p, n, T))
<1> DEFINE S == {v \in T : CanSend(p, v)}
           msg(v) == IF NeedsSnapshot(p, v) THEN InstallSnapshotMsg(p, n, v)
                                            ELSE ReplicateMsg(p, n, v)
           q == [p EXCEPT !.remotes =
                   [v \in Node |-> IF v \in S THEN RemoteAfterSend(p, v) ELSE @[v]]]
<1>1. SendReplicate(p, n, T) = Result(q, {msg(v) : v \in S})
  BY Zenon DEF SendReplicate
<1>2. Keeps(p, q)
  BY Zenon DEF Keeps, Shape
<1>3. ASSUME NEW v PROVE MaySay(p, n, msg(v))
  BY Zenon DEF MaySay, InstallSnapshotMsg, ReplicateMsg, VoteTypes, LeaderTypes
<1> HIDE DEF q, msg, S
<1> QED
  BY <1>1, <1>2, <1>3 DEF Plain, Says, Result

LEMMA BroadcastReplicatePlain ==
    ASSUME NEW p, Shape(p), p.role = "leader", NEW n
    PROVE  Plain(p, n, BroadcastReplicate(p, n))
  BY SendReplicatePlain, Zenon DEF BroadcastReplicate

LEMMA BroadcastHeartbeatPlain ==
    ASSUME NEW p, Shape(p), p.role = "leader", NEW n, NEW ctx
    PROVE  Plain(p, n, BroadcastHeartbeat(p, n, ctx))
<1> DEFINE S == IF ctx = None THEN Others(p, n) ELSE p.members.voters \ {n}
<1>1. BroadcastHeartbeat(p, n, ctx) = Result(p, {HeartbeatMsg(p, n, v, ctx) : v \in S})
  BY Zenon DEF BroadcastHeartbeat
<1>2. ASSUME NEW v PROVE MaySay(p, n, HeartbeatMsg(p, n, v, ctx))
  BY Zenon DEF MaySay, HeartbeatMsg, VoteTypes, LeaderTypes
<1> HIDE DEF S
<1> QED
  BY <1>1, <1>2 DEF Plain, Says, Result, Keeps

LEMMA ProposePlain ==
    ASSUME NEW p, Shape(p), p.role = "leader", NEW n, NEW cmd
    PROVE  Plain(p, n, HandleLeaderPropose(p, n, cmd))
<1> DEFINE q == IF cmd \in ConfigChange THEN [p EXCEPT !.pendingConfigChange = TRUE] ELSE p
           e == IF cmd \in ConfigChange /\ p.pendingConfigChange THEN Noop ELSE cmd
<1>1. Keeps(p, q)
  BY Zenon DEF Keeps, Shape
<1>2. HandleLeaderPropose(p, n, cmd) =
          IF SelfRemoved(p, n) \/ p.transferTarget # None THEN Result(p, {})
          ELSE BroadcastReplicate(AppendEntry(q, n, e), n)
  BY Zenon DEF HandleLeaderPropose
<1> HIDE DEF q, e
<1>3. Keeps(p, AppendEntry(q, n, e))
  BY <1>1, AppendEntryKeeps, KeepsTransitive DEF Keeps
<1>4. Plain(p, n, BroadcastReplicate(AppendEntry(q, n, e), n))
  BY <1>3, BroadcastReplicatePlain, PlainAfter, Zenon DEF Keeps
<1>5. Keeps(p, p)
  BY Zenon DEF Keeps
<1> QED
  BY <1>2, <1>4, <1>5, PlainSilence, Zenon

LEMMA ReplicateRespPlain ==
    ASSUME NEW p, Shape(p), p.role = "leader", NEW n, NEW m
    PROVE  Plain(p, n, HandleLeaderReplicateResp(p, n, m))
<1> DEFINE v == m.from
           r == [p.remotes[v] EXCEPT !.active = TRUE]
           p1 == SetRemote(p, v, RespondedTo(TryUpdate(r, m.index)))
           p2 == SetRemote(p, v, TryUpdate(r, m.index))
           p3 == SetRemote(p, v, EnterRetryState(DecreaseTo(r, m.index, m.hint)))
           p4 == SetRemote(p, v, r)
           sent == IF WillCommit(p1) THEN BroadcastReplicate(TryCommit(p1), n)
                   ELSE IF IsPaused(r) THEN SendReplicate(p1, n, {v})
                   ELSE Result(p1, {})
           timeoutNow == IF p.transferTarget = v /\ m.index = LastIndex(p)
                         THEN {TimeoutNowMsg(p, n, v)} ELSE {}
<1>1. HandleLeaderReplicateResp(p, n, m) =
        IF ~ m.reject
        THEN IF IsNews(r, m.index) THEN Result(sent.p, sent.out \cup timeoutNow)
             ELSE Result(p2, {})
        ELSE IF CanDecrease(r, m.index) THEN SendReplicate(p3, n, {v}) ELSE Result(p4, {})
  BY Zenon DEF HandleLeaderReplicateResp
<1>2. Keeps(p, p1) /\ Keeps(p, p2) /\ Keeps(p, p3) /\ Keeps(p, p4)
  BY SetRemoteKeeps, Zenon
<1>3. Says(p, n, timeoutNow)
  BY DEF TimeoutNowMsg, Says, MaySay, VoteTypes, LeaderTypes
<1> HIDE DEF p1, p2, p3, p4, r, v, timeoutNow
<1>4. Plain(p, n, sent)
  <2>1. Keeps(p, TryCommit(p1))
    BY <1>2, TryCommitKeeps, KeepsTransitive DEF Keeps
  <2>2. Plain(p, n, BroadcastReplicate(TryCommit(p1), n))
    BY <2>1, BroadcastReplicatePlain, PlainAfter, Zenon DEF Keeps
  <2>3. Plain(p, n, SendReplicate(p1, n, {v}))
    BY <1>2, SendReplicatePlain, PlainAfter, Zenon DEF Keeps
  <2>4. Plain(p, n, Result(p1, {}))
    BY <1>2, PlainSilence, Zenon
  <2> QED
    BY <2>2, <2>3, <2>4, Zenon
<1> HIDE DEF sent
<1>5. Plain(p, n, Result(sent.p, sent.out \cup timeoutNow))
  BY <1>3, <1>4, Zenon DEF Plain, Says, Result
<1>6. Plain(p, n, SendReplicate(p3, n, {v}))
  BY <1>2, SendReplicatePlain, PlainAfter, Zenon DEF Keeps
<1>7. Plain(p, n, Result(p2, {})) /\ Plain(p, n, Result(p4, {}))
  BY <1>2, PlainSilence, Zenon
<1> QED
  BY <1>1, <1>5, <1>6, <1>7, Zenon

LEMMA SnapshotStatusPlain ==
    ASSUME NEW p, Shape(p), NEW n, NEW v, NEW reject
    PROVE  Plain(p, n, Result(HandleLeaderSnapshotStatus(p, v, reject), {}))
  BY SetRemoteKeeps, PlainSilence, Zenon DEF HandleLeaderSnapshotStatus

LEMMA UnreachablePlain ==
    ASSUME NEW p, Shape(p), NEW n, NEW v
    PROVE  Plain(p, n, Result(HandleLeaderUnreachable(p, v), {}))
  BY SetRemoteKeeps, PlainSilence, Zenon DEF HandleLeaderUnreachable

LEMMA LeaderTransferPlain ==
    ASSUME NEW p, Shape(p), NEW n, NEW from, NEW target
    PROVE  Plain(p, n, HandleLeaderLeaderTransfer(p, n, from, target))
<1> DEFINE q == [p EXCEPT !.transferTarget = target]
           out == IF p.remotes[from].match = LastIndex(p)
                  THEN {TimeoutNowMsg(p, n, target)} ELSE {}
<1>1. Keeps(p, q) /\ Keeps(p, p)
  BY Zenon DEF Keeps, Shape
<1>2. Says(p, n, out)
  BY DEF TimeoutNowMsg, Says, MaySay, VoteTypes, LeaderTypes
<1>3. HandleLeaderLeaderTransfer(p, n, from, target) =
          IF p.transferTarget # None \/ target = n THEN Result(p, {}) ELSE Result(q, out)
  BY Zenon DEF HandleLeaderLeaderTransfer
<1> HIDE DEF q, out
<1>4. Plain(p, n, Result(q, out))
  BY <1>1, <1>2, Zenon DEF Plain, Result
<1> QED
  BY <1>1, <1>3, <1>4, PlainSilence, Zenon

LEMMA LeaderReadIndexPlain ==
    ASSUME NEW p, Shape(p), p.role = "leader", NEW n, NEW from, NEW ctx
    PROVE  Plain(p, n, HandleLeaderReadIndex(p, n, from, ctx))
<1> DEFINE known == \E i \in 1..Len(p.reads) : p.reads[i].ctx = ctx
           req == [ctx |-> ctx, index |-> p.committed, from |-> from, acks |-> {}]
           q == IF known THEN p ELSE [p EXCEPT !.reads = Append(@, req)]
           r == [p EXCEPT !.readyToRead = @ \cup {[ctx |-> ctx, index |-> p.committed]}]
           out == IF from # n /\ from \in p.members.observers
                  THEN {ReadIndexRespMsg(p, n, from, ctx, p.committed)} ELSE {}
<1>1. Keeps(p, p) /\ Keeps(p, q) /\ Keeps(p, r)
  BY Zenon DEF Keeps, Shape
<1>2. Says(p, n, out)
  BY DEF ReadIndexRespMsg, Says, MaySay, VoteTypes, LeaderTypes
<1>3. HandleLeaderReadIndex(p, n, from, ctx) =
          IF ~ IsSingleNodeQuorum(p)
          THEN IF ~ HasCommittedEntryAtCurrentTerm(p) THEN Result(p, {})
               ELSE BroadcastHeartbeat(q, n, ctx)
          ELSE Result(r, out)
  BY Zenon DEF HandleLeaderReadIndex
<1> HIDE DEF q, r, out, known, req
<1>4. Plain(p, n, Result(r, out))
  BY <1>1, <1>2, Zenon DEF Plain, Result
<1>5. Plain(p, n, BroadcastHeartbeat(q, n, ctx))
  BY <1>1, BroadcastHeartbeatPlain, PlainAfter, Zenon DEF Keeps
<1> QED
  BY <1>1, <1>3, <1>4, <1>5, PlainSilence, Zenon

LEMMA ConfirmationPlain ==
    ASSUME NEW p, Shape(p), NEW n, NEW from, NEW ctx
    PROVE  Plain(p, n, HandleReadIndexLeaderConfirmation(p, n, from, ctx))
<1> DEFINE k == CHOOSE i \in 1..Len(p.reads) : p.reads[i].ctx = ctx
           acks == p.reads[k].acks \cup {from}
           done == {p.reads[i] : i \in 1..k}
           index == p.reads[k].index
           q == [p EXCEPT !.reads[k].acks = acks]
           ready == {[ctx |-> s.ctx, index |-> index] : s \in {s \in done : s.from = n}}
           r == [p EXCEPT !.reads = SubSeq(@, k + 1, Len(@)),
                          !.readyToRead = @ \cup ready]
           S == {s \in done : s.from # n}
           out == {ReadIndexRespMsg(p, n, s.from, ctx, index) : s \in S}
<1>1. Keeps(p, p) /\ Keeps(p, q) /\ Keeps(p, r)
  <2> HIDE DEF k, acks, ready
  <2> QED
    BY Zenon DEF Keeps, Shape
<1>2. ASSUME NEW s PROVE MaySay(p, n, ReadIndexRespMsg(p, n, s.from, ctx, index))
  BY Zenon DEF ReadIndexRespMsg, MaySay, VoteTypes, LeaderTypes
<1>3. HandleReadIndexLeaderConfirmation(p, n, from, ctx) =
          IF ~ \E i \in 1..Len(p.reads) : p.reads[i].ctx = ctx THEN Result(p, {})
          ELSE IF Cardinality(acks) + 1 < Quorum(p) THEN Result(q, {})
          ELSE Result(r, out)
  BY Zenon DEF HandleReadIndexLeaderConfirmation
<1> HIDE DEF q, r, S, index, acks
<1>4. Plain(p, n, Result(r, out))
  BY <1>1, <1>2, Zenon DEF Plain, Result, Says
<1> HIDE DEF out
<1> QED
  BY <1>1, <1>3, <1>4, PlainSilence, Zenon

LEMMA HeartbeatRespPlain ==
    ASSUME NEW p, Shape(p), p.role = "leader", NEW n, NEW m
    PROVE  Plain(p, n, HandleLeaderHeartbeatResp(p, n, m))
<1> DEFINE v == m.from
           r == WaitToRetry([p.remotes[v] EXCEPT !.active = TRUE])
           q == SetRemote(p, v, r)
           sent == IF r.match < LastIndex(p) THEN SendReplicate(q, n, {v})
                                             ELSE Result(q, {})
           conf == HandleReadIndexLeaderConfirmation(sent.p, n, v, m.ctx)
<1>1. HandleLeaderHeartbeatResp(p, n, m) =
          IF m.ctx = None THEN sent ELSE Result(conf.p, sent.out \cup conf.out)
  BY Zenon DEF HandleLeaderHeartbeatResp
<1>2. Keeps(p, q)
  BY SetRemoteKeeps, Zenon
<1> HIDE DEF q, r, v
<1>3. Plain(p, n, sent)
  <2>1. Plain(p, n, SendReplicate(q, n, {v}))
    BY <1>2, SendReplicatePlain, PlainAfter, Zenon DEF Keeps
  <2>2. Plain(p, n, Result(q, {}))
    BY <1>2, PlainSilence, Zenon
  <2> QED
    BY <2>1, <2>2, Zenon
<1> HIDE DEF sent
<1>4. Plain(p, n, conf)
  BY <1>3, ConfirmationPlain, PlainAfter DEF Plain, Keeps
<1> HIDE DEF conf
<1>5. Plain(p, n, Result(conf.p, sent.out \cup conf.out))
  BY <1>3, <1>4, Zenon DEF Plain, Says, Result
<1> QED
  BY <1>1, <1>3, <1>5, Zenon

---------------------------------------------------------------------------
\* Handlers that may make the node a follower, or that bring a membership.

\* The memberships that node n, in state p, knows of or can learn of.
KnownMembers(ns, p) ==
    {p.members, p.snapshot.members}
      \cup {m.ss.members : m \in {m \in ns : m.type = "InstallSnapshot"}}

Quiet(ns, p, n, res) ==
    /\ Abides(p, res.p)
    /\ Says(p, n, res.out)
    /\ res.p.members \in KnownMembers(ns, p)
    /\ res.p.snapshot.members \in KnownMembers(ns, p)

LEMMA PlainIsQuiet ==
    ASSUME NEW ns, NEW p, NEW n, NEW res, Plain(p, n, res)
    PROVE  Quiet(ns, p, n, res)
  BY KeepsAbides, Zenon DEF Plain, Quiet, Keeps, KnownMembers

LEMMA FollowLeaderAbides ==
    ASSUME NEW p, Shape(p), NEW n, NEW m
    PROVE  LET q == FollowLeader(p, n, m)
           IN  Abides(p, q) /\ q.members = p.members /\ q.snapshot = p.snapshot
<1>1. CASE p.role = "candidate"
  BY <1>1, BecomeFollowerDoes DEF FollowLeader, Abides
<1>2. CASE p.role # "candidate"
  BY <1>2, Zenon DEF FollowLeader, Abides, Shape
<1> QED
  BY <1>1, <1>2, Zenon

LEMMA ReplicateQuiet ==
    ASSUME NEW ns, NEW p, Shape(p), NEW n, NEW m
    PROVE  Quiet(ns, p, n, HandleReplicate(p, n, m))
<1> DEFINE q == FollowLeader(p, n, m)
           q1 == TryAppend(q, m.prev, m.entries)
           lastIdx == m.prev + Len(m.entries)
           q2 == CommitTo(q1, MinOf(lastIdx, m.commit))
           a == {ReplicateRespMsg(q, n, m.from, FALSE, q.committed, 0)}
           b == {ReplicateRespMsg(q, n, m.from, FALSE, lastIdx, 0)}
           c == {ReplicateRespMsg(q, n, m.from, TRUE, m.prev, LastIndex(q))}
<1>1. HandleReplicate(p, n, m) =
          IF m.prev < q.committed THEN Result(q, a)
          ELSE IF MatchTerm(q, m.prev, m.prevTerm) THEN Result(q2, b)
          ELSE Result(q, c)
  BY Zenon DEF HandleReplicate
<1>2. Abides(p, q) /\ q.members = p.members /\ q.snapshot = p.snapshot
  BY FollowLeaderAbides, Zenon
<1> HIDE DEF q, lastIdx
<1>3. Says(p, n, a) /\ Says(p, n, b) /\ Says(p, n, c)
  BY <1>2 DEF ReplicateRespMsg, Says, MaySay, VoteTypes, LeaderTypes, Abides
<1> HIDE DEF a, b, c
<1>4. Keeps(q, q1)
  BY <1>2, Zenon DEF TryAppend, Keeps, Abides, Shape
<1> HIDE DEF q1
<1>5. Keeps(q, q2)
  BY <1>4, CommitToKeeps, KeepsTransitive DEF Keeps
<1> HIDE DEF q2
<1>6. Abides(p, q2) /\ q2.members = p.members /\ q2.snapshot = p.snapshot
  BY <1>2, <1>5, Zenon DEF Keeps, Abides
<1> QED
  BY <1>1, <1>2, <1>3, <1>6 DEF Quiet, KnownMembers, Result

LEMMA HeartbeatQuiet ==
    ASSUME NEW ns, NEW p, Shape(p), NEW n, NEW m
    PROVE  Quiet(ns, p, n, HandleHeartbeat(p, n, m))
<1> DEFINE q == FollowLeader(p, n, m)
           q1 == CommitTo(q, m.commit)
           a == {HeartbeatRespMsg(q, n, m.from, m.ctx)}
<1>1. HandleHeartbeat(p, n, m) = Result(q1, a)
  BY Zenon DEF HandleHeartbeat
<1>2. Abides(p, q) /\ q.members = p.members /\ q.snapshot = p.snapshot
  BY FollowLeaderAbides, Zenon
<1> HIDE DEF q
<1>3. Says(p, n, a)
  BY <1>2 DEF HeartbeatRespMsg, Says, MaySay, VoteTypes, LeaderTypes, Abides
<1>4. Keeps(q, q1)
  BY <1>2, CommitToKeeps, Zenon DEF Abides
<1> HIDE DEF q1, a
<1>5. Abides(p, q1) /\ q1.members = p.members /\ q1.snapshot = p.snapshot
  BY <1>2, <1>4, Zenon DEF Keeps, Abides
<1> QED
  BY <1>1, <1>3, <1>5 DEF Quiet, KnownMembers, Result

LEMMA InstallSnapshotQuiet ==
    ASSUME NEW p, Shape(p), NEW n, NEW ns, NEW m \in ns, m.type = "InstallSnapshot"
    PROVE  Quiet(ns, p, n, HandleInstallSnapshot(p, n, m))
<1> DEFINE q == FollowLeader(p, n, m)
           q1 == Restore(q, m.ss)
           a == {ReplicateRespMsg(q1, n, m.from, FALSE, q1.committed, 0)}
<1>1. HandleInstallSnapshot(p, n, m) = Result(q1, a)
  BY Zenon DEF HandleInstallSnapshot
<1>2. Abides(p, q) /\ q.members = p.members /\ q.snapshot = p.snapshot
  BY FollowLeaderAbides, Zenon
<1> HIDE DEF q
<1>3. /\ Abides(p, q1) /\ q1.members = p.members
      /\ q1.snapshot.members \in {p.snapshot.members, m.ss.members}
  <2>1. CASE q1 = q
    BY <1>2, <2>1, Zenon
  <2>2. CASE q1 = CommitTo(q, Len(m.ss.log))
    BY <1>2, <2>2, CommitToKeeps DEF Keeps, Abides
  <2>3. CASE q1 = RestoreLog(q, m.ss)
    BY <1>2, <2>3 DEF RestoreLog, Abides, Shape
  <2>4. q1 = q \/ q1 = CommitTo(q, Len(m.ss.log)) \/ q1 = RestoreLog(q, m.ss)
    BY Zenon DEF Restore
  <2> QED
    BY <2>1, <2>2, <2>3, <2>4, Zenon
<1> HIDE DEF q1
<1>4. Says(p, n, a)
  BY <1>3 DEF ReplicateRespMsg, Says, MaySay, VoteTypes, LeaderTypes, Abides
<1> HIDE DEF a
<1> QED
  BY <1>1, <1>3, <1>4 DEF Quiet, KnownMembers, Result

LEMMA FollowerReadIndexPlain ==
    ASSUME NEW p, Shape(p), NEW n, NEW ctx
    PROVE  Plain(p, n, HandleFollowerReadIndex(p, n, ctx))
  BY DEF HandleFollowerReadIndex, ReadIndexMsg, Result, Plain, Keeps, Says, MaySay,
         VoteTypes, LeaderTypes

LEMMA FollowerLeaderTransferPlain ==
    ASSUME NEW p, Shape(p), NEW n, NEW target
    PROVE  Plain(p, n, HandleFollowerLeaderTransfer(p, n, target))
  BY DEF HandleFollowerLeaderTransfer, LeaderTransferMsg, Result, Plain, Keeps, Says, MaySay,
         VoteTypes, LeaderTypes

LEMMA ReadIndexRespPlain ==
    ASSUME NEW p, Shape(p), NEW n, NEW m
    PROVE  Plain(p, n, HandleReadIndexResp(p, m))
  BY Zenon DEF HandleReadIndexResp, Result, Plain, Keeps, Says, Shape

LEMMA ElectionTimeoutQuiet ==
    ASSUME NEW ns, NEW p, Shape(p), NEW n
    PROVE  Quiet(ns, p, n, Result(HandleLeaderElectionTimeout(p, n), {}))
<1> DEFINE active(v) == p.remotes[v].active /\ v \notin p.members.voters
           p1 == [p EXCEPT !.remotes = [v \in Node |->
                     [p.remotes[v] EXCEPT !.active = active(v)]]]
           a == [p1 EXCEPT !.transferTarget = None]
           b == BecomeFollower(p1, n, p.term, None)
           c == [p EXCEPT !.transferTarget = None]
<1>1. HandleLeaderElectionTimeout(p, n) \in {a, b, c}
  BY Zenon DEF HandleLeaderElectionTimeout
<1>2. Keeps(p, p1) /\ Keeps(p, c)
  BY Zenon DEF Keeps, Shape
<1> HIDE DEF p1
<1>3. Keeps(p, a)
  BY <1>2, Zenon DEF Keeps, Shape
<1>4. Abides(p, b) /\ b.members = p.members /\ b.snapshot = p.snapshot
  BY <1>2, BecomeFollowerDoes DEF Keeps, Abides
<1> HIDE DEF a, b, c
<1> QED
  BY <1>1, <1>2, <1>3, <1>4, KeepsAbides, Zenon DEF Quiet, KnownMembers, Result, Says, Keeps

LEMMA RestoreRemotesQuiet ==
    ASSUME NEW ns, NEW p, Shape(p), NEW n, NEW i
    PROVE  Quiet(ns, p, n, Result(RestoreRemotes([p EXCEPT !.applied = i], n,
                                             p.snapshot.members), {}))
<1> DEFINE q == [p EXCEPT !.applied = i]
           ms == p.snapshot.members
           q1 == IF ms.voters \cap q.members.observers # {}
                 THEN BecomeFollower(q, n, q.term, q.leader) ELSE q
           q2 == [q1 EXCEPT !.members = ms, !.remotes = ResetRemotes(q, n)]
<1>1. RestoreRemotes(q, n, ms) = q2
  BY Zenon DEF RestoreRemotes
<1>2. Keeps(p, q)
  BY Zenon DEF Keeps, Shape
<1> HIDE DEF q
<1>3. Abides(p, q1) /\ q1.snapshot = p.snapshot
  BY <1>2, BecomeFollowerDoes DEF Keeps, Abides
<1> HIDE DEF q1
<1>4. Abides(p, q2) /\ q2.snapshot = p.snapshot /\ q2.members = p.snapshot.members
  BY <1>3, Zenon DEF Abides, Shape
<1> HIDE DEF q2
<1>5. Quiet(ns, p, n, Result(q2, {}))
  BY <1>4, Zenon DEF Quiet, KnownMembers, Result, Says
<1> QED
  BY <1>1, <1>5, Zenon DEF q

---------------------------------------------------------------------------
\* Terms, elections, membership changes.

\* Before a message is handled the node may have moved to its term.
Stepped(p, q) ==
    /\ q.term \in Nat
    /\ \/ Keeps(p, q)
       \/ /\ Shape(q)
          /\ q.term > p.term /\ q.vote = None /\ q.role \in {"follower", "observer"}
          /\ q.members = p.members /\ q.snapshot = p.snapshot

\* A config change has been applied.
Reconfigures(p, n, res) ==
    /\ ConfigChange # {}
    /\ Abides(p, res.p)
    /\ \A m \in res.out : m.term = p.term /\ m.type \notin VoteTypes

\* A campaign has begun, and is won at once by the only voter.
Campaigns(p, n, res) ==
    /\ n \in p.members.voters
    /\ Shape(res.p)
    /\ res.p.term = p.term + 1 /\ res.p.vote = n
    /\ res.p.members = p.members /\ res.p.snapshot = p.snapshot
    /\ \/ /\ res.p.role = "candidate" /\ res.p.granted = {n} /\ res.out # {}
          /\ \A m \in res.out : /\ m.type = "RequestVote"
                                /\ m.from = n /\ m.term = p.term + 1
       \/ res.p.role = "leader" /\ res.out = {} /\ Quorum(p) = 1

\* The vote requested by m has been granted or refused.
Votes(p, n, m, res) ==
    /\ m.type = "RequestVote" /\ m.term \in {0, p.term}
    /\ Shape(res.p)
    /\ res.p.term = p.term /\ res.p.role = p.role /\ res.p.granted = p.granted
    /\ res.p.members = p.members /\ res.p.snapshot = p.snapshot
    /\ \/ p.vote \in {None, m.from} /\ res.p.vote = m.from
       \/ res.p.vote = p.vote
    /\ \A r \in res.out : /\ r.type = "RequestVoteResp" /\ r.from = n
                          /\ r.to = m.from /\ r.term = p.term
                          /\ ~ r.reject => res.p.vote = m.from

\* The answer m to a vote request has been counted.
CountsVote(p, n, m, res) ==
    /\ m.type = "RequestVoteResp" /\ m.term \in {0, p.term} /\ m.to = n
    /\ p.role = "candidate"
    /\ Shape(res.p)
    /\ res.p.term = p.term /\ res.p.vote = p.vote
    /\ res.p.members = p.members /\ res.p.snapshot = p.snapshot
    /\ \E granted \in {p.granted, p.granted \cup {m.from}} :
          /\ granted # p.granted => ~ m.reject /\ m.from \in p.members.voters
          /\ \/ res.p.role = "follower" /\ res.out = {}
             \/ res.p.role = "candidate" /\ res.p.granted = granted /\ res.out = {}
             \/ /\ res.p.role = "leader" /\ Cardinality(granted) = Quorum(p)
                /\ Says(res.p, n, res.out)

LEMMA SteppedStays ==
    ASSUME NEW p, Shape(p), p.term \in Nat
    PROVE  Stepped(p, p)
  BY Zenon DEF Stepped, Keeps

LEMMA StepTermSteps ==
    ASSUME NEW p, Shape(p), p.term \in Nat, NEW n, NEW m, m.term \in Nat
    PROVE  /\ Stepped(p, StepTerm(p, n, m))
           /\ StepTerm(p, n, m).term = (IF m.term <= p.term THEN p.term ELSE m.term)
           /\ StepTerm(p, n, m).role \in {"candidate", "leader"} => m.term <= p.term
<1> DEFINE l == IF IsLeaderMessage(m) THEN m.from ELSE None
<1>1. StepTerm(p, n, m) = IF m.term <= p.term THEN p
                          ELSE IF p.role = "observer" THEN BecomeObserver(p, n, m.term, l)
                          ELSE BecomeFollower(p, n, m.term, l)
  BY Zenon DEF StepTerm
<1> HIDE DEF l
<1>2. CASE m.term <= p.term
  BY <1>1, <1>2, SteppedStays, Zenon
<1>3. CASE m.term > p.term /\ p.role # "observer"
  BY <1>1, <1>3, BecomeFollowerDoes DEF Stepped
<1>4. CASE m.term > p.term /\ p.role = "observer"
  <2>1. /\ Shape(BecomeObserver(p, n, m.term, l))
        /\ BecomeObserver(p, n, m.term, l).term = m.term
        /\ BecomeObserver(p, n, m.term, l).vote = None
        /\ BecomeObserver(p, n, m.term, l).role = "observer"
        /\ BecomeObserver(p, n, m.term, l).members = p.members
        /\ BecomeObserver(p, n, m.term, l).snapshot = p.snapshot
    BY <1>4, ResetDoes DEF BecomeObserver, Shape
  <2> QED
    BY <1>1, <1>4, <2>1 DEF Stepped
<1> QED
  BY <1>2, <1>3, <1>4

LEMMA CampaignCampaigns ==
    ASSUME SizeFacts, NEW p, Shape(p), NEW n, NEW transfer, CanCampaign(p, n)
    PROVE  Campaigns(p, n, Campaign(p, n, transfer))
<1> DEFINE q == BecomeCandidate(p, n)
           out == {RequestVoteMsg(q, n, v, transfer) : v \in p.members.voters \ {n}}
<1>1. Campaign(p, n, transfer) = IF IsSingleNodeQuorum(q) THEN Result(BecomeLeader(q, n), {})
                                 ELSE Result(q, out)
  BY Zenon DEF Campaign
<1>2. /\ Shape(q) /\ q.term = p.term + 1 /\ q.vote = n
      /\ q.role = "candidate" /\ q.granted = {n}
      /\ q.members = p.members /\ q.snapshot = p.snapshot
  BY ResetDoes DEF BecomeCandidate, Shape
<1> HIDE DEF q
<1>3. n \in p.members.voters
  BY Zenon DEF CanCampaign, SelfRemoved
<1>4. \A m \in out : m.type = "RequestVote" /\ m.from = n /\ m.term = p.term + 1
  BY <1>2 DEF RequestVoteMsg
<1>5. ~ IsSingleNodeQuorum(q) => out # {}
  <2>1. p.members.voters = {n} => Quorum(p) = 1
    <3>1. Cardinality({n}) = 1
      BY Zenon DEF SizeFacts
    <3> QED
      BY <3>1 DEF Quorum
  <2>2. ~ IsSingleNodeQuorum(q) => p.members.voters \ {n} # {}
    BY <1>2, <1>3, <2>1, Zenon DEF IsSingleNodeQuorum, Quorum
  <2> QED
    BY <2>2, Zenon
<1> HIDE DEF out
<1>6. IsSingleNodeQuorum(q) <=> Quorum(p) = 1
  BY <1>2, Zenon DEF IsSingleNodeQuorum, Quorum
<1>7. /\ Shape(BecomeLeader(q, n)) /\ BecomeLeader(q, n).term = q.term
      /\ BecomeLeader(q, n).vote = q.vote /\ BecomeLeader(q, n).role = "leader"
      /\ BecomeLeader(q, n).members = q.members /\ BecomeLeader(q, n).snapshot = q.snapshot
  BY <1>2, BecomeLeaderDoes
<1> QED
  BY <1>1, <1>2, <1>3, <1>4, <1>5, <1>6, <1>7 DEF Campaigns, Result

LEMMA RequestVoteVotes ==
    ASSUME NEW p, Shape(p), NEW n, NEW m, m.type = "RequestVote", m.term \in {0, p.term}
    PROVE  Votes(p, n, m, HandleRequestVote(p, n, m))
<1> DEFINE grant == /\ p.vote \in {None, m.from}
                    /\ UpToDate(p, m.lastIndex, m.lastTerm)
           q == IF grant THEN [p EXCEPT !.vote = m.from] ELSE p
<1>1. HandleRequestVote(p, n, m) = Result(q, {RequestVoteRespMsg(p, n, m.from, ~ grant)})
  BY Zenon DEF HandleRequestVote
<1>2. /\ Shape(q) /\ q.term = p.term /\ q.role = p.role /\ q.granted = p.granted
      /\ q.members = p.members /\ q.snapshot = p.snapshot
      /\ q.vote = IF grant THEN m.from ELSE p.vote
  BY Zenon DEF Shape
<1>3. grant => p.vote \in {None, m.from}
  BY Zenon
<1> DEFINE r == RequestVoteRespMsg(p, n, m.from, ~ grant)
<1>4. /\ r.type = "RequestVoteResp" /\ r.from = n /\ r.to = m.from /\ r.term = p.term
      /\ r.reject = ~ grant
  BY Zenon DEF RequestVoteRespMsg
<1>5. HandleRequestVote(p, n, m) = Result(q, {r})
  BY <1>1, Zenon
<1> HIDE DEF q, grant, r
<1>6. ~ r.reject => grant
  BY <1>4, Zenon
<1> QED
  BY <1>2, <1>3, <1>4, <1>5, <1>6 DEF Votes, Result

LEMMA VoteRespCounts ==
    ASSUME NEW p, Shape(p), p.role = "candidate", NEW n, NEW m, m.to = n,
           m.type = "RequestVoteResp", m.term \in {0, p.term}, IsMember(p, m.from)
    PROVE  CountsVote(p, n, m, HandleRequestVoteResp(p, n, m))
<1> DEFINE q == HandleVoteResp(p, m)
           l == BecomeLeader(q, n)
           f == BecomeFollower(q, n, p.term, None)
<1>1. HandleRequestVoteResp(p, n, m) =
          IF m.from \in p.members.observers THEN Result(p, {})
          ELSE IF Cardinality(q.granted) = Quorum(p) THEN BroadcastReplicate(l, n)
          ELSE IF Cardinality(q.rejected) = Quorum(p) THEN Result(f, {})
          ELSE Result(q, {})
  BY Zenon DEF HandleRequestVoteResp
<1>2. /\ Shape(q) /\ q.term = p.term /\ q.vote = p.vote /\ q.role = "candidate"
      /\ q.members = p.members /\ q.snapshot = p.snapshot
      /\ \/ q.granted = p.granted
         \/ ~ m.reject /\ q.granted = p.granted \cup {m.from}
  BY Zenon DEF HandleVoteResp, Shape
<1> HIDE DEF q
<1>3. /\ Shape(l) /\ l.term = p.term /\ l.vote = p.vote /\ l.role = "leader"
      /\ l.members = p.members /\ l.snapshot = p.snapshot
  BY <1>2, BecomeLeaderDoes
<1> HIDE DEF l
<1>4. Plain(l, n, BroadcastReplicate(l, n))
  BY <1>3, BroadcastReplicatePlain, Zenon
<1>5. /\ Shape(f) /\ f.term = p.term /\ f.vote = p.vote /\ f.role = "follower"
      /\ f.members = p.members /\ f.snapshot = p.snapshot
  BY <1>2, BecomeFollowerDoes
<1> HIDE DEF f
<1>6. CASE m.from \in p.members.observers
  BY <1>1, <1>6 DEF CountsVote, Result
<1>7. CASE m.from \notin p.members.observers
  <2>1. m.from \in p.members.voters
    BY <1>7, Zenon DEF IsMember
  <2>2. CASE Cardinality(q.granted) = Quorum(p)
    <3> DEFINE res == BroadcastReplicate(l, n)
    <3>1. Keeps(l, res.p) /\ Says(l, n, res.out)
      BY <1>4, Zenon DEF Plain
    <3> HIDE DEF res
    <3>2. Says(res.p, n, res.out)
      BY <3>1, Zenon DEF Says, MaySay, Keeps
    <3>3. CountsVote(p, n, m, res)
      BY <1>2, <1>3, <2>1, <2>2, <3>1, <3>2, Zenon DEF CountsVote, Keeps
    <3> QED
      BY <1>1, <1>7, <2>2, <3>3, Zenon DEF res
  <2>3. CASE Cardinality(q.granted) # Quorum(p)
    BY <1>1, <1>2, <1>5, <1>7, <2>1, <2>3 DEF CountsVote, Result
  <2> QED
    BY <2>2, <2>3, Zenon
<1> QED
  BY <1>6, <1>7, Zenon

LEMMA SendReplicateKeeps ==
    ASSUME NEW p, Shape(p), NEW n, NEW T
    PROVE  LET res == SendReplicate(p, n, T)
           IN  /\ Keeps(p, res.p)
               /\ \A m \in res.out : m.term = p.term /\ m.type \notin VoteTypes
<1> DEFINE S == {v \in T : CanSend(p, v)}
           msg(v) == IF NeedsSnapshot(p, v) THEN InstallSnapshotMsg(p, n, v)
                                            ELSE ReplicateMsg(p, n, v)
           q == [p EXCEPT !.remotes =
                   [v \in Node |-> IF v \in S THEN RemoteAfterSend(p, v) ELSE @[v]]]
<1>1. SendReplicate(p, n, T) = Result(q, {msg(v) : v \in S})
  BY Zenon DEF SendReplicate
<1>2. Keeps(p, q)
  BY Zenon DEF Keeps, Shape
<1>3. ASSUME NEW v PROVE msg(v).term = p.term /\ msg(v).type \notin VoteTypes
  BY Zenon DEF InstallSnapshotMsg, ReplicateMsg, VoteTypes
<1> HIDE DEF q, msg, S
<1> QED
  BY <1>1, <1>2, <1>3 DEF Result

LEMMA ConfigChangeReconfigures ==
    ASSUME NEW p, Shape(p), NEW n, NEW i, NEW cc \in ConfigChange
    PROVE  Reconfigures(p, n, HandleConfigChange([p EXCEPT !.applied = i], n, cc))
<1> DEFINE q == [p EXCEPT !.applied = i]
           q1 == [q EXCEPT !.pendingConfigChange = FALSE]
           members == ChangedMembers(q.members, cc)
           Changed(x) == [x EXCEPT !.members = members]
           res == HandleConfigChange(q, n, cc)
           x == Changed(q1)
           a == AddNode(q1, n, cc.node)
           b == SetRemote(x, cc.node, NewRemote(0, LastIndex(q) + 1))
           c == RemoveNode(x, n, cc.node)
<1>1. res = IF ~ ConfigChangeAccepted(q.members, cc) THEN Result(q1, {})
            ELSE CASE cc.type = "AddNode" -> Result(Changed(a), {})
                   [] cc.type = "AddObserver" -> Result(b, {})
                   [] cc.type = "RemoveNode" -> c
  BY Zenon DEF HandleConfigChange
<1>2. cc.type \in {"AddNode", "AddObserver", "RemoveNode"}
  BY ConfigChangeAssumption, Zenon
<1>3. res \in {Result(q1, {}), Result(Changed(a), {}), Result(b, {}), c}
  BY <1>1, <1>2, Zenon
<1>4. Abides(p, q1)
  BY Zenon DEF Abides, Shape
<1> HIDE DEF q1, q, members
<1>5. Abides(p, x)
  BY <1>4, Zenon DEF Abides, Shape
<1>6. Abides(p, Changed(a))
  <2>1. Abides(p, a)
    BY <1>4, BecomeFollowerDoes, SetRemoteKeeps DEF AddNode, Abides, Keeps
  <2> HIDE DEF a
  <2> QED
    BY <2>1, Zenon DEF Abides, Shape
<1> HIDE DEF a, res, x
<1>7. Abides(p, b)
  BY <1>5, SetRemoteKeeps DEF Abides, Keeps
<1> HIDE DEF b
<1>8. Abides(p, c.p) /\ \A m \in c.out : m.term = p.term /\ m.type \notin VoteTypes
  <2> DEFINE y == [x EXCEPT !.transferTarget = IF @ = cc.node THEN None ELSE @]
             z == TryCommit(y)
             d == BroadcastReplicate(z, n)
  <2>1. c = IF WillCommit(y) THEN d ELSE Result(y, {})
    BY Zenon DEF RemoveNode
  <2> HIDE DEF c
  <2>3. Abides(p, y)
    BY <1>5, Zenon DEF Abides, Shape
  <2> HIDE DEF y
  <2>4. Abides(p, z)
    BY <2>3, TryCommitKeeps, Zenon DEF Abides, Keeps
  <2> HIDE DEF z
  <2>5. Keeps(z, d.p) /\ \A m \in d.out : m.term = z.term /\ m.type \notin VoteTypes
    BY <2>4, SendReplicateKeeps, Zenon DEF BroadcastReplicate, Abides
  <2> HIDE DEF d
  <2> QED
    BY <2>1, <2>3, <2>4, <2>5, Zenon DEF Abides, Keeps, Result
<1> HIDE DEF c
<1>9. Reconfigures(p, n, res)
  BY <1>3, <1>4, <1>6, <1>7, <1>8 DEF Reconfigures, Result
<1> QED
  BY <1>9, Zenon DEF res, q

---------------------------------------------------------------------------
\* Every step of a node is an iteration of its step engine that does one of
\* these moves, a snapshot saved or a crash.

\* What an iteration of node n's step engine makes of the node.
Moves(n, p, res) ==
    /\ Stepped(peer[n], p)
    /\ \/ Quiet(net, p, n, res) \/ Reconfigures(p, n, res) \/ Campaigns(p, n, res)
       \/ \E m \in net : Votes(p, n, m, res) \/ CountsVote(p, n, m, res)

\* Only forwarded read requests are taken from the network.
Kept(rest) == rest \subseteq net /\ \A m \in net \ rest : m.type = "ReadIndex"

Iterates(n) ==
    \E p, res, rest, rds :
        /\ Moves(n, p, res) /\ Kept(rest)
        /\ Complete(n, res, rest, rds) \/ DieBeforeSave(n, res, rest, rds)

LEMMA IterateWithIterates ==
    ASSUME NEW n, NEW p, NEW res, NEW rest, NEW rds,
           Moves(n, p, res), Kept(rest), IterateWith(n, res, rest, rds)
    PROVE  Iterates(n)
  BY Zenon DEF IterateWith, Iterates

LEMMA IterateIterates ==
    ASSUME NEW n, NEW p, NEW res, Moves(n, p, res), Iterate(n, res)
    PROVE  Iterates(n)
  BY IterateWithIterates, Zenon DEF Iterate, Kept

LEMMA PlainMoves ==
    ASSUME VInv, NEW n \in Node, NEW res, Plain(peer[n], n, res)
    PROVE  Moves(n, peer[n], res)
  BY PlainIsQuiet, SteppedStays, Zenon DEF VInv, Moves

LEMMA LocalEventIterates ==
    ASSUME SizeFacts, VInv, NEW n \in Node,
           \/ Election(n) \/ LeaderHeartbeat(n) \/ LeaderElectionTimeout(n)
           \/ \E cmd \in Env.proposals : Propose(n, cmd)
           \/ \E target \in Env.transfers : RequestLeaderTransfer(n, target)
           \/ \E ctx \in Env.reads : RequestRead(n, ctx)
           \/ \E v \in Node, reject \in BOOLEAN : ReportSnapshotStatus(n, v, reject)
           \/ \E v \in Node : ReportUnreachable(n, v)
    PROVE  Iterates(n)
<1> DEFINE p == peer[n]
<1>1. Shape(p) /\ Stepped(p, p)
  BY SteppedStays, Zenon DEF VInv
<1>2. CASE Election(n)
  <2>1. Campaigns(p, n, Campaign(p, n, FALSE))
    BY <1>1, <1>2, CampaignCampaigns, Zenon DEF Election
  <2>2. Moves(n, p, Campaign(p, n, FALSE))
    BY <1>1, <2>1, Zenon DEF Moves
  <2> QED
    BY <1>2, <2>2, IterateIterates, Zenon DEF Election
<1>3. CASE LeaderHeartbeat(n)
  <2> DEFINE ctx == IF p.reads = <<>> THEN None ELSE p.reads[Len(p.reads)].ctx
  <2>1. p.role = "leader" /\ Iterate(n, BroadcastHeartbeat(p, n, ctx))
    BY <1>3, Zenon DEF LeaderHeartbeat
  <2> HIDE DEF ctx
  <2> QED
    BY <1>1, <2>1, BroadcastHeartbeatPlain, PlainMoves, IterateIterates, Zenon
<1>4. CASE LeaderElectionTimeout(n)
  <2> DEFINE res == Result(HandleLeaderElectionTimeout(p, n), {})
  <2>1. Quiet(net, p, n, res)
    BY <1>1, ElectionTimeoutQuiet, Zenon
  <2>2. Moves(n, p, res)
    BY <1>1, <2>1, Zenon DEF Moves
  <2> QED
    BY <1>4, <2>2, IterateIterates, Zenon DEF LeaderElectionTimeout
<1>5. ASSUME NEW cmd, Propose(n, cmd) PROVE Iterates(n)
  BY <1>1, <1>5, ProposePlain, PlainMoves, IterateIterates, Zenon DEF Propose
<1>6. ASSUME NEW target, RequestLeaderTransfer(n, target) PROVE Iterates(n)
  <2>1. CASE Iterate(n, HandleLeaderLeaderTransfer(peer[n], n, target, target))
    BY <1>1, <2>1, LeaderTransferPlain, PlainMoves, IterateIterates, Zenon
  <2>2. CASE Iterate(n, HandleFollowerLeaderTransfer(peer[n], n, target))
    BY <1>1, <2>2, FollowerLeaderTransferPlain, PlainMoves, IterateIterates, Zenon
  <2> QED
    BY <1>6, <2>1, <2>2, Zenon DEF RequestLeaderTransfer
<1>7. ASSUME NEW ctx, RequestRead(n, ctx) PROVE Iterates(n)
  <2> DEFINE rds == [reads EXCEPT ![ctx] = [status |-> "waiting", node |-> n,
                                            base |-> Len(decided), index |-> 0]]
  <2>1. \/ /\ p.role = "leader"
           /\ IterateWith(n, HandleLeaderReadIndex(p, n, n, ctx), net, rds)
        \/ IterateWith(n, HandleFollowerReadIndex(p, n, ctx), net, rds)
    BY <1>7, Zenon DEF RequestRead
  <2> HIDE DEF rds
  <2>2. Kept(net)
    BY Zenon DEF Kept
  <2>3. CASE /\ p.role = "leader"
             /\ IterateWith(n, HandleLeaderReadIndex(p, n, n, ctx), net, rds)
    BY <1>1, <2>2, <2>3, LeaderReadIndexPlain, PlainMoves, IterateWithIterates
  <2>4. CASE IterateWith(n, HandleFollowerReadIndex(p, n, ctx), net, rds)
    BY <1>1, <2>2, <2>4, FollowerReadIndexPlain, PlainMoves, IterateWithIterates, Zenon
  <2> QED
    BY <2>1, <2>3, <2>4, Zenon
<1>8. ASSUME NEW v, NEW reject, ReportSnapshotStatus(n, v, reject) PROVE Iterates(n)
  BY <1>1, <1>8, SnapshotStatusPlain, PlainMoves, IterateIterates DEF ReportSnapshotStatus
<1>9. ASSUME NEW v, ReportUnreachable(n, v) PROVE Iterates(n)
  BY <1>1, <1>9, UnreachablePlain, PlainMoves, IterateIterates, Zenon DEF ReportUnreachable
<1> QED
  BY <1>2, <1>3, <1>4, <1>5, <1>6, <1>7, <1>8, <1>9, Zenon

LEMMA ReceptionIterates ==
    ASSUME SizeFacts, VInv, NEW n \in Node, NEW m \in Inbox(n), Recv(n, m)
    PROVE  Iterates(n)
<1> DEFINE p0 == peer[n]
           p == StepTerm(p0, n, m)
<1>1. Shape(p0) /\ p0.term \in Nat /\ Stepped(p0, p0)
  BY SteppedStays, Zenon DEF VInv
<1>2. /\ m \in net /\ m.to = n /\ m.term \in Nat
      /\ IsResponseMessage(m) => IsMember(p0, m.from)
  BY Zenon DEF Inbox, VInv
<1>3. /\ Stepped(p0, p)
      /\ p.term = (IF m.term <= p0.term THEN p0.term ELSE m.term)
      /\ p.role \in {"candidate", "leader"} => m.term <= p0.term
  BY <1>1, <1>2, StepTermSteps, Zenon
<1>4. m.term <= p0.term => p = p0
  BY Zenon DEF StepTerm
<1>5. Shape(p)
  BY <1>3, Zenon DEF Stepped, Keeps
<1> USE DEF Receives
<1>6. CASE RecvRequestVote(n, m)
  <2>1. m.type = "RequestVote" /\ m.term \in {0, p.term}
    BY <1>1, <1>2, <1>3, <1>6 DEF RecvRequestVote
  <2>2. Iterate(n, HandleRequestVote(p, n, m))
    BY <1>6, Zenon DEF RecvRequestVote
  <2> HIDE DEF p
  <2>3. Votes(p, n, m, HandleRequestVote(p, n, m))
    BY <1>5, <2>1, RequestVoteVotes, Zenon
  <2>4. Moves(n, p, HandleRequestVote(p, n, m))
    BY <1>2, <1>3, <2>3, Zenon DEF Moves
  <2> QED
    BY <2>2, <2>4, IterateIterates, Zenon
<1>7. CASE RecvRequestVoteResp(n, m)
  <2>1. /\ m.type = "RequestVoteResp" /\ m.term \in {0, p0.term} /\ p0.role = "candidate"
        /\ Iterate(n, HandleRequestVoteResp(p0, n, m))
    BY <1>1, <1>2, <1>3, <1>4, <1>7 DEF RecvRequestVoteResp
  <2>2. CountsVote(p0, n, m, HandleRequestVoteResp(p0, n, m))
    BY <1>1, <1>2, <2>1, VoteRespCounts, Zenon DEF IsResponseMessage
  <2>3. Moves(n, p0, HandleRequestVoteResp(p0, n, m))
    BY <1>1, <1>2, <2>2, Zenon DEF Moves
  <2> QED
    BY <2>1, <2>3, IterateIterates, Zenon
<1>8. ASSUME NEW res, Quiet(net, p, n, res), Iterate(n, res) PROVE Iterates(n)
  <2> HIDE DEF p
  <2>1. Moves(n, p, res)
    BY <1>3, <1>8, Zenon DEF Moves
  <2> QED
    BY <1>8, <2>1, IterateIterates, Zenon
<1>9. CASE RecvReplicate(n, m)
  <2>1. Iterate(n, HandleReplicate(p, n, m))
    BY <1>9, Zenon DEF RecvReplicate
  <2> HIDE DEF p
  <2> QED
    BY <1>5, <1>8, <2>1, ReplicateQuiet, Zenon
<1>10. CASE RecvReplicateResp(n, m)
  <2>1. p0.role = "leader" /\ Iterate(n, HandleLeaderReplicateResp(p0, n, m))
    BY <1>3, <1>4, <1>10 DEF RecvReplicateResp
  <2> QED
    BY <1>1, <2>1, ReplicateRespPlain, PlainMoves, IterateIterates, Zenon
<1>11. CASE RecvHeartbeat(n, m)
  <2>1. Iterate(n, HandleHeartbeat(p, n, m))
    BY <1>11, Zenon DEF RecvHeartbeat
  <2> HIDE DEF p
  <2> QED
    BY <1>5, <1>8, <2>1, HeartbeatQuiet, Zenon
<1>12. CASE RecvHeartbeatResp(n, m)
  <2>1. p0.role = "leader" /\ Iterate(n, HandleLeaderHeartbeatResp(p0, n, m))
    BY <1>3, <1>4, <1>12, Zenon DEF RecvHeartbeatResp
  <2> QED
    BY <1>1, <2>1, HeartbeatRespPlain, PlainMoves, IterateIterates, Zenon
<1>13. CASE RecvInstallSnapshot(n, m)
  <2>1. m.type = "InstallSnapshot" /\ Iterate(n, HandleInstallSnapshot(p, n, m))
    BY <1>13, Zenon DEF RecvInstallSnapshot
  <2> HIDE DEF p
  <2> QED
    BY <1>2, <1>5, <1>8, <2>1, InstallSnapshotQuiet, Zenon
<1>14. CASE RecvTimeoutNow(n, m)
  <2>1. Iterate(n, IF CanCampaign(p, n) THEN Campaign(p, n, TRUE) ELSE Result(p, {}))
    BY <1>14, Zenon DEF RecvTimeoutNow
  <2> HIDE DEF p
  <2>2. CASE CanCampaign(p, n)
    <3>1. Moves(n, p, Campaign(p, n, TRUE))
      BY <1>3, <1>5, <2>2, CampaignCampaigns, Zenon DEF Moves
    <3> QED
      BY <2>1, <2>2, <3>1, IterateIterates, Zenon
  <2>3. CASE ~ CanCampaign(p, n)
    <3>1. Quiet(net, p, n, Result(p, {}))
      BY <1>5, PlainSilence, PlainIsQuiet, Zenon DEF Keeps
    <3> QED
      BY <1>8, <2>1, <2>3, <3>1, Zenon
  <2> QED
    BY <2>2, <2>3, Zenon
<1>15. CASE RecvLeaderTransfer(n, m)
  <2>1. Iterate(n, HandleLeaderLeaderTransfer(p0, n, m.from, m.target))
    BY <1>15, Zenon DEF RecvLeaderTransfer
  <2> QED
    BY <1>1, <2>1, LeaderTransferPlain, PlainMoves, IterateIterates, Zenon
<1>16. CASE RecvReadIndex(n, m)
  <2>1. Kept(net \ {m})
    BY <1>16, Zenon DEF Kept, RecvReadIndex
  <2>2. CASE /\ p0.role = "leader"
             /\ IterateWith(n, HandleLeaderReadIndex(p0, n, m.from, m.ctx), net \ {m}, reads)
    BY <1>1, <2>1, <2>2, LeaderReadIndexPlain, PlainMoves, IterateWithIterates, Zenon
  <2>3. CASE IterateWith(n, HandleFollowerReadIndex(p0, n, m.ctx), net \ {m}, reads)
    BY <1>1, <2>1, <2>3, FollowerReadIndexPlain, PlainMoves, IterateWithIterates, Zenon
  <2> QED
    BY <1>16, <2>2, <2>3, Zenon DEF RecvReadIndex
<1>17. CASE RecvReadIndexResp(n, m)
  <2>1. Iterate(n, HandleReadIndexResp(p, m))
    BY <1>17, Zenon DEF RecvReadIndexResp
  <2> HIDE DEF p
  <2> QED
    BY <1>5, <1>8, <2>1, ReadIndexRespPlain, PlainIsQuiet, Zenon
<1>18. CASE RecvUnhandled(n, m)
  <2>1. Iterate(n, Result(p, {}))
    BY <1>18, Zenon DEF RecvUnhandled
  <2> HIDE DEF p
  <2>2. Quiet(net, p, n, Result(p, {}))
    BY <1>5, PlainSilence, PlainIsQuiet, Zenon DEF Keeps
  <2> QED
    BY <1>8, <2>1, <2>2, Zenon
<1>19. CASE RecvStaleLeaderMessage(n, m)
  <2> DEFINE res == Result(p0, {NoOPMsg(p0, n, m.from)})
  <2>1. Plain(p0, n, res)
    BY <1>1 DEF Plain, Keeps, Says, MaySay, NoOPMsg, Result, VoteTypes, LeaderTypes
  <2>2. Iterate(n, res)
    BY <1>19, Zenon DEF RecvStaleLeaderMessage
  <2> HIDE DEF res
  <2> QED
    BY <2>1, <2>2, PlainMoves, IterateIterates, Zenon
<1> QED
  BY <1>6, <1>7, <1>9, <1>10, <1>11, <1>12, <1>13, <1>14, <1>15, <1>16, <1>17, <1>18, <1>19
     DEF Recv

LEMMA EveryStep ==
    ASSUME SizeFacts, VInv, NEW n \in Node, NodeStep(n)
    PROVE  Iterates(n) \/ Crash(n) \/ SaveSnapshot(n)
<1> DEFINE p == peer[n]
<1>1. Shape(p) /\ Stepped(p, p)
  BY SteppedStays, Zenon DEF VInv
<1>2. CASE Apply(n)
  <2> DEFINE i == ApplyTo(p)
             q == [p EXCEPT !.applied = i]
  <2>1. Iterate(n, IF IsConfigChange(p, i) THEN HandleConfigChange(q, n, p.log[i].cmd)
                                           ELSE Result(q, {}))
    BY <1>2, Zenon DEF Apply
  <2>2. CASE IsConfigChange(p, i)
    <3> DEFINE cc == p.log[i].cmd
               res == HandleConfigChange(q, n, cc)
    <3>1. cc \in ConfigChange
      BY <2>2, Zenon DEF IsConfigChange
    <3>2. Iterate(n, res)
      BY <2>1, <2>2, Zenon
    <3> HIDE DEF cc, i
    <3>3. Reconfigures(p, n, res)
      BY <1>1, <3>1, ConfigChangeReconfigures, Zenon
    <3> HIDE DEF res
    <3>4. Moves(n, p, res)
      BY <1>1, <3>3, Zenon DEF Moves
    <3> QED
      BY <3>2, <3>4, IterateIterates, Zenon
  <2>3. CASE ~ IsConfigChange(p, i)
    <3>1. Iterate(n, Result(q, {}))
      BY <2>1, <2>3, Zenon
    <3>2. Keeps(p, q)
      BY <1>1, Zenon DEF Keeps, Shape
    <3> HIDE DEF q
    <3> QED
      BY <3>1, <3>2, PlainSilence, PlainMoves, IterateIterates, Zenon
  <2> QED
    BY <2>2, <2>3, Zenon
<1>3. CASE RecoverFromSnapshot(n)
  <2> DEFINE res == Result(RestoreRemotes([p EXCEPT !.applied = p.snapshot.index], n,
                                          p.snapshot.members), {})
  <2>1. Quiet(net, p, n, res)
    BY <1>1, RestoreRemotesQuiet, Zenon
  <2>2. Iterate(n, res)
    BY <1>3, Zenon DEF RecoverFromSnapshot
  <2> HIDE DEF res
  <2>3. Moves(n, p, res)
    BY <1>1, <2>1, Zenon DEF Moves
  <2> QED
    BY <2>2, <2>3, IterateIterates, Zenon
<1> QED
  BY <1>2, <1>3, LocalEventIterates, ReceptionIterates, Zenon DEF NodeStep

---------------------------------------------------------------------------
\* What the moves mean for votes.

LEMMA StartPeerDoes ==
    ASSUME NEW n, NEW d
    PROVE  LET p == StartPeer(n, d)
           IN  /\ Shape(p) /\ p.term = d.term /\ p.vote = d.vote
               /\ p.role \in {"follower", "observer"}
               /\ p.members = d.snapshot.members /\ p.snapshot = d.snapshot
  BY DEF StartPeer, Shape

LEMMA MovesForward ==
    ASSUME VInv, NEW n \in Node, NEW p, NEW res, Moves(n, p, res)
    PROVE  /\ Shape(res.p) /\ res.p.term \in Nat
           /\ peer[n].term <= res.p.term
           /\ peer[n].term = res.p.term /\ peer[n].vote # None =>
                 res.p.vote = peer[n].vote
           /\ \A m \in res.out : m.term \in Nat
<1>1. /\ p.term \in Nat /\ peer[n].term \in Nat /\ peer[n].term <= p.term
      /\ p.term = peer[n].term => p.vote = peer[n].vote
  BY DEF Moves, Stepped, Keeps, VInv
<1>2. CASE /\ Shape(res.p) /\ res.p.term = p.term
           /\ p.vote # None => res.p.vote = p.vote
           /\ \A m \in res.out : m.term \in {0, p.term}
  BY <1>1, <1>2
<1>3. CASE Quiet(net, p, n, res)
  BY <1>2, <1>3, Zenon DEF Quiet, Abides, Says, MaySay
<1>4. CASE Reconfigures(p, n, res)
  BY <1>2, <1>4, Zenon DEF Reconfigures, Abides
<1>5. CASE Campaigns(p, n, res)
  <2>1. /\ Shape(res.p) /\ res.p.term = p.term + 1
        /\ \A m \in res.out : m.term = p.term + 1
    BY <1>5, Zenon DEF Campaigns
  <2> QED
    BY <1>1, <2>1
<1>6. CASE \E m \in net : Votes(p, n, m, res) \/ CountsVote(p, n, m, res)
  <2>1. PICK m \in net : Votes(p, n, m, res) \/ CountsVote(p, n, m, res)
    BY <1>6, Zenon
  <2>2. CASE Votes(p, n, m, res)
    BY <1>2, <2>2, Zenon DEF Votes
  <2>3. CASE CountsVote(p, n, m, res)
    BY <1>2, <2>3, Zenon DEF CountsVote, Says, MaySay
  <2> QED
    BY <2>1, <2>2, <2>3, Zenon
<1> QED
  BY <1>3, <1>4, <1>5, <1>6, Zenon DEF Moves

\* What becomes of the node that iterates: it goes on with its new state,
\* saved; or it restarts from what was saved before.
LEMMA IterationDoes ==
    ASSUME VInv, NEW n \in Node, NEW p, NEW res, NEW rest, NEW rds, Moves(n, p, res),
           Complete(n, res, rest, rds) \/ DieBeforeSave(n, res, rest, rds)
    PROVE  /\ DOMAIN peer' = Node /\ DOMAIN disk' = Node /\ setup' = setup
           /\ \A v \in Node \ {n} : peer'[v] = peer[v] /\ disk'[v] = disk[v]
           /\ {"term", "vote", "snapshot"} \subseteq DOMAIN disk'[n]
           /\ \/ /\ net' = rest \cup res.out
                 /\ Keeps(res.p, peer'[n])
                 /\ disk'[n].term = res.p.term /\ disk'[n].vote = res.p.vote
                 /\ disk'[n].snapshot = res.p.snapshot
              \/ /\ net' = rest \cup FreeOrderMessages(res.out)
                 /\ peer'[n] = StartPeer(n, disk[n]) /\ disk'[n] = disk[n]
<1>1. Shape(res.p)
  BY MovesForward, Zenon
<1>2. DOMAIN peer = Node /\ DOMAIN disk = Node
  BY Zenon DEF VInv
<1>3. CASE Complete(n, res, rest, rds)
  <2> DEFINE q == [res.p EXCEPT !.marker = MaxOf(res.p.marker, res.p.compactTo),
                                !.compactTo = 0, !.readyToRead = {}]
  <2>1. Keeps(res.p, q)
    BY <1>1, Zenon DEF Keeps, Shape
  <2>2. peer' = [peer EXCEPT ![n] = q] /\ setup' = setup
    BY <1>3, Zenon DEF Complete
  <2> HIDE DEF q
  <2>3. disk' = [disk EXCEPT ![n] = Durable(res.p)] /\ net' = rest \cup res.out
    BY <1>3, Zenon DEF Complete
  <2>4. /\ {"term", "vote", "snapshot"} \subseteq DOMAIN Durable(res.p)
        /\ Durable(res.p).term = res.p.term /\ Durable(res.p).vote = res.p.vote
        /\ Durable(res.p).snapshot = res.p.snapshot
    BY Zenon DEF Durable
  <2>5. /\ DOMAIN peer' = Node /\ DOMAIN disk' = Node
        /\ \A v \in Node \ {n} : peer'[v] = peer[v] /\ disk'[v] = disk[v]
        /\ peer'[n] = q /\ disk'[n] = Durable(res.p)
    BY <1>2, <2>2, <2>3, Zenon
  <2> QED
    BY <2>1, <2>2, <2>3, <2>4, <2>5, Zenon
<1>4. CASE DieBeforeSave(n, res, rest, rds)
  BY <1>2, <1>4, Zenon DEF DieBeforeSave, Restart, VInv
<1> QED
  BY <1>3, <1>4, Zenon

LEMMA SaveSnapshotDoes ==
    ASSUME VInv, NEW n \in Node, SaveSnapshot(n)
    PROVE  /\ DOMAIN peer' = Node /\ DOMAIN disk' = Node /\ setup' = setup /\ net' = net
           /\ \A v \in Node \ {n} : peer'[v] = peer[v] /\ disk'[v] = disk[v]
           /\ Shape(peer'[n]) /\ peer'[n].term = peer[n].term /\ peer'[n].vote = peer[n].vote
           /\ peer'[n].role = peer[n].role /\ peer'[n].granted = peer[n].granted
           /\ peer'[n].members = peer[n].members /\ peer'[n].snapshot.members = peer[n].members
           /\ {"term", "vote", "snapshot"} \subseteq DOMAIN disk'[n]
           /\ disk'[n].term = disk[n].term /\ disk'[n].vote = disk[n].vote
           /\ disk'[n].snapshot = peer'[n].snapshot
<1> DEFINE p == peer[n]
           ss == [index |-> p.applied, members |-> p.members]
           c == MaxOf(0, p.applied - Env.compactionOverhead)
           q == [p EXCEPT !.snapshot = ss, !.compactTo = c]
           d == [disk[n] EXCEPT !.snapshot = ss]
<1>1. peer' = [peer EXCEPT ![n].snapshot = ss, ![n].compactTo = c]
  BY Zenon DEF SaveSnapshot
<1>2. disk' = [disk EXCEPT ![n].snapshot = ss] /\ net' = net /\ setup' = setup
  BY Zenon DEF SaveSnapshot
<1>3. ss.members = p.members
  BY Zenon
<1> HIDE DEF ss, c
<1>4. /\ DOMAIN peer' = Node /\ DOMAIN disk' = Node
      /\ \A v \in Node \ {n} : peer'[v] = peer[v] /\ disk'[v] = disk[v]
      /\ peer'[n] = q /\ disk'[n] = d
  BY <1>1, <1>2, Zenon DEF VInv
<1>5. /\ Shape(q) /\ q.term = p.term /\ q.vote = p.vote /\ q.role = p.role
      /\ q.granted = p.granted /\ q.members = p.members /\ q.snapshot = ss
  BY Zenon DEF VInv, Shape
<1>6. /\ {"term", "vote", "snapshot"} \subseteq DOMAIN d
      /\ d.term = disk[n].term /\ d.vote = disk[n].vote /\ d.snapshot = ss
  BY Zenon DEF VInv
<1> HIDE DEF q, d
<1> QED
  BY <1>2, <1>3, <1>4, <1>5, <1>6, Zenon

LEMMA CrashDoes ==
    ASSUME VInv, NEW n \in Node, Crash(n)
    PROVE  /\ disk' = disk /\ net' = net /\ setup' = setup /\ DOMAIN peer' = Node
           /\ \A v \in Node \ {n} : peer'[v] = peer[v]
           /\ peer'[n] = StartPeer(n, disk[n])
  BY Zenon DEF Crash, Restart, VInv

LEMMA VInitially == Init => VInv
<1> SUFFICES ASSUME Init PROVE VInv
  BY Zenon
<1>1. disk \in [Node -> Disk] /\ net = {}
  BY SetupsAssumption, Zenon DEF Init, Env
<1>2. peer = [n \in Node |-> StartPeer(n, disk[n])]
  BY Zenon DEF Init
<1>3. ASSUME NEW n \in Node
      PROVE  /\ {"term", "vote", "snapshot"} \subseteq DOMAIN disk[n]
             /\ disk[n].term \in Nat
  BY <1>1, Zenon DEF Disk
<1>4. ASSUME NEW n \in Node
      PROVE  /\ Shape(peer[n])
             /\ disk[n].term = peer[n].term /\ disk[n].vote = peer[n].vote
             /\ disk[n].snapshot = peer[n].snapshot
  BY <1>2, StartPeerDoes
<1> QED
  BY <1>1, <1>2, <1>3, <1>4, Zenon DEF VInv

LEMMA VStep ==
    ASSUME SizeFacts, VInv, [Next]_vars
    PROVE  VInv' /\ VotesStay
<1>1. CASE UNCHANGED vars
  BY <1>1 DEF vars, VInv, VotesStay, Shape
<1>2. ASSUME NEW n \in Node, NodeStep(n) PROVE VInv' /\ VotesStay
  <2>1. CASE Iterates(n)
    <3>1. PICK p, res, rest, rds :
             /\ Moves(n, p, res) /\ Kept(rest)
             /\ Complete(n, res, rest, rds) \/ DieBeforeSave(n, res, rest, rds)
      BY <2>1, Zenon DEF Iterates
    <3>2. /\ Shape(res.p) /\ res.p.term \in Nat
          /\ peer[n].term <= res.p.term
          /\ peer[n].term = res.p.term /\ peer[n].vote # None =>
                res.p.vote = peer[n].vote
          /\ \A m \in res.out : m.term \in Nat
      BY <3>1, MovesForward, Zenon
    <3>3. /\ DOMAIN peer' = Node /\ DOMAIN disk' = Node
          /\ \A v \in Node \ {n} : peer'[v] = peer[v] /\ disk'[v] = disk[v]
          /\ {"term", "vote", "snapshot"} \subseteq DOMAIN disk'[n]
          /\ \/ /\ net' = rest \cup res.out
                /\ Keeps(res.p, peer'[n])
                /\ disk'[n].term = res.p.term /\ disk'[n].vote = res.p.vote
                /\ disk'[n].snapshot = res.p.snapshot
             \/ /\ net' = rest \cup FreeOrderMessages(res.out)
                /\ peer'[n] = StartPeer(n, disk[n]) /\ disk'[n] = disk[n]
      BY <3>1, IterationDoes, Zenon
    <3>4. \A m \in net' : m.term \in Nat
      BY <3>1, <3>2, <3>3, Zenon DEF VInv, Kept, FreeOrderMessages
    <3>5. /\ Shape(peer'[n]) /\ peer'[n].term \in Nat
          /\ disk'[n].term = peer'[n].term /\ disk'[n].vote = peer'[n].vote
          /\ disk'[n].snapshot = peer'[n].snapshot
      BY <3>2, <3>3, StartPeerDoes DEF VInv, Keeps
    <3>6. /\ disk[n].term <= disk'[n].term
          /\ disk[n].term = disk'[n].term /\ disk[n].vote # None =>
                disk'[n].vote = disk[n].vote
      BY <3>2, <3>3 DEF VInv
    <3>7. \A v \in Node :
             /\ Shape(peer'[v]) /\ peer'[v].term \in Nat
             /\ {"term", "vote", "snapshot"} \subseteq DOMAIN disk'[v]
             /\ disk'[v].term = peer'[v].term /\ disk'[v].vote = peer'[v].vote
             /\ disk'[v].snapshot = peer'[v].snapshot
      BY <3>3, <3>5 DEF VInv
    <3>8. VotesStay
      BY <3>3, <3>6 DEF VotesStay, VInv
    <3> QED
      BY <3>3, <3>4, <3>7, <3>8, Zenon DEF VInv, Shape
  <2>2. CASE Crash(n)
    <3>1. /\ disk' = disk /\ net' = net /\ DOMAIN peer' = Node
          /\ \A v \in Node \ {n} : peer'[v] = peer[v]
          /\ peer'[n] = StartPeer(n, disk[n])
      BY <2>2, CrashDoes, Zenon
    <3>2. /\ Shape(peer'[n]) /\ peer'[n].term = disk[n].term /\ peer'[n].vote = disk[n].vote
          /\ peer'[n].snapshot = disk[n].snapshot
      BY <3>1, StartPeerDoes
    <3> QED
      BY <3>1, <3>2 DEF VInv, VotesStay, Shape
  <2>3. CASE SaveSnapshot(n)
    <3>1. /\ DOMAIN peer' = Node /\ DOMAIN disk' = Node /\ net' = net
          /\ \A v \in Node \ {n} : peer'[v] = peer[v] /\ disk'[v] = disk[v]
          /\ Shape(peer'[n]) /\ peer'[n].term = peer[n].term /\ peer'[n].vote = peer[n].vote
          /\ {"term", "vote", "snapshot"} \subseteq DOMAIN disk'[n]
          /\ disk'[n].term = disk[n].term /\ disk'[n].vote = disk[n].vote
          /\ disk'[n].snapshot = peer'[n].snapshot
      BY <2>3, SaveSnapshotDoes, Zenon
    <3> QED
      BY <3>1 DEF VInv, VotesStay, Shape
  <2> QED
    BY <1>2, <2>1, <2>2, <2>3, EveryStep, Zenon
<1> QED
  BY <1>1, <1>2, Zenon DEF Next

LEMMA GroupIsFinite ==
    ASSUME SizeFacts, setup \in DOMAIN Setups
    PROVE  Group \subseteq Node /\ IsFiniteSet(Group) /\ Cardinality(Group) \in Nat
<1> DEFINE c == CHOOSE n \in Node : TRUE
<1>1. c \in Node
  BY NodeAssumption, Zenon
<1>2. Env.disk \in [Node -> Disk]
  BY SetupsAssumption, Zenon DEF Env
<1> HIDE DEF c
<1>3. Env.disk[c].snapshot.members.voters \subseteq Node
  BY <1>1, <1>2, Zenon DEF Disk, Snapshot, Members
<1>4. Group \subseteq Node
  BY <1>3, Zenon DEF Group, c
<1> QED
  BY <1>4, NodeAssumption, Zenon DEF SizeFacts

LEMMA HasVotedStays ==
    ASSUME NEW ms, NEW ns, \A m \in ms : IsBallot(m) => m \in ns, NEW v, NEW t, NEW c,
           HasVoted(ms, v, t, c)
    PROVE  HasVoted(ns, v, t, c)
  BY Zenon DEF HasVoted

LEMMA ElectedStays ==
    ASSUME NEW ms, NEW ns, \A m \in ms : IsBallot(m) => m \in ns, NEW V, NEW t, NEW c,
           Elected(ms, V, t, c)
    PROVE  Elected(ns, V, t, c)
  BY HasVotedStays, Zenon DEF Elected

LEMMA PeerStaysOK ==
    ASSUME NEW ms, NEW ns, \A m \in ms : IsBallot(m) => m \in ns, NEW V, NEW n, NEW p,
           PeerOK(ms, V, n, p)
    PROVE  PeerOK(ns, V, n, p)
  BY HasVotedStays, ElectedStays, Zenon DEF PeerOK

LEMMA OneElected ==
    ASSUME SizeFacts, NEW ms, OneVote(ms), NEW V, IsFiniteSet(V), Cardinality(V) \in Nat,
           NEW t, NEW a, NEW b, Elected(ms, V, t, a), Elected(ms, V, t, b)
    PROVE  a = b
<1>1. CASE V = {a} \/ V = {b}
  BY <1>1 DEF Elected
<1>2. CASE V # {a} /\ V # {b}
  <2>1. PICK Q \in SUBSET V : /\ Cardinality(Q) = Cardinality(V) \div 2 + 1
                              /\ \A v \in Q : HasVoted(ms, v, t, a)
    BY <1>2, Zenon DEF Elected
  <2>2. PICK R \in SUBSET V : /\ Cardinality(R) = Cardinality(V) \div 2 + 1
                              /\ \A v \in R : HasVoted(ms, v, t, b)
    BY <1>2, Zenon DEF Elected
  <2>3. Cardinality(Q) + Cardinality(R) > Cardinality(V)
    BY <2>1, <2>2
  <2>4. Q \cap R # {}
    BY <2>3, Zenon DEF SizeFacts
  <2>5. PICK v \in Q : v \in R
    BY <2>4, Zenon
  <2> QED
    BY <2>1, <2>2, <2>5 DEF HasVoted, OneVote
<1> QED
  BY <1>1, <1>2, Zenon

LEMMA EInvIsSafe ==
    ASSUME SizeFacts, VInv, EInv
    PROVE  ElectionSafety
<1> SUFFICES ASSUME NEW x \in Leaderships, NEW y \in Leaderships, x[1] = y[1]
             PROVE  x[2] = y[2]
  BY Zenon DEF ElectionSafety
<1>1. ASSUME NEW z \in Leaderships PROVE Elected(net, Group, z[1], z[2])
  <2>1. CASE z \in {<<peer[n].term, n>> : n \in {k \in Node : peer[k].role = "leader"}}
    <3>1. PICK n \in Node : peer[n].role = "leader" /\ z = <<peer[n].term, n>>
      BY <2>1, Zenon
    <3>2. Elected(net, Group, peer[n].term, n)
      BY <3>1, Zenon DEF EInv, PeerOK
    <3> QED
      BY <3>1, <3>2, Zenon
  <2>2. CASE z \in {<<m.term, m.from>> : m \in LeaderMessages}
    <3>1. PICK m \in net : m.type \in LeaderTypes /\ z = <<m.term, m.from>>
      BY <2>2, Zenon DEF LeaderMessages, LeaderTypes
    <3>2. Elected(net, Group, m.term, m.from)
      BY <3>1, Zenon DEF EInv, MessageOK
    <3> QED
      BY <3>1, <3>2, Zenon
  <2> QED
    BY <1>1, <2>1, <2>2, Zenon DEF Leaderships
<1>2. IsFiniteSet(Group) /\ Cardinality(Group) \in Nat
  BY GroupIsFinite, Zenon DEF EInv
<1> QED
  BY <1>1, <1>2, OneElected, Zenon DEF EInv

\* What an iteration says and becomes is justified by the votes of before,
\* together with the votes it announces itself.
LEMMA MovesSafely ==
    ASSUME SizeFacts, ConfigChange = {}, VInv, EInv, NEW n \in Node, NEW p, NEW res, Moves(n, p, res)
    PROVE  /\ PeerOK(net \cup res.out, Group, n, res.p)
           /\ \A m \in res.out :
                 /\ m.type = "InstallSnapshot" => m.ss.members.voters = Group
                 /\ m.type \in VoteTypes =>
                       m.from = n /\ m.term >= 1 /\ m.term = res.p.term
                 /\ IsBallot(m) => Choice(m) \in Node /\ Choice(m) = res.p.vote
                 /\ m.type \in LeaderTypes => Elected(net, Group, m.term, m.from)
<1> DEFINE V == Group
<1>1. IsFiniteSet(V) /\ Cardinality(V) \in Nat /\ V \subseteq Node
  BY GroupIsFinite, Zenon DEF EInv
<1>2. /\ \A v \in Node : PeerOK(net, V, v, peer[v])
      /\ \A m \in net : MessageOK(net, V, disk, m)
  BY Zenon DEF EInv
<1> HIDE DEF V
<1>3. PeerOK(net, V, n, p) /\ p.term \in Nat
  BY <1>2, Zenon DEF Moves, Stepped, Keeps, PeerOK
<1> DEFINE ns == net \cup res.out
           Good == /\ PeerOK(ns, V, n, res.p)
                   /\ \A m \in res.out :
                         /\ m.type = "InstallSnapshot" => m.ss.members.voters = V
                         /\ m.type \in VoteTypes =>
                               m.from = n /\ m.term >= 1 /\ m.term = res.p.term
                         /\ IsBallot(m) => Choice(m) \in Node /\ Choice(m) = res.p.vote
                         /\ m.type \in LeaderTypes => Elected(net, V, m.term, m.from)
<1>4. ASSUME NEW q, PeerOK(net, V, n, q) PROVE PeerOK(ns, V, n, q)
  BY <1>4, PeerStaysOK, Zenon
<1>5. ASSUME Quiet(net, p, n, res) PROVE Good
  <2>1. \A ms \in KnownMembers(net, p) : ms.voters = V
    BY <1>2, <1>3, Zenon DEF KnownMembers, PeerOK, MessageOK
  <2>2. PeerOK(net, V, n, res.p)
    BY <1>3, <1>5, <2>1, Zenon DEF Quiet, Abides, PeerOK
  <2>3. ASSUME NEW m \in res.out
        PROVE  /\ m.type \notin VoteTypes /\ ~ IsBallot(m)
               /\ m.type = "InstallSnapshot" => m.ss.members.voters = V
               /\ m.type \in LeaderTypes => Elected(net, V, m.term, m.from)
    BY <1>3, <1>5, Zenon DEF Quiet, Says, MaySay, PeerOK, IsBallot, VoteTypes
  <2>4. PeerOK(ns, V, n, res.p)
    BY <1>4, <2>2, Zenon
  <2> QED
    BY <2>3, <2>4, Zenon
<1>6. ASSUME Reconfigures(p, n, res) PROVE Good
  BY <1>6, Zenon DEF Reconfigures
<1>7. ASSUME Campaigns(p, n, res) PROVE Good
  <2>1. n \in V /\ res.p.term = p.term + 1 /\ res.p.vote = n
    BY <1>3, <1>7, Zenon DEF Campaigns, PeerOK
  <2>2. res.p.members.voters = V /\ res.p.snapshot.members.voters = V
    BY <1>3, <1>7, Zenon DEF Campaigns, PeerOK
  <2>3. CASE /\ res.p.role = "candidate" /\ res.p.granted = {n} /\ res.out # {}
             /\ \A m \in res.out : /\ m.type = "RequestVote"
                                   /\ m.from = n /\ m.term = p.term + 1
    <3>1. \A m \in res.out : IsBallot(m) /\ Choice(m) = n
      BY <2>3, Zenon DEF IsBallot, Choice
    <3>2. HasVoted(ns, n, p.term + 1, n)
      BY <2>3, <3>1 DEF HasVoted
    <3>3. PeerOK(ns, V, n, res.p)
      BY <2>1, <2>2, <2>3, <3>2, Zenon DEF PeerOK
    <3>4. ASSUME NEW m \in res.out
          PROVE  /\ m.type # "InstallSnapshot" /\ m.type \notin LeaderTypes
                 /\ m.from = n /\ m.term >= 1 /\ m.term = res.p.term
                 /\ Choice(m) \in Node /\ Choice(m) = res.p.vote
      BY <1>3, <2>1, <2>3, <3>1 DEF LeaderTypes
    <3> QED
      BY <3>3, <3>4, Zenon
  <2>4. CASE res.p.role = "leader" /\ res.out = {} /\ Quorum(p) = 1
    <3>1. Cardinality(V) \div 2 + 1 = 1
      BY <1>3, <2>4, Zenon DEF Quorum, PeerOK
    <3>2. Cardinality(V) = 0 \/ Cardinality(V) = 1
      BY <1>1, <3>1
    <3>3. V = {n}
      BY <1>1, <2>1, <3>2, Zenon DEF SizeFacts
    <3>4. Elected(ns, V, res.p.term, n)
      BY <3>3, Zenon DEF Elected
    <3> QED
      BY <2>2, <2>4, <3>4, Zenon DEF PeerOK
  <2> QED
    BY <1>7, <2>3, <2>4, Zenon DEF Campaigns
<1>8. ASSUME NEW m \in net, Votes(p, n, m, res) PROVE Good
  <2>1. PeerOK(net, V, n, res.p)
    BY <1>3, <1>8, Zenon DEF Votes, PeerOK
  <2>2. m.from \in Node /\ m.term >= 1 /\ p.term = m.term
    BY <1>2, <1>8 DEF Votes, MessageOK, VoteTypes
  <2>3. ASSUME NEW r \in res.out
        PROVE  /\ r.type # "InstallSnapshot" /\ r.type \notin LeaderTypes
               /\ r.from = n /\ r.term >= 1 /\ r.term = res.p.term
               /\ IsBallot(r) => Choice(r) \in Node /\ Choice(r) = res.p.vote
    BY <1>8, <2>2, Zenon DEF Votes, LeaderTypes, IsBallot, Choice
  <2> QED
    BY <1>4, <2>1, <2>3, Zenon
<1>9. ASSUME NEW m \in net, CountsVote(p, n, m, res) PROVE Good
  <2>1. PICK granted \in {p.granted, p.granted \cup {m.from}} :
           /\ granted # p.granted => ~ m.reject /\ m.from \in p.members.voters
           /\ \/ res.p.role = "follower" /\ res.out = {}
              \/ res.p.role = "candidate" /\ res.p.granted = granted /\ res.out = {}
              \/ /\ res.p.role = "leader" /\ Cardinality(granted) = Quorum(p)
                 /\ Says(res.p, n, res.out)
    BY <1>9, Zenon DEF CountsVote
  <2>2. /\ m.type = "RequestVoteResp" /\ m.to = n /\ m.term >= 1 /\ m.term = p.term
        /\ p.role = "candidate" /\ res.p.term = p.term
        /\ res.p.members = p.members /\ res.p.snapshot = p.snapshot
    <3>1. /\ m.type = "RequestVoteResp" /\ m.to = n /\ m.term \in {0, p.term}
          /\ p.role = "candidate" /\ res.p.term = p.term
          /\ res.p.members = p.members /\ res.p.snapshot = p.snapshot
      BY <1>9, Zenon DEF CountsVote
    <3>2. m.term >= 1
      BY <1>2, <3>1, Zenon DEF MessageOK, VoteTypes
    <3> QED
      BY <3>1, <3>2
  <2>3. n \in V /\ granted \subseteq V /\ \A v \in granted : HasVoted(net, v, p.term, n)
    <3>1. ~ m.reject => HasVoted(net, m.from, p.term, n)
      BY <2>2, Zenon DEF HasVoted, IsBallot, Choice
    <3> QED
      BY <1>3, <2>1, <2>2, <3>1, Zenon DEF PeerOK
  <2>4. Cardinality(granted) = Quorum(p) => Elected(net, V, p.term, n)
    BY <1>3, <2>3, Zenon DEF Elected, Quorum, PeerOK
  <2>5. PeerOK(net, V, n, res.p)
    BY <1>3, <2>1, <2>2, <2>3, <2>4, Zenon DEF PeerOK
  <2>6. ASSUME NEW r \in res.out
        PROVE  /\ r.type \notin VoteTypes /\ ~ IsBallot(r)
               /\ r.type = "InstallSnapshot" => r.ss.members.voters = V
               /\ r.type \in LeaderTypes => Elected(net, V, r.term, r.from)
    BY <2>1, <2>2, <2>5, Zenon DEF Says, MaySay, PeerOK, IsBallot, VoteTypes
  <2> QED
    BY <1>4, <2>5, <2>6, Zenon
<1> QED
  BY <1>5, <1>6, <1>7, <1>8, <1>9, Zenon DEF Moves, V

\* A message that was justified stays so: ballots are never taken back from
\* the network, and no disk forgets a vote.
LEMMA MessageStaysOK ==
    ASSUME VInv, VotesStay, NEW m \in net, MessageOK(net, Group, disk, m),
           VInv', \A b \in net : IsBallot(b) => b \in net'
    PROVE  MessageOK(net', Group, disk', m)
<1>1. m.type \in LeaderTypes => Elected(net', Group, m.term, m.from)
  BY ElectedStays, Zenon DEF MessageOK
<1>2. ASSUME IsBallot(m) PROVE BallotOK(disk', m)
  <2>1. m.from \in Node /\ BallotOK(disk, m)
    BY <1>2, Zenon DEF MessageOK, IsBallot, VoteTypes
  <2>2. /\ disk[m.from].term \in Nat /\ disk[m.from].term <= disk'[m.from].term
        /\ disk[m.from].term = disk'[m.from].term /\ disk[m.from].vote # None =>
              disk'[m.from].vote = disk[m.from].vote
    BY <2>1, Zenon DEF VInv, VotesStay
  <2>3. m.term \in Nat /\ disk[m.from].term \in Nat /\ disk'[m.from].term \in Nat
    BY <2>1, Zenon DEF VInv
  <2>4. CASE disk'[m.from].term > disk[m.from].term
    BY <2>1, <2>2, <2>3, <2>4 DEF BallotOK
  <2>5. CASE disk'[m.from].term = disk[m.from].term
    BY <2>1, <2>2, <2>3, <2>5, NodeAssumption, Zenon DEF BallotOK
  <2> QED
    BY <2>2, <2>3, <2>4, <2>5
<1> QED
  BY <1>1, <1>2, Zenon DEF MessageOK

LEMMA EInitially ==
    ASSUME StaticGroups, Init
    PROVE  EInv
<1> DEFINE c == CHOOSE n \in Node : TRUE
<1>1. c \in Node
  BY NodeAssumption, Zenon
<1>2. setup \in DOMAIN Setups /\ net = {} /\ disk = Env.disk
  BY Zenon DEF Init
<1>3. ASSUME NEW n \in Node PROVE disk[n].snapshot.members.voters = Group
  <2> HIDE DEF c
  <2>1. Env.disk[n].snapshot.members.voters = Env.disk[c].snapshot.members.voters
    BY <1>1, <1>2, Zenon DEF StaticGroups, Env
  <2> QED
    BY <1>2, <2>1, Zenon DEF Group, c
<1>4. ASSUME NEW n \in Node
      PROVE  /\ peer[n].role \in {"follower", "observer"}
             /\ peer[n].members = disk[n].snapshot.members
             /\ peer[n].snapshot = disk[n].snapshot
  BY StartPeerDoes DEF Init
<1>5. ASSUME NEW n \in Node PROVE PeerOK(net, Group, n, peer[n])
  BY <1>3, <1>4, Zenon DEF PeerOK
<1> QED
  BY <1>2, <1>5, Zenon DEF EInv, OneVote

LEMMA EStep ==
    ASSUME SizeFacts, ConfigChange = {}, VInv, EInv, [Next]_vars
    PROVE  EInv'
<1>0. VInv' /\ VotesStay
  BY VStep, Zenon
<1>1. CASE UNCHANGED vars
  <2>1. Group' = Group /\ net' = net /\ peer' = peer /\ disk' = disk /\ setup' = setup
    BY <1>1, Zenon DEF vars, Group, Env
  <2> QED
    BY <2>1, Zenon DEF EInv
<1>2. ASSUME NEW n \in Node, NodeStep(n) PROVE EInv'
  <2> DEFINE V == Group
  <2>1. setup' = setup => Group' = V
    BY Zenon DEF Group, Env
  <2>2. /\ setup \in DOMAIN Setups
        /\ \A v \in Node : PeerOK(net, V, v, peer[v])
        /\ \A m \in net : MessageOK(net, V, disk, m)
        /\ OneVote(net)
    BY Zenon DEF EInv
  <2>3. ASSUME \A b \in net : IsBallot(b) => b \in net', NEW m \in net
        PROVE  MessageOK(net', V, disk', m)
    BY <1>0, <2>2, <2>3, MessageStaysOK, Zenon
  <2> HIDE DEF V
  <2>4. ASSUME \A b \in net : IsBallot(b) => b \in net', NEW v, NEW q, PeerOK(net, V, v, q)
        PROVE  PeerOK(net', V, v, q)
    BY <2>4, PeerStaysOK, Zenon
  <2>5. ASSUME NEW q, q = StartPeer(n, disk[n]) PROVE PeerOK(net, V, n, q)
    <3>1. /\ q.role \in {"follower", "observer"}
          /\ q.members = disk[n].snapshot.members /\ q.snapshot = disk[n].snapshot
      BY <2>5, StartPeerDoes
    <3>2. disk[n].snapshot.members.voters = V
      <4>1. disk[n].snapshot = peer[n].snapshot
        BY Zenon DEF VInv
      <4>2. PeerOK(net, V, n, peer[n])
        BY <2>2, Zenon
      <4> QED
        BY <4>1, <4>2, Zenon DEF PeerOK
    <3> QED
      BY <3>1, <3>2, Zenon DEF PeerOK
  <2>6. CASE Crash(n)
    <3>1. /\ disk' = disk /\ net' = net /\ setup' = setup
          /\ \A v \in Node \ {n} : peer'[v] = peer[v]
          /\ peer'[n] = StartPeer(n, disk[n])
      BY <2>6, CrashDoes, Zenon
    <3>2. \A v \in Node : PeerOK(net', V, v, peer'[v])
      BY <2>2, <2>5, <3>1, Zenon
    <3> QED
      BY <2>1, <2>2, <3>1, <3>2, Zenon DEF EInv
  <2>7. CASE SaveSnapshot(n)
    <3>1. /\ setup' = setup /\ net' = net
          /\ \A v \in Node \ {n} : peer'[v] = peer[v] /\ disk'[v] = disk[v]
          /\ peer'[n].term = peer[n].term
          /\ peer'[n].role = peer[n].role /\ peer'[n].granted = peer[n].granted
          /\ peer'[n].members = peer[n].members /\ peer'[n].snapshot.members = peer[n].members
      BY <2>7, SaveSnapshotDoes, Zenon
    <3>2. PeerOK(net', V, n, peer'[n])
      BY <2>2, <3>1, Zenon DEF PeerOK
    <3>3. \A v \in Node : PeerOK(net', V, v, peer'[v])
      BY <2>2, <3>1, <3>2, Zenon
    <3>4. \A m \in net' : MessageOK(net', V, disk', m)
      BY <2>3, <3>1, Zenon
    <3> QED
      BY <2>1, <2>2, <3>1, <3>3, <3>4, Zenon DEF EInv
  <2>8. CASE Iterates(n)
    <3>1. PICK p, res, rest, rds :
             /\ Moves(n, p, res) /\ Kept(rest)
             /\ Complete(n, res, rest, rds) \/ DieBeforeSave(n, res, rest, rds)
      BY <2>8, Zenon DEF Iterates
    <3>2. /\ setup' = setup
          /\ \A v \in Node \ {n} : peer'[v] = peer[v]
          /\ \/ /\ net' = rest \cup res.out
                /\ Keeps(res.p, peer'[n])
                /\ disk'[n].term = res.p.term /\ disk'[n].vote = res.p.vote
             \/ /\ net' = rest \cup FreeOrderMessages(res.out)
                /\ peer'[n] = StartPeer(n, disk[n])
      BY <3>1, IterationDoes, ZenonT(30)
    <3>3. /\ PeerOK(net \cup res.out, V, n, res.p)
          /\ \A m \in res.out :
                /\ m.type = "InstallSnapshot" => m.ss.members.voters = V
                /\ m.type \in VoteTypes =>
                      m.from = n /\ m.term >= 1 /\ m.term = res.p.term
                /\ IsBallot(m) => Choice(m) \in Node /\ Choice(m) = res.p.vote
                /\ m.type \in LeaderTypes => Elected(net, V, m.term, m.from)
      BY <3>1, MovesSafely, Zenon DEF V
    <3>4. \A b \in net : IsBallot(b) => b \in net'
      BY <3>1, <3>2, Zenon DEF Kept, IsBallot
    <3>5. ASSUME NEW m \in res.out, m.type \in LeaderTypes
          PROVE  Elected(net', V, m.term, m.from)
      BY <3>3, <3>4, <3>5, ElectedStays, Zenon
    <3>6. \A v \in Node \ {n} : PeerOK(net', V, v, peer'[v])
      BY <2>2, <2>4, <3>2, <3>4, Zenon
    <3>7. rest \subseteq net /\ \A m \in rest : MessageOK(net', V, disk', m)
      BY <2>3, <3>1, <3>4, Zenon DEF Kept
    <3>8. CASE /\ net' = rest \cup res.out
               /\ Keeps(res.p, peer'[n])
               /\ disk'[n].term = res.p.term /\ disk'[n].vote = res.p.vote
      <4>1. \A b \in net \cup res.out : IsBallot(b) => b \in net'
        BY <3>4, <3>8, Zenon
      <4>2. PeerOK(net', V, n, res.p)
        BY <3>3, <4>1, PeerStaysOK
      <4>3. PeerOK(net', V, n, peer'[n])
        BY <3>8, <4>2, Zenon DEF Keeps, PeerOK
      <4>4. ASSUME NEW m \in res.out PROVE MessageOK(net', V, disk', m)
        BY <3>3, <3>5, <3>8, Zenon DEF MessageOK, BallotOK, IsBallot, VoteTypes
      <4>5. ASSUME NEW a \in net', NEW b \in res.out, IsBallot(a), IsBallot(b),
                   a.from = b.from, a.term = b.term
            PROVE  Choice(a) = Choice(b)
        <5>1. BallotOK(disk', a)
          BY <3>7, <3>8, <4>4, <4>5, Zenon DEF MessageOK
        <5>2. b.from = n /\ b.term = disk'[n].term /\ Choice(b) = disk'[n].vote
          BY <3>3, <3>8, <4>5, Zenon DEF IsBallot, VoteTypes
        <5>3. disk'[n].term \in Nat
          BY <1>0, Zenon DEF VInv
        <5> QED
          BY <4>5, <5>1, <5>2, <5>3 DEF BallotOK
      <4>6. OneVote(net')
        BY <2>2, <3>7, <3>8, <4>5 DEF OneVote
      <4>7. \A m \in net' : MessageOK(net', V, disk', m)
        BY <3>7, <3>8, <4>4, Zenon
      <4>8. \A v \in Node : PeerOK(net', V, v, peer'[v])
        BY <3>6, <4>3
      <4> QED
        BY <2>1, <2>2, <3>2, <4>6, <4>7, <4>8 DEF EInv
    <3>9. CASE /\ net' = rest \cup FreeOrderMessages(res.out)
               /\ peer'[n] = StartPeer(n, disk[n])
      <4>1. PeerOK(net', V, n, peer'[n])
        BY <2>4, <2>5, <3>4, <3>9, Zenon
      <4>2. ASSUME NEW m \in FreeOrderMessages(res.out)
            PROVE  MessageOK(net', V, disk', m) /\ ~ IsBallot(m)
        BY <3>5, Zenon DEF FreeOrderMessages, MessageOK, IsBallot, VoteTypes, LeaderTypes
      <4>3. OneVote(net')
        BY <2>2, <3>7, <3>9, <4>2, Zenon DEF OneVote
      <4>4. \A m \in net' : MessageOK(net', V, disk', m)
        BY <3>7, <3>9, <4>2, Zenon
      <4>5. \A v \in Node : PeerOK(net', V, v, peer'[v])
        BY <3>6, <4>1, Zenon
      <4> QED
        BY <2>1, <2>2, <3>2, <4>3, <4>4, <4>5, Zenon DEF EInv
    <3> QED
      BY <3>2, <3>8, <3>9, Zenon
  <2> QED
    BY <1>2, <2>6, <2>7, <2>8, EveryStep, Zenon
<1> QED
  BY <1>1, <1>2, Zenon DEF Next

---------------------------------------------------------------------------
\* What a step says.

LEMMA StepSays ==
    ASSUME SizeFacts, ConfigChange = {}, VInv, EInv, NEW n \in Node, NodeStep(n)
    PROVE  Speaks(n)
<1>1. CASE Crash(n)
  BY <1>1, CrashDoes DEF Speaks
<1>2. CASE SaveSnapshot(n)
  BY <1>2, SaveSnapshotDoes DEF Speaks
<1>3. CASE Iterates(n)
  <2>1. PICK p, res, rest, rds :
           /\ Moves(n, p, res) /\ Kept(rest)
           /\ Complete(n, res, rest, rds) \/ DieBeforeSave(n, res, rest, rds)
    BY <1>3, Zenon DEF Iterates
  <2>2. /\ setup' = setup
        /\ \/ /\ net' = rest \cup res.out
              /\ disk'[n].term = res.p.term /\ disk'[n].vote = res.p.vote
           \/ net' = rest \cup FreeOrderMessages(res.out)
    BY <2>1, IterationDoes, ZenonT(200)
  <2>3. \A m \in res.out :
           /\ m.type \in VoteTypes => m.from = n /\ m.term = res.p.term
           /\ IsBallot(m) => Choice(m) = res.p.vote
    <3>1. /\ PeerOK(net \cup res.out, Group, n, res.p)
          /\ \A m \in res.out :
                /\ m.type = "InstallSnapshot" => m.ss.members.voters = Group
                /\ m.type \in VoteTypes =>
                      m.from = n /\ m.term >= 1 /\ m.term = res.p.term
                /\ IsBallot(m) => Choice(m) \in Node /\ Choice(m) = res.p.vote
                /\ m.type \in LeaderTypes => Elected(net, Group, m.term, m.from)
      BY <2>1, MovesSafely, Zenon
    <3> QED
      BY <3>1, Zenon
  <2>4. ASSUME NEW m \in res.out, m.type \in LeaderTypes
        PROVE  m.from = n /\ m.term = peer[n].term
    <3>1. p.role \in {"candidate", "leader"} => p.term = peer[n].term
      BY <2>1, Zenon DEF Moves, Stepped, Keeps
    <3>2. CASE Quiet(net, p, n, res)
      BY <2>4, <3>1, <3>2, Zenon DEF Quiet, Says, MaySay
    <3>3. CASE Reconfigures(p, n, res)
      BY <3>3 DEF Reconfigures
    <3>4. CASE Campaigns(p, n, res)
      BY <2>4, <3>4, Zenon DEF Campaigns, LeaderTypes
    <3>5. ASSUME NEW b \in net, Votes(p, n, b, res) PROVE FALSE
      BY <2>4, <3>5, Zenon DEF Votes, LeaderTypes
    <3>6. ASSUME NEW b \in net, CountsVote(p, n, b, res)
          PROVE  m.from = n /\ m.term = peer[n].term
      BY <2>4, <3>1, <3>6, Zenon DEF CountsVote, Says, MaySay
    <3> QED
      BY <2>1, <3>2, <3>3, <3>4, <3>5, <3>6, Zenon DEF Moves
  <2>5. \A b \in net : IsBallot(b) => b \in net'
    BY <2>1, <2>2, Zenon DEF Kept, IsBallot
  <2>6. ASSUME NEW m \in net' \ net PROVE m \in res.out
    BY <2>1, <2>2, <2>6 DEF Kept, FreeOrderMessages
  <2>7. ASSUME NEW m \in net' \ net, IsBallot(m)
        PROVE  m.from = n /\ disk'[n].term = m.term /\ disk'[n].vote = Choice(m)
    <3>1. m.type \in VoteTypes
      BY <2>7 DEF IsBallot, VoteTypes
    <3>2. m \notin FreeOrderMessages(res.out)
      BY <2>7 DEF FreeOrderMessages, IsBallot
    <3> QED
      BY <2>1, <2>2, <2>3, <2>6, <2>7, <3>1, <3>2 DEF Kept
  <2> QED
    BY <2>2, <2>4, <2>5, <2>6, <2>7, Zenon DEF Speaks
<1> QED
  BY <1>1, <1>2, <1>3, EveryStep

=============================================================================
