------------------------------ MODULE RaftLogs ------------------------------
(***************************************************************************)
(* What the steps of a group do to its logs.  Every step of a node is an   *)
(* iteration of its step engine after which its log is what it was, one    *)
(* entry longer or recombined from links of a message (LogMove,            *)
(* EveryLogStep), a snapshot saved or a crash.  Every step, a crash before *)
(* the save included, keeps nodes, disks and messages in order (SoundInv), *)
(* and keeps LInv: all links, in logs and in messages, that have an index  *)
(* and a term in common are the same, and nobody but the elected leader of *)
(* their term can have made them.  So logs match (LinksMatch).             *)
(***************************************************************************)
EXTENDS RaftInvariants, RaftLogHandlers

---------------------------------------------------------------------------
\* What an iteration of a node's step engine does to its log.

\* Leaders and candidates of a term stay what they are, or are new.
RoleStays(p, q) ==
    q.role \in {"candidate", "leader"} =>
        \/ q.term = p.term /\ q.role = p.role
        \/ q.role = "candidate" /\ q.term > p.term

LogStays(p, q) == q.log = p.log /\ RoleStays(p, q)

\* The leader of a term adds an entry.  Leading a term it enters only now,
\* a node sends nothing before its state is saved.
Leads(p, res) ==
    /\ res.p.role = "leader"
    /\ \E c \in EntryCommand : Adds(p, res.p, c)
    /\ \/ res.p.term = p.term /\ p.role \in {"candidate", "leader"}
       \/ res.p.term > p.term /\ res.out = {}

Takes(p, q) ==
    /\ q.role \notin {"candidate", "leader"}
    /\ \E m \in net : Links(q.log) \subseteq Links(p.log) \cup CarriedLinks(m)

LogMove(n, res) ==
    /\ Sound(res.p) /\ peer[n].term <= res.p.term
    /\ Sends(res.p, res.out)
    /\ LogStays(peer[n], res.p) \/ Leads(peer[n], res) \/ Takes(peer[n], res.p)

\* Node n after it has adopted the term of a message.
Adopts(n, p) ==
    /\ Sound(p) /\ p.log = peer[n].log /\ Sound(peer[n])
    /\ \/ p = peer[n]
       \/ p.term > peer[n].term /\ p.role \in {"follower", "observer"}

LEMMA AdoptsTerm ==
    ASSUME NEW n, NEW p, Adopts(n, p)
    PROVE  p.term \in Nat /\ peer[n].term \in Nat /\ peer[n].term <= p.term
  BY SoundFacts DEF Adopts

LEMMA RestfulMoves ==
    ASSUME NEW n, NEW p, Adopts(n, p), NEW res, Restful(p, res)
    PROVE  LogMove(n, res)
<1>1. p.term \in Nat /\ peer[n].term \in Nat /\ peer[n].term <= p.term
  BY AdoptsTerm, Zenon
<1>2. /\ Sound(res.p) /\ res.p.term = p.term /\ res.p.log = p.log
      /\ res.p.role \in {p.role, "follower"} /\ Sends(p, res.out)
  BY Zenon DEF Restful, Rests
<1>3. Sends(res.p, res.out)
  BY <1>2, Zenon DEF Sends
<1>4. LogStays(peer[n], res.p)
  BY <1>1, <1>2, Zenon DEF Adopts, LogStays, RoleStays
<1> QED
  BY <1>1, <1>2, <1>3, <1>4, Zenon DEF LogMove

LEMMA FollowsMoves ==
    ASSUME NEW n, NEW p, Adopts(n, p), NEW m \in net, NEW res, Follows(p, m, res)
    PROVE  LogMove(n, res)
<1>1. p.term \in Nat /\ peer[n].term \in Nat /\ peer[n].term <= p.term /\ p.log = peer[n].log
  BY AdoptsTerm, Zenon DEF Adopts
<1>2. Takes(peer[n], res.p)
  BY <1>1, Zenon DEF Follows, Takes
<1> QED
  BY <1>1, <1>2, Zenon DEF LogMove, Follows

LEMMA CampaignMoves ==
    ASSUME NEW n \in Node, NEW p, Adopts(n, p), NEW transfer
    PROVE  LogMove(n, Campaign(p, n, transfer))
<1> DEFINE res == Campaign(p, n, transfer)
<1>1. p.term \in Nat /\ peer[n].term \in Nat /\ peer[n].term <= p.term
      /\ p.log = peer[n].log /\ Sound(p)
  BY AdoptsTerm, Zenon DEF Adopts
<1>2. /\ Sound(res.p) /\ res.p.term = p.term + 1
      /\ \/ res.p.role = "leader" /\ Adds(p, res.p, Noop) /\ res.out = {}
         \/ res.p.role = "candidate" /\ res.p.log = p.log /\ Sends(res.p, res.out)
  BY <1>1, CampaignSound, Zenon
<1> HIDE DEF res
<1>3. res.p.term > peer[n].term
  BY <1>1, <1>2
<1>4. CASE res.p.role = "leader" /\ Adds(p, res.p, Noop) /\ res.out = {}
  <2>1. Noop \in EntryCommand /\ Adds(peer[n], res.p, Noop)
    BY <1>1, <1>4, Zenon DEF EntryCommand, Adds
  <2>2. Leads(peer[n], res)
    BY <1>3, <1>4, <2>1, Zenon DEF Leads
  <2>3. Sends(res.p, res.out)
    BY <1>4, Zenon DEF Sends
  <2> QED
    BY <1>1, <1>2, <1>3, <2>2, <2>3 DEF LogMove, res
<1>5. CASE res.p.role = "candidate" /\ res.p.log = p.log /\ Sends(res.p, res.out)
  <2>1. LogStays(peer[n], res.p)
    BY <1>1, <1>3, <1>5, Zenon DEF LogStays, RoleStays
  <2> QED
    BY <1>1, <1>2, <1>3, <1>5, <2>1 DEF LogMove, res
<1> QED
  BY <1>2, <1>4, <1>5, Zenon

LogIterates(n) ==
    \E res, rest, rds :
        /\ LogMove(n, res) /\ rest \subseteq net
        /\ Complete(n, res, rest, rds) \/ DieBeforeSave(n, res, rest, rds)

\* Every node, its disk and every message in flight is in order.
SoundInv ==
    /\ DOMAIN peer = Node /\ DOMAIN disk = Node
    /\ \A n \in Node :
          /\ Sound(peer[n])
          /\ {"term", "committed", "log", "snapshot"} \subseteq DOMAIN disk[n]
          /\ disk[n].term = peer[n].term /\ disk[n].committed = peer[n].committed
          /\ disk[n].log = peer[n].log /\ disk[n].snapshot = peer[n].snapshot
    /\ \A m \in net : MessageSound(m)
    /\ setup \in DOMAIN Setups

LEMMA IterateWithLogIterates ==
    ASSUME NEW n, NEW res, NEW rest, NEW rds,
           LogMove(n, res), rest \subseteq net, IterateWith(n, res, rest, rds)
    PROVE  LogIterates(n)
  BY Zenon DEF IterateWith, LogIterates

LEMMA IterateLogIterates ==
    ASSUME NEW n, NEW res, LogMove(n, res), Iterate(n, res)
    PROVE  LogIterates(n)
  BY IterateWithLogIterates, Zenon DEF Iterate

LEMMA AdoptsOwn ==
    ASSUME NEW n, Sound(peer[n])
    PROVE  Adopts(n, peer[n])
  BY Zenon DEF Adopts

LEMMA CalmIterates ==
    ASSUME NEW n, Sound(peer[n]), NEW res, Calm(peer[n], res), Iterate(n, res)
    PROVE  LogIterates(n)
  BY CalmRests, AdoptsOwn, RestfulMoves, IterateLogIterates, Zenon

LEMMA HoldsIterates ==
    ASSUME NEW n, Sound(peer[n]), NEW q, Holds(peer[n], q), Iterate(n, Result(q, {}))
    PROVE  LogIterates(n)
  BY CalmSilence, CalmIterates, Zenon

LEMMA RestfulIterates ==
    ASSUME NEW n, Sound(peer[n]), NEW res, Restful(peer[n], res), Iterate(n, res)
    PROVE  LogIterates(n)
  BY AdoptsOwn, RestfulMoves, IterateLogIterates, Zenon

LEMMA LocalEventLogIterates ==
    ASSUME SoundInv, NEW n \in Node,
           \/ Election(n) \/ LeaderHeartbeat(n) \/ LeaderElectionTimeout(n)
           \/ \E cmd \in Env.proposals : Propose(n, cmd)
           \/ \E target \in Env.transfers : RequestLeaderTransfer(n, target)
           \/ \E ctx \in Env.reads : RequestRead(n, ctx)
           \/ \E v \in Node, reject \in BOOLEAN : ReportSnapshotStatus(n, v, reject)
           \/ \E v \in Node : ReportUnreachable(n, v)
    PROVE  LogIterates(n)
<1> DEFINE p == peer[n]
<1>1. Sound(p)
  BY Zenon DEF SoundInv
<1>2. p.role = "leader" => p.term >= 1
  BY <1>1, Zenon DEF Sound, TermOK
<1>3. CASE Election(n)
  BY <1>1, <1>3, AdoptsOwn, CampaignMoves, IterateLogIterates, Zenon DEF Election
<1>4. CASE LeaderHeartbeat(n)
  <2> DEFINE ctx == IF p.reads = <<>> THEN None ELSE p.reads[Len(p.reads)].ctx
  <2>1. Iterate(n, BroadcastHeartbeat(p, n, ctx))
    BY <1>4, Zenon DEF LeaderHeartbeat
  <2> HIDE DEF ctx
  <2> QED
    BY <1>1, <2>1, BroadcastHeartbeatCalm, CalmIterates, Zenon
<1>5. CASE LeaderElectionTimeout(n)
  <2>1. Restful(p, Result(HandleLeaderElectionTimeout(p, n), {}))
    BY <1>1, ElectionTimeoutHolds, RestfulSilence, Zenon DEF Rests
  <2> QED
    BY <1>1, <1>5, <2>1, RestfulIterates, Zenon DEF LeaderElectionTimeout
<1>6. ASSUME NEW cmd \in Env.proposals, Propose(n, cmd) PROVE LogIterates(n)
  <2> DEFINE res == HandleLeaderPropose(p, n, cmd)
  <2>1. Iterate(n, res) /\ p.role = "leader" /\ p.term >= 1
    BY <1>2, <1>6, Zenon DEF Propose
  <2>2. cmd \in Command \cup ConfigChange
    BY <1>6, SetupsAssumption, Zenon DEF SoundInv, Env
  <2>3. \/ Calm(p, res)
        \/ \E c \in EntryCommand :
              /\ Sound(res.p) /\ Adds(p, res.p, c)
              /\ res.p.term = p.term /\ res.p.role = p.role
              /\ Sends(res.p, res.out)
    BY <1>1, <2>1, <2>2, ProposeAdds, Zenon
  <2> HIDE DEF res
  <2>4. CASE Calm(p, res)
    BY <1>1, <2>1, <2>4, CalmIterates, Zenon
  <2>5. CASE \E c \in EntryCommand :
              /\ Sound(res.p) /\ Adds(p, res.p, c)
              /\ res.p.term = p.term /\ res.p.role = p.role
              /\ Sends(res.p, res.out)
    <3>1. Leads(p, res)
      BY <2>1, <2>5, Zenon DEF Leads
    <3>2. p.term <= res.p.term
      BY <1>1, <2>5, SoundFacts
    <3>3. LogMove(n, res)
      BY <2>5, <3>1, <3>2, Zenon DEF LogMove
    <3> QED
      BY <2>1, <3>3, IterateLogIterates, Zenon
  <2> QED
    BY <2>3, <2>4, <2>5, Zenon
<1>7. ASSUME NEW target, RequestLeaderTransfer(n, target) PROVE LogIterates(n)
  <2>1. CASE Iterate(n, HandleLeaderLeaderTransfer(p, n, target, target))
    BY <1>1, <2>1, LeaderTransferCalm, CalmIterates, Zenon
  <2>2. CASE Iterate(n, HandleFollowerLeaderTransfer(p, n, target))
    BY <1>1, <2>2, FollowerLeaderTransferCalm, CalmIterates, Zenon
  <2> QED
    BY <1>7, <2>1, <2>2, Zenon DEF RequestLeaderTransfer
<1>8. ASSUME NEW ctx, RequestRead(n, ctx) PROVE LogIterates(n)
  <2> DEFINE rds == [reads EXCEPT ![ctx] = [status |-> "waiting", node |-> n,
                                            base |-> Len(decided), index |-> 0]]
  <2>1. \/ IterateWith(n, HandleLeaderReadIndex(p, n, n, ctx), net, rds)
        \/ IterateWith(n, HandleFollowerReadIndex(p, n, ctx), net, rds)
    BY <1>8, Zenon DEF RequestRead
  <2> HIDE DEF rds
  <2>2. ASSUME NEW res, Calm(p, res), IterateWith(n, res, net, rds) PROVE LogIterates(n)
    BY <1>1, <2>2, CalmRests, AdoptsOwn, RestfulMoves, IterateWithLogIterates, Zenon
  <2> QED
    BY <1>1, <2>1, <2>2, LeaderReadIndexCalm, FollowerReadIndexCalm, Zenon
<1>9. ASSUME NEW v \in Node, NEW reject, ReportSnapshotStatus(n, v, reject) PROVE LogIterates(n)
  BY <1>1, <1>9, SnapshotStatusHolds, HoldsIterates, Zenon DEF ReportSnapshotStatus
<1>10. ASSUME NEW v \in Node, ReportUnreachable(n, v) PROVE LogIterates(n)
  BY <1>1, <1>10, UnreachableHolds, HoldsIterates, Zenon DEF ReportUnreachable
<1> QED
  BY <1>3, <1>4, <1>5, <1>6, <1>7, <1>8, <1>9, <1>10, Zenon

LEMMA ReceptionLogIterates ==
    ASSUME LeastFact, SoundInv, NEW n \in Node, NEW m \in Inbox(n), Recv(n, m)
    PROVE  LogIterates(n)
<1> DEFINE p0 == peer[n]
           p == StepTerm(p0, n, m)
<1>1. Sound(p0) /\ m \in net /\ MessageSound(m)
  BY Zenon DEF SoundInv, Inbox
<1>2. /\ Sound(p) /\ p.log = p0.log /\ p.term >= m.term
      /\ p = p0 \/ (p.term > p0.term /\ p.role \in {"follower", "observer"})
  BY <1>1, StepTermSound, Zenon
<1>3. Adopts(n, p)
  BY <1>1, <1>2, Zenon DEF Adopts
<1>4. p.term \in Nat /\ m.term \in Nat
  BY <1>1, <1>2, SoundFacts, Zenon DEF MessageSound
<1>5. p0.role = "leader" => p0.term >= 1
  BY <1>1, Zenon DEF Sound, TermOK
<1> HIDE DEF p
<1>6. ASSUME NEW res, Restful(p, res), Iterate(n, res) PROVE LogIterates(n)
  BY <1>3, <1>6, RestfulMoves, IterateLogIterates, Zenon
<1>7. ASSUME NEW res, Calm(p0, res), Iterate(n, res) PROVE LogIterates(n)
  BY <1>1, <1>7, CalmIterates, Zenon
<1>8. ASSUME NEW res, Follows(p, m, res), Iterate(n, res) PROVE LogIterates(n)
  BY <1>1, <1>3, <1>8, FollowsMoves, IterateLogIterates, Zenon
<1>9. Receives(n, m, {"leader"}) => p0.role = "leader"
  BY <1>2, Zenon DEF Receives, p
<1>10. Receives(n, m, {"follower", "candidate", "observer"}) => p.role # "leader"
  BY Zenon DEF Receives, p
<1>11. CASE RecvRequestVote(n, m)
  BY <1>2, <1>6, <1>11, RequestVoteCalm, CalmRests, Zenon DEF RecvRequestVote, p
<1>12. CASE RecvRequestVoteResp(n, m)
  <2> DEFINE res == HandleRequestVoteResp(p0, n, m)
  <2>1. Iterate(n, res) /\ p0.role = "candidate"
    BY <1>2, <1>12, Zenon DEF RecvRequestVoteResp, Receives, p
  <2>2. \/ Restful(p0, res)
        \/ /\ Sound(res.p) /\ res.p.term = p0.term /\ res.p.role = "leader"
           /\ Adds(p0, res.p, Noop) /\ Sends(res.p, res.out)
    BY <1>1, <2>1, VoteRespSound, Zenon
  <2> HIDE DEF res
  <2>3. CASE Restful(p0, res)
    BY <1>1, <2>1, <2>3, RestfulIterates, Zenon
  <2>4. CASE /\ Sound(res.p) /\ res.p.term = p0.term /\ res.p.role = "leader"
             /\ Adds(p0, res.p, Noop) /\ Sends(res.p, res.out)
    <3>1. Noop \in EntryCommand
      BY Zenon DEF EntryCommand
    <3>2. Leads(p0, res)
      BY <2>1, <2>4, <3>1, Zenon DEF Leads
    <3>3. p0.term <= res.p.term
      BY <1>1, <2>4, SoundFacts
    <3>4. LogMove(n, res)
      BY <2>4, <3>2, <3>3, Zenon DEF LogMove
    <3> QED
      BY <2>1, <3>4, IterateLogIterates, Zenon
  <2> QED
    BY <2>2, <2>3, <2>4, Zenon
<1>13. CASE RecvReplicate(n, m)
  <2> DEFINE res == HandleReplicate(p, n, m)
  <2>1. CommitIsInLog(res.p) /\ Iterate(n, res) /\ m.type = "Replicate" /\ p.role # "leader"
    BY <1>10, <1>13, Zenon DEF RecvReplicate, p
  <2>2. p.term >= 1
    BY <1>1, <1>2, <1>4, <2>1 DEF MessageSound
  <2>3. Follows(p, m, res)
    BY <1>1, <1>2, <2>1, <2>2, ReplicateFollows, Zenon
  <2> HIDE DEF res
  <2> QED
    BY <1>8, <2>1, <2>3, Zenon
<1>14. CASE RecvReplicateResp(n, m)
  BY <1>1, <1>5, <1>7, <1>9, <1>14, ReplicateRespCalm, Zenon DEF RecvReplicateResp
<1>15. CASE RecvHeartbeat(n, m)
  <2> DEFINE res == HandleHeartbeat(p, n, m)
  <2>1. CommitIsInLog(res.p) /\ Iterate(n, res) /\ m.type = "Heartbeat" /\ p.role # "leader"
    BY <1>10, <1>15, Zenon DEF RecvHeartbeat, p
  <2>2. Follows(p, m, res)
    BY <1>1, <1>2, <2>1, HeartbeatFollows, Zenon
  <2> HIDE DEF res
  <2> QED
    BY <1>8, <2>1, <2>2, Zenon
<1>16. CASE RecvHeartbeatResp(n, m)
  BY <1>1, <1>5, <1>7, <1>9, <1>16, HeartbeatRespCalm, Zenon DEF RecvHeartbeatResp
<1>17. CASE RecvInstallSnapshot(n, m)
  <2> DEFINE res == HandleInstallSnapshot(p, n, m)
  <2>1. Iterate(n, res) /\ m.type = "InstallSnapshot" /\ p.role # "leader"
    BY <1>10, <1>17, Zenon DEF RecvInstallSnapshot, p
  <2>2. p.term >= 1
    BY <1>1, <1>2, <1>4, <2>1 DEF MessageSound
  <2>3. Follows(p, m, res)
    BY <1>1, <1>2, <2>1, <2>2, InstallSnapshotFollows, Zenon
  <2> HIDE DEF res
  <2> QED
    BY <1>8, <2>1, <2>3, Zenon
<1>18. CASE RecvTimeoutNow(n, m)
  <2>1. Iterate(n, IF CanCampaign(p, n) THEN Campaign(p, n, TRUE) ELSE Result(p, {}))
    BY <1>18, Zenon DEF RecvTimeoutNow, p
  <2>2. LogMove(n, Campaign(p, n, TRUE))
    BY <1>3, CampaignMoves, Zenon
  <2>3. Restful(p, Result(p, {}))
    BY <1>2, SoundHolds, HoldsRests, RestfulSilence, Zenon
  <2>4. CASE CanCampaign(p, n)
    BY <2>1, <2>2, <2>4, IterateLogIterates, Zenon
  <2>5. CASE ~ CanCampaign(p, n)
    BY <1>6, <2>1, <2>3, <2>5, Zenon
  <2> QED
    BY <2>4, <2>5, Zenon
<1>19. CASE RecvLeaderTransfer(n, m)
  BY <1>1, <1>7, <1>19, LeaderTransferCalm, Zenon DEF RecvLeaderTransfer
<1>20. CASE RecvReadIndex(n, m)
  <2>1. ASSUME NEW res, Calm(p0, res), IterateWith(n, res, net \ {m}, reads) PROVE LogIterates(n)
    <3>1. LogMove(n, res) /\ net \ {m} \subseteq net
      BY <1>1, <2>1, CalmRests, AdoptsOwn, RestfulMoves, Zenon
    <3> QED
      BY <2>1, <3>1, IterateWithLogIterates, Zenon
  <2> QED
    BY <1>1, <1>20, <2>1, LeaderReadIndexCalm, FollowerReadIndexCalm, Zenon DEF RecvReadIndex
<1>21. CASE RecvReadIndexResp(n, m)
  BY <1>2, <1>6, <1>21, ReadIndexRespCalm, CalmRests, Zenon DEF RecvReadIndexResp, p
<1>22. CASE RecvUnhandled(n, m)
  BY <1>2, <1>6, <1>22, SoundHolds, HoldsRests, RestfulSilence, Zenon DEF RecvUnhandled, p
<1>23. CASE RecvStaleLeaderMessage(n, m)
  <2> DEFINE msg == NoOPMsg(p0, n, m.from)
  <2>1. Iterate(n, Result(p0, {msg}))
    BY <1>23, Zenon DEF RecvStaleLeaderMessage
  <2>2. p0.term \in Nat
    BY <1>1, SoundFacts, Zenon
  <2>3. MessageSound(msg) /\ msg.type = "NoOP"
    BY <2>2, Zenon DEF NoOPMsg, MessageSound
  <2> HIDE DEF msg
  <2>4. Sends(p0, {msg})
    BY <2>3, OtherMsgSends, Zenon DEF Sends
  <2>5. Calm(p0, Result(p0, {msg}))
    BY <1>1, <2>4, SoundHolds, Zenon DEF Calm, Result
  <2> QED
    BY <1>7, <2>1, <2>5, Zenon
<1> QED
  BY <1>11, <1>12, <1>13, <1>14, <1>15, <1>16, <1>17, <1>18, <1>19, <1>20, <1>21, <1>22, <1>23, Zenon
     DEF Recv

LEMMA ApplyToApplies ==
    ASSUME LeastFact, NEW p, Sound(p), p.applied < p.committed
    PROVE  ApplyTo(p) \in p.applied + 1 .. p.committed
<1> DEFINE new == p.applied + 1 .. p.committed
           changes == {i \in new : IsConfigChange(p, i)}
           Is(i) == IF changes = {} THEN i = p.committed ELSE IsFirst(i, changes)
<1>1. p.applied \in Nat /\ p.committed \in Nat
  BY SoundFacts, Zenon
<1>2. \E i \in new : Is(i)
  <2>1. CASE changes = {}
    <3>1. p.committed \in new
      BY <1>1
    <3> QED
      BY <2>1, <3>1, Zenon
  <2>2. CASE changes # {}
    <3>1. changes \in SUBSET Nat /\ changes \subseteq new
      BY <1>1
    <3> HIDE DEF changes, new
    <3>2. PICK k \in changes : \A j \in changes : k <= j
      BY <2>2, <3>1, Zenon DEF LeastFact
    <3> QED
      BY <2>2, <3>1, <3>2, Zenon DEF IsFirst
  <2> QED
    BY <2>1, <2>2, Zenon
<1>3. ApplyTo(p) = CHOOSE i \in new : Is(i)
  BY Zenon DEF ApplyTo
<1> HIDE DEF new, Is
<1>4. ApplyTo(p) \in new
  BY <1>2, <1>3, Zenon
<1> QED
  BY <1>4, Zenon DEF new

LEMMA EveryLogStep ==
    ASSUME LeastFact, SoundInv, NEW n \in Node, NodeStep(n)
    PROVE  LogIterates(n) \/ Crash(n) \/ SaveSnapshot(n)
<1> DEFINE p == peer[n]
<1>1. Sound(p)
  BY Zenon DEF SoundInv
<1>2. CASE Apply(n)
  <2> DEFINE i == ApplyTo(p)
             q == [p EXCEPT !.applied = i]
             cc == p.log[i].cmd
  <2>1. /\ p.applied < p.committed
        /\ Iterate(n, IF IsConfigChange(p, i) THEN HandleConfigChange(q, n, cc)
                                              ELSE Result(q, {}))
    BY <1>2, Zenon DEF Apply
  <2>2. i \in p.applied + 1 .. p.committed
    BY <1>1, <2>1, ApplyToApplies, Zenon
  <2> HIDE DEF i
  <2>3. i \in Nat /\ i <= p.committed /\ p.term >= 1
    <3>1. /\ p.applied \in Nat /\ p.committed \in Nat /\ Len(p.log) \in Nat
          /\ p.committed <= Len(p.log)
      BY <1>1, SoundFacts, Zenon DEF Sound, Ordered
    <3>2. Len(p.log) >= 1
      BY <2>2, <3>1
    <3>3. p.log # <<>>
      BY <3>2
    <3> QED
      BY <1>1, <2>2, <3>1, <3>3 DEF Sound, TermOK
  <2>4. Holds(p, q)
    BY <1>1, <2>3, AppliedHolds, Zenon
  <2> HIDE DEF q
  <2>5. CASE IsConfigChange(p, i)
    <3>1. cc \in ConfigChange /\ Sound(q) /\ q.term >= 1
      BY <2>3, <2>4, <2>5, Zenon DEF IsConfigChange, Holds
    <3> HIDE DEF cc
    <3>2. Restful(q, HandleConfigChange(q, n, cc))
      BY <3>1, ConfigChangeRests, Zenon
    <3>3. Restful(p, HandleConfigChange(q, n, cc))
      BY <2>4, <3>2, Zenon DEF Restful, Rests, Holds, Sends
    <3> QED
      BY <1>1, <2>1, <2>5, <3>3, RestfulIterates, Zenon
  <2>6. CASE ~ IsConfigChange(p, i)
    BY <1>1, <2>1, <2>4, <2>6, HoldsIterates, Zenon
  <2> QED
    BY <2>5, <2>6, Zenon
<1>3. CASE RecoverFromSnapshot(n)
  <2> DEFINE q == [p EXCEPT !.applied = p.snapshot.index]
             ms == p.snapshot.members
  <2>1. Iterate(n, Result(RestoreRemotes(q, n, ms), {}))
    BY <1>3, Zenon DEF RecoverFromSnapshot
  <2>2. p.snapshot.index \in Nat /\ p.snapshot.index <= p.committed /\ ms \in Members
    BY <1>1, SoundFacts, Zenon DEF Sound, Ordered
  <2>3. Holds(p, q)
    BY <1>1, <2>2, AppliedHolds, Zenon
  <2> HIDE DEF q, ms
  <2>4. Rests(q, RestoreRemotes(q, n, ms))
    BY <2>2, <2>3, RestoreRemotesRests, Zenon DEF Holds
  <2>5. Restful(p, Result(RestoreRemotes(q, n, ms), {}))
    BY <2>3, <2>4, HoldsRests, RestsTransitive, RestfulSilence, Zenon
  <2> QED
    BY <1>1, <2>1, <2>5, RestfulIterates, Zenon
<1> QED
  BY <1>2, <1>3, LocalEventLogIterates, ReceptionLogIterates, Zenon DEF NodeStep

---------------------------------------------------------------------------
\* Every step keeps every node and every message in order.

LEMMA StartPeerSound ==
    ASSUME NEW n, NEW d, IsLog(d.log), d.term \in Nat, d.log # <<>> => d.term >= 1,
           d.committed \in Nat, d.snapshot \in Snapshot,
           d.snapshot.index <= d.committed, d.committed <= Len(d.log)
    PROVE  /\ Sound(StartPeer(n, d))
           /\ StartPeer(n, d).term = d.term /\ StartPeer(n, d).log = d.log
           /\ StartPeer(n, d).committed = d.committed
           /\ StartPeer(n, d).snapshot = d.snapshot
           /\ StartPeer(n, d).role \in {"follower", "observer"}
<1> DEFINE observer == n \in Env.observers /\ n \notin d.snapshot.members.voters
           p == [term |-> d.term, vote |-> d.vote,
                 role |-> IF observer THEN "observer" ELSE "follower",
                 leader |-> None, granted |-> {}, rejected |-> {},
                 log |-> d.log, marker |-> d.snapshot.index,
                 committed |-> d.committed, applied |-> d.snapshot.index,
                 snapshot |-> d.snapshot, compactTo |-> 0,
                 members |-> d.snapshot.members,
                 remotes |-> [v \in Node |-> NewRemote(0, 1)],
                 pendingConfigChange |-> FALSE, transferTarget |-> None,
                 reads |-> <<>>, readyToRead |-> {}, checkQuorum |-> Env.checkQuorum]
           remotes == ResetRemotes(p, n)
           q == [p EXCEPT !.remotes = remotes]
<1>1. StartPeer(n, d) = q
  BY Zenon DEF StartPeer
<1> HIDE DEF observer
<1>2. p.log = d.log
  BY Zenon
<1>3. remotes \in [Node -> Remote]
  <2>1. LastIndex(p) \in Nat
    BY <1>2, LogFacts, Zenon DEF LastIndex
  <2> HIDE DEF p
  <2>2. \A v \in Node : NewRemote(IF v = n THEN LastIndex(p) ELSE 0, LastIndex(p) + 1) \in Remote
    BY <2>1, NewRemoteIsRemote, Zenon
  <2> QED
    BY <2>2, Zenon DEF ResetRemotes
<1> HIDE DEF remotes
<1>4. /\ Fields(q) /\ q.term = d.term /\ q.log = d.log /\ q.committed = d.committed
      /\ q.snapshot = d.snapshot /\ q.marker = d.snapshot.index
      /\ q.applied = d.snapshot.index /\ q.compactTo = 0
      /\ q.members = d.snapshot.members /\ q.remotes = remotes
      /\ q.role \in {"follower", "observer"}
  BY Zenon DEF Fields
<1> HIDE DEF q
<1>5. d.snapshot.index \in Nat /\ d.snapshot.members \in Members
  BY Zenon DEF Snapshot
<1>6. Ordered(q)
  BY <1>4, <1>5 DEF Ordered
<1>7. TermOK(q)
  BY <1>4, Zenon DEF TermOK
<1>8. Sound(q)
  BY <1>3, <1>4, <1>5, <1>6, <1>7, Zenon DEF Sound
<1> QED
  BY <1>1, <1>4, <1>8, Zenon

LEMMA DiskStartsSound ==
    ASSUME NEW n, NEW d \in Disk, DiskInOrder(d)
    PROVE  /\ IsLog(d.log) /\ d.term \in Nat /\ (d.log # <<>> => d.term >= 1)
           /\ d.committed \in Nat /\ d.snapshot \in Snapshot
           /\ d.snapshot.index <= d.committed /\ d.committed <= Len(d.log)
<1>1. /\ d.term \in Nat /\ d.log \in Seq(Entry) /\ d.committed \in Nat
      /\ d.snapshot \in Snapshot
      /\ d.snapshot.index <= d.committed /\ d.committed <= Len(d.log)
  BY Zenon DEF DiskInOrder, Disk
<1>2. \A i \in 1..Len(d.log) : d.log[i].term \in 1..d.term
  BY Zenon DEF DiskInOrder
<1>3. IsLog(d.log)
  BY <1>1, <1>2 DEF IsLog
<1>4. ASSUME d.log # <<>> PROVE d.term >= 1
  <2>1. 1 \in 1..Len(d.log)
    BY <1>1, <1>4
  <2> QED
    BY <1>1, <1>2, <2>1
<1> QED
  BY <1>1, <1>3, <1>4, Zenon

LEMMA SoundInvInit ==
    ASSUME Init
    PROVE  SoundInv
<1>1. setup \in DOMAIN Setups /\ net = {}
  BY Zenon DEF Init
<1>2. DOMAIN disk = Node /\ \A n \in Node : disk[n] \in Disk /\ DiskInOrder(disk[n])
  BY <1>1, SetupsAssumption, Zenon DEF Init, Env
<1>3. DOMAIN peer = Node /\ \A n \in Node : peer[n] = StartPeer(n, disk[n])
  BY Zenon DEF Init
<1>4. ASSUME NEW n \in Node
      PROVE  /\ Sound(peer[n])
             /\ {"term", "committed", "log", "snapshot"} \subseteq DOMAIN disk[n]
             /\ disk[n].term = peer[n].term /\ disk[n].committed = peer[n].committed
             /\ disk[n].log = peer[n].log /\ disk[n].snapshot = peer[n].snapshot
  <2>1. {"term", "committed", "log", "snapshot"} \subseteq DOMAIN disk[n]
    BY <1>2, Zenon DEF DiskInOrder, Disk
  <2> QED
    BY <1>2, <1>3, <2>1, DiskStartsSound, StartPeerSound
<1> QED
  BY <1>1, <1>2, <1>3, <1>4, Zenon DEF SoundInv

\* The log is compacted when an iteration completes.
LEMMA CompactedSound ==
    ASSUME NEW p, Sound(p)
    PROVE  LET q == [p EXCEPT !.marker = MaxOf(p.marker, p.compactTo), !.compactTo = 0,
                              !.readyToRead = {}]
           IN  /\ Holds(p, q) /\ q.committed = p.committed /\ q.snapshot = p.snapshot
<1> DEFINE k == MaxOf(p.marker, p.compactTo)
           q == [p EXCEPT !.marker = k, !.compactTo = 0, !.readyToRead = {}]
<1>1. Fields(p)
  BY Zenon DEF Sound
<1>2. p.marker \in Nat /\ p.compactTo \in Nat /\ p.snapshot.index \in Nat
      /\ p.marker <= p.snapshot.index /\ p.compactTo <= p.snapshot.index
  BY SoundFacts, Zenon DEF Sound, Ordered
<1>3. k \in Nat /\ k <= p.snapshot.index
  BY <1>2, Zenon DEF MaxOf
<1> HIDE DEF k
<1>4. /\ Fields(q) /\ q.members = p.members /\ q.remotes = p.remotes
      /\ q.log = p.log /\ q.marker = k /\ q.committed = p.committed
      /\ q.applied = p.applied /\ q.snapshot = p.snapshot /\ q.compactTo = 0
      /\ q.term = p.term /\ q.role = p.role
  BY <1>1, Zenon DEF Fields
<1> HIDE DEF q
<1>5. Ordered(q)
  BY <1>2, <1>3, <1>4 DEF Ordered, Sound
<1>6. TermOK(q)
  BY <1>4, Zenon DEF TermOK, Sound
<1>7. Sound(q)
  BY <1>4, <1>5, <1>6, Zenon DEF Sound
<1>8. Holds(p, q)
  BY <1>4, <1>7, Zenon DEF Holds
<1> QED
  BY <1>4, <1>8, Zenon DEF q, k

LEMMA SoundInvCrash ==
    ASSUME SoundInv, NEW n \in Node
    PROVE  LET q == StartPeer(n, disk[n])
           IN  /\ Sound(q) /\ q.role \in {"follower", "observer"}
               /\ disk[n].term = q.term /\ disk[n].committed = q.committed
               /\ disk[n].log = q.log /\ disk[n].snapshot = q.snapshot
<1> DEFINE d == disk[n]
           p == peer[n]
<1>1. /\ Sound(p) /\ d.term = p.term /\ d.committed = p.committed
      /\ d.log = p.log /\ d.snapshot = p.snapshot
  BY Zenon DEF SoundInv
<1>2. /\ IsLog(d.log) /\ d.term \in Nat /\ (d.log # <<>> => d.term >= 1)
      /\ d.committed \in Nat /\ d.snapshot \in Snapshot
      /\ d.snapshot.index <= d.committed /\ d.committed <= Len(d.log)
  BY <1>1, Zenon DEF Sound, TermOK, Ordered
<1> HIDE DEF d
<1> QED
  BY <1>2, StartPeerSound DEF d

\* An iteration that completes, or that dies before its save.
LEMMA LogIterationDoes ==
    ASSUME SoundInv, NEW n \in Node, NEW res, NEW rest, NEW rds,
           LogMove(n, res), rest \subseteq net,
           Complete(n, res, rest, rds) \/ DieBeforeSave(n, res, rest, rds)
    PROVE  /\ DOMAIN peer' = Node /\ DOMAIN disk' = Node /\ setup' = setup
           /\ \A v \in Node \ {n} : peer'[v] = peer[v] /\ disk'[v] = disk[v]
           /\ Sound(peer'[n])
           /\ {"term", "committed", "log", "snapshot"} \subseteq DOMAIN disk'[n]
           /\ disk'[n].term = peer'[n].term /\ disk'[n].committed = peer'[n].committed
           /\ disk'[n].log = peer'[n].log /\ disk'[n].snapshot = peer'[n].snapshot
           /\ \/ net' = rest \cup res.out /\ Holds(res.p, peer'[n])
              \/ /\ net' = rest \cup FreeOrderMessages(res.out)
                 /\ peer'[n] = StartPeer(n, disk[n]) /\ disk'[n] = disk[n]
<1>1. DOMAIN peer = Node /\ DOMAIN disk = Node
  BY Zenon DEF SoundInv
<1>2. Sound(res.p)
  BY Zenon DEF LogMove
<1>3. CASE Complete(n, res, rest, rds)
  <2> DEFINE q == [res.p EXCEPT !.marker = MaxOf(res.p.marker, res.p.compactTo),
                                !.compactTo = 0, !.readyToRead = {}]
             d == Durable(res.p)
  <2>1. Holds(res.p, q) /\ q.committed = res.p.committed /\ q.snapshot = res.p.snapshot
    BY <1>2, CompactedSound, Zenon
  <2>2. peer' = [peer EXCEPT ![n] = q] /\ setup' = setup /\ net' = rest \cup res.out
    BY <1>3, Zenon DEF Complete
  <2>3. disk' = [disk EXCEPT ![n] = d]
    BY <1>3, Zenon DEF Complete
  <2>4. /\ {"term", "committed", "log", "snapshot"} \subseteq DOMAIN d
        /\ d.term = res.p.term /\ d.committed = res.p.committed /\ d.log = res.p.log
        /\ d.snapshot = res.p.snapshot
    BY Zenon DEF Durable
  <2> HIDE DEF q, d
  <2>5. /\ DOMAIN peer' = Node /\ DOMAIN disk' = Node
        /\ \A v \in Node \ {n} : peer'[v] = peer[v] /\ disk'[v] = disk[v]
        /\ peer'[n] = q /\ disk'[n] = d
    BY <1>1, <2>2, <2>3, Zenon
  <2> QED
    BY <2>1, <2>2, <2>4, <2>5, Zenon DEF Holds
<1>4. CASE DieBeforeSave(n, res, rest, rds)
  <2>1. /\ net' = rest \cup FreeOrderMessages(res.out) /\ setup' = setup /\ disk' = disk
        /\ peer' = [peer EXCEPT ![n] = StartPeer(n, disk[n])]
    BY <1>4, Zenon DEF DieBeforeSave, Restart
  <2>2. /\ DOMAIN peer' = Node /\ peer'[n] = StartPeer(n, disk[n])
        /\ \A v \in Node \ {n} : peer'[v] = peer[v]
    BY <1>1, <2>1, Zenon
  <2>3. {"term", "committed", "log", "snapshot"} \subseteq DOMAIN disk[n]
    BY Zenon DEF SoundInv
  <2> QED
    BY <1>1, <2>1, <2>2, <2>3, SoundInvCrash, Zenon
<1> QED
  BY <1>3, <1>4, Zenon

LEMMA SaveSnapshotSound ==
    ASSUME SoundInv, NEW n \in Node, SaveSnapshot(n)
    PROVE  /\ DOMAIN peer' = Node /\ DOMAIN disk' = Node /\ setup' = setup /\ net' = net
           /\ \A v \in Node \ {n} : peer'[v] = peer[v] /\ disk'[v] = disk[v]
           /\ Holds(peer[n], peer'[n])
           /\ {"term", "committed", "log", "snapshot"} \subseteq DOMAIN disk'[n]
           /\ disk'[n].term = peer'[n].term /\ disk'[n].committed = peer'[n].committed
           /\ disk'[n].log = peer'[n].log /\ disk'[n].snapshot = peer'[n].snapshot
<1> DEFINE p == peer[n]
           ss == [index |-> p.applied, members |-> p.members]
           c == MaxOf(0, p.applied - Env.compactionOverhead)
           q == [p EXCEPT !.snapshot = ss, !.compactTo = c]
           d == [disk[n] EXCEPT !.snapshot = ss]
<1>1. peer' = [peer EXCEPT ![n].snapshot = ss, ![n].compactTo = c]
  BY Zenon DEF SaveSnapshot
<1>2. disk' = [disk EXCEPT ![n].snapshot = ss] /\ net' = net /\ setup' = setup
  BY Zenon DEF SaveSnapshot
<1>3. p.applied > Env.snapshotEntries + p.snapshot.index
  BY Zenon DEF SaveSnapshot
<1>4. Env.snapshotEntries \in Nat /\ Env.compactionOverhead \in Nat
  BY SetupsAssumption, Zenon DEF SoundInv, Env
<1>5. /\ Sound(p) /\ Fields(p) /\ p.applied \in Nat /\ p.snapshot.index \in Nat
      /\ p.members \in Members /\ p.marker \in Nat /\ p.marker <= p.snapshot.index
      /\ p.applied <= p.committed
  BY SoundFacts, Zenon DEF SoundInv, Sound, Ordered
<1>6. ss \in Snapshot /\ ss.index = p.applied
  BY <1>5, Zenon DEF Snapshot
<1>7. c \in Nat /\ c <= p.applied
  BY <1>4, <1>5 DEF MaxOf
<1>8. p.marker <= p.applied
  BY <1>3, <1>4, <1>5
<1> HIDE DEF ss, c
<1>9. /\ DOMAIN peer' = Node /\ DOMAIN disk' = Node
      /\ \A v \in Node \ {n} : peer'[v] = peer[v] /\ disk'[v] = disk[v]
      /\ peer'[n] = q /\ disk'[n] = d
  BY <1>1, <1>2, Zenon DEF SoundInv
<1>10. /\ Fields(q) /\ q.members = p.members /\ q.remotes = p.remotes
       /\ q.log = p.log /\ q.marker = p.marker /\ q.committed = p.committed
       /\ q.applied = p.applied /\ q.snapshot = ss /\ q.compactTo = c
       /\ q.term = p.term /\ q.role = p.role
  BY <1>5, Zenon DEF Fields
<1>11. /\ {"term", "committed", "log", "snapshot"} \subseteq DOMAIN d
       /\ d.term = p.term /\ d.committed = p.committed /\ d.log = p.log
       /\ d.snapshot = ss
  BY Zenon DEF SoundInv
<1> HIDE DEF q, d
<1>12. Ordered(q)
  <2>1. p.committed \in Nat /\ p.committed <= Len(p.log)
    BY <1>5, SoundFacts, Zenon DEF Sound, Ordered
  <2> QED
    BY <1>5, <1>6, <1>7, <1>8, <1>10, <2>1 DEF Ordered
<1>13. TermOK(q)
  BY <1>5, <1>10, Zenon DEF TermOK, Sound
<1>14. Holds(p, q)
  BY <1>5, <1>10, <1>12, <1>13, Zenon DEF Holds, Sound
<1> QED
  BY <1>2, <1>9, <1>10, <1>11, <1>14, Zenon

LEMMA SoundInvStep ==
    ASSUME LeastFact, SoundInv, [Next]_vars
    PROVE  SoundInv'
<1>1. CASE UNCHANGED vars
  <2>1. peer' = peer /\ disk' = disk /\ net' = net /\ setup' = setup
    BY <1>1, Zenon DEF vars
  <2> QED
    BY <2>1, Zenon DEF SoundInv
<1>2. ASSUME NEW n \in Node, NodeStep(n) PROVE SoundInv'
  <2> DEFINE OK(v) == /\ Sound(peer'[v])
                      /\ {"term", "committed", "log", "snapshot"} \subseteq DOMAIN disk'[v]
                      /\ disk'[v].term = peer'[v].term /\ disk'[v].committed = peer'[v].committed
                      /\ disk'[v].log = peer'[v].log /\ disk'[v].snapshot = peer'[v].snapshot
  <2>1. ASSUME DOMAIN peer' = Node, DOMAIN disk' = Node, setup' = setup, OK(n),
               \A v \in Node \ {n} : peer'[v] = peer[v] /\ disk'[v] = disk[v],
               \A m \in net' : MessageSound(m)
        PROVE  SoundInv'
    <3>1. \A v \in Node : OK(v)
      BY <2>1 DEF SoundInv
    <3> QED
      BY <2>1, <3>1, Zenon DEF SoundInv
  <2>2. CASE LogIterates(n)
    <3>1. PICK res, rest, rds :
             /\ LogMove(n, res) /\ rest \subseteq net
             /\ Complete(n, res, rest, rds) \/ DieBeforeSave(n, res, rest, rds)
      BY <2>2, Zenon DEF LogIterates
    <3>2. /\ DOMAIN peer' = Node /\ DOMAIN disk' = Node /\ setup' = setup
          /\ \A v \in Node \ {n} : peer'[v] = peer[v] /\ disk'[v] = disk[v]
          /\ OK(n)
          /\ net' = rest \cup res.out \/ net' = rest \cup FreeOrderMessages(res.out)
      BY <3>1, LogIterationDoes, Zenon
    <3>3. \A m \in net' : MessageSound(m)
      BY <3>1, <3>2, Zenon DEF LogMove, Sends, FreeOrderMessages, SoundInv
    <3> QED
      BY <2>1, <3>2, <3>3, Zenon
  <2>3. CASE Crash(n)
    <3>1. /\ disk' = disk /\ net' = net /\ setup' = setup
          /\ peer' = [peer EXCEPT ![n] = StartPeer(n, disk[n])]
      BY <2>3, Zenon DEF Crash, Restart
    <3>2. /\ DOMAIN peer' = Node /\ peer'[n] = StartPeer(n, disk[n])
          /\ \A v \in Node \ {n} : peer'[v] = peer[v]
      BY <3>1, Zenon DEF SoundInv
    <3>3. OK(n)
      BY <3>1, <3>2, SoundInvCrash, Zenon DEF SoundInv
    <3> QED
      BY <2>1, <3>1, <3>2, <3>3, Zenon DEF SoundInv
  <2>4. CASE SaveSnapshot(n)
    <3>1. /\ DOMAIN peer' = Node /\ DOMAIN disk' = Node /\ setup' = setup /\ net' = net
          /\ \A v \in Node \ {n} : peer'[v] = peer[v] /\ disk'[v] = disk[v]
          /\ OK(n)
      BY <2>4, SaveSnapshotSound, Zenon DEF Holds
    <3> QED
      BY <2>1, <3>1, Zenon DEF SoundInv
  <2> QED
    BY <1>2, <2>2, <2>3, <2>4, EveryLogStep, Zenon
<1> QED
  BY <1>1, <1>2, Zenon DEF Next

---------------------------------------------------------------------------
\* The disks a group starts from.

\* Term t has had its leader c, elected by the voters V, and the disks d
\* remember it.
Settled(d, V, t) ==
    \E c \in V :
        /\ d[c].term >= t
        /\ \/ V = {c}
           \/ \E Q \in SUBSET V :
                 /\ Cardinality(Q) = Cardinality(V) \div 2 + 1
                 /\ \A v \in Q : d[v].term > t \/ (d[v].term = t /\ d[v].vote = c)

\* What a group that has been running leaves behind: logs that match, with
\* entries of terms that have had their leaders.
SettledDisks ==
    \A s \in DOMAIN Setups : \A a, b \in Node :
        LET d == Setups[s].disk
            x == d[a].log
            y == d[b].log
        IN  /\ \A i \in 1..MinOf(Len(x), Len(y)) :
                  x[i].term = y[i].term => \A j \in 1..i : x[j] = y[j]
            /\ \A i \in 1..Len(x) : Settled(d, d[b].snapshot.members.voters, x[i].term)

---------------------------------------------------------------------------
\* The inductive invariant.

AllLinks ==
    (UNION {Links(peer[n].log) : n \in Node}) \cup (UNION {CarriedLinks(m) : m \in net})

\* Node c is not, and will never again be, a candidate of term t.
Past(c, t) ==
    peer[c].term > t \/ (peer[c].term = t /\ peer[c].role # "candidate")

\* Voter v can elect nobody but c in term t: it has voted, or its disk said so
\* from the start.
Promised(v, t, c) ==
    \/ HasVoted(net, v, t, c)
    \/ Env.disk[v].term > t
    \/ Env.disk[v].term = t /\ Env.disk[v].vote = c

Owned(t) ==
    \E c \in Group :
        /\ Past(c, t)
        /\ \/ Group = {c}
           \/ \E Q \in SUBSET Group :
                 /\ Cardinality(Q) = Cardinality(Group) \div 2 + 1
                 /\ \A v \in Q : Promised(v, t, c)

\* One index and one term have one entry, after one term.
LinksAgree ==
    \A x, y \in AllLinks : x.at = y.at /\ x.entry.term = y.entry.term => x = y

LinksOwned == \A x \in AllLinks : Owned(x.entry.term)

LeadersReach ==
    \A n \in Node : peer[n].role = "leader" =>
        \A x \in AllLinks : x.entry.term = peer[n].term => x.at <= Len(peer[n].log)

\* No disk takes back what it said at the start, and no ballot contradicts
\* it.
DisksGrow ==
    \A n \in Node :
        /\ Env.disk[n].term <= disk[n].term
        /\ Env.disk[n].term = disk[n].term /\ Env.disk[n].vote # None =>
              disk[n].vote = Env.disk[n].vote

BallotsAreNew ==
    \A m \in net : IsBallot(m) =>
        \/ Env.disk[m.from].term < m.term
        \/ Env.disk[m.from].term = m.term /\ Env.disk[m.from].vote \in {None, Choice(m)}

LInv == LinksAgree /\ LinksOwned /\ LeadersReach /\ DisksGrow /\ BallotsAreNew

\* A promise stays a promise.
LEMMA PromisedStays ==
    ASSUME setup' = setup, \A b \in net : IsBallot(b) => b \in net',
           NEW v, NEW t, NEW c, Promised(v, t, c)
    PROVE  Promised(v, t, c)'
<1>1. CASE HasVoted(net, v, t, c)
  BY <1>1, Zenon DEF Promised, HasVoted
<1>2. CASE ~ HasVoted(net, v, t, c)
  BY <1>2, Zenon DEF Promised, Env
<1> QED
  BY <1>1, <1>2, Zenon

LEMMA OwnedStays ==
    ASSUME setup' = setup, \A b \in net : IsBallot(b) => b \in net', NEW t,
           \A c \in Group : Past(c, t) => Past(c, t)', Owned(t)
    PROVE  Owned(t)'
<1>1. Group' = Group
  BY Zenon DEF Group, Env
<1>2. PICK c \in Group :
         /\ Past(c, t)
         /\ \/ Group = {c}
            \/ \E Q \in SUBSET Group :
                  /\ Cardinality(Q) = Cardinality(Group) \div 2 + 1
                  /\ \A v \in Q : Promised(v, t, c)
  BY Zenon DEF Owned
<1>3. Past(c, t)'
  BY <1>2, Zenon
<1>4. CASE Group = {c}
  BY <1>1, <1>3, <1>4, Zenon DEF Owned
<1>5. ASSUME NEW Q \in SUBSET Group, Cardinality(Q) = Cardinality(Group) \div 2 + 1,
             \A v \in Q : Promised(v, t, c)
      PROVE  Owned(t)'
  <2>1. \A v \in Q : Promised(v, t, c)'
    BY <1>5, PromisedStays, Zenon
  <2> QED
    BY <1>1, <1>3, <1>5, <2>1, Zenon DEF Owned
<1> QED
  BY <1>2, <1>4, <1>5, Zenon

---------------------------------------------------------------------------
\* What a step does to the links.

\* Node n leaves the links as they are, and does not become a leader.
KeepsLinks(n) ==
    /\ AllLinks' \subseteq AllLinks
    /\ peer'[n].role = "leader" =>
          /\ peer[n].role = "leader" /\ peer'[n].term = peer[n].term
          /\ peer'[n].log = peer[n].log

\* Node n adds entry e, as the leader that it was or that it has just become.
AddsLink(n, e) ==
    /\ e \in Entry
    /\ AllLinks' \subseteq AllLinks \cup {NewLink(peer[n].log, e)}
    /\ \/ peer[n].role = "leader" /\ peer[n].term = e.term
       \/ ~ Past(n, e.term)
    /\ Past(n, e.term)' /\ Elected(net', Group, e.term, n)
    /\ peer'[n].role = "leader" =>
          peer'[n].term = e.term /\ Len(peer'[n].log) = Len(peer[n].log) + 1

LEMMA LinksOfPeer ==
    ASSUME NEW n \in Node
    PROVE  Links(peer[n].log) \subseteq AllLinks
  BY Zenon DEF AllLinks

LEMMA LinksOfMessage ==
    ASSUME NEW m \in net
    PROVE  CarriedLinks(m) \subseteq AllLinks
  BY Zenon DEF AllLinks

\* The links after a step of node n.
LEMMA LinksAfter ==
    ASSUME NEW n \in Node, NEW L, \A v \in Node \ {n} : peer'[v] = peer[v],
           Links(peer'[n].log) \subseteq AllLinks \cup L,
           \A m \in net' \ net : CarriedLinks(m) \subseteq AllLinks \cup L
    PROVE  AllLinks' \subseteq AllLinks \cup L
<1>1. ASSUME NEW x, NEW v \in Node, x \in Links(peer'[v].log) PROVE x \in AllLinks \cup L
  BY <1>1, LinksOfPeer, Zenon
<1>2. ASSUME NEW x, NEW m \in net', x \in CarriedLinks(m) PROVE x \in AllLinks \cup L
  BY <1>2, LinksOfMessage, Zenon
<1>3. AllLinks' = (UNION {Links(peer'[v].log) : v \in Node}) \cup
                  (UNION {CarriedLinks(m) : m \in net'})
  BY Zenon DEF AllLinks, Links, CarriedLinks, EntriesLinks, Link, TermBefore
<1>4. ASSUME NEW x \in AllLinks' PROVE x \in AllLinks \cup L
  <2>1. \/ \E v \in Node : x \in Links(peer'[v].log)
        \/ \E m \in net' : x \in CarriedLinks(m)
    BY <1>3, <1>4, Zenon
  <2> QED
    BY <1>1, <1>2, <2>1, Zenon
<1> QED
  BY <1>4, Zenon

LEMMA LogStepDoes ==
    ASSUME LeastFact, SoundInv, EInv', NEW n \in Node, NodeStep(n), Speaks(n)
    PROVE  /\ \A v \in Node \ {n} : peer'[v] = peer[v]
           /\ peer[n].term <= peer'[n].term
           /\ RoleStays(peer[n], peer'[n]) \/ peer'[n].role = "leader"
           /\ KeepsLinks(n) \/ \E e : AddsLink(n, e)
<1> DEFINE p == peer[n]
<1>1. /\ Sound(p) /\ p.term \in Nat /\ IsLog(p.log) /\ Links(p.log) \subseteq AllLinks
      /\ StartPeer(n, disk[n]).term = p.term /\ StartPeer(n, disk[n]).log = p.log
      /\ StartPeer(n, disk[n]).role \in {"follower", "observer"}
  BY SoundFacts, SoundInvCrash, LinksOfPeer, Zenon DEF SoundInv
<1>2. CASE Crash(n)
  <2>1. /\ net' = net
        /\ \A v \in Node \ {n} : peer'[v] = peer[v]
        /\ peer'[n] = StartPeer(n, disk[n])
    BY <1>2, Zenon DEF Crash, Restart, SoundInv
  <2>2. AllLinks' \subseteq AllLinks \cup {}
    BY <1>1, <2>1, LinksAfter, Zenon
  <2> QED
    BY <1>1, <2>1, <2>2 DEF KeepsLinks, RoleStays
<1>3. CASE SaveSnapshot(n)
  <2>1. /\ net' = net
        /\ \A v \in Node \ {n} : peer'[v] = peer[v]
        /\ Holds(p, peer'[n])
    BY <1>3, SaveSnapshotSound, Zenon
  <2>2. AllLinks' \subseteq AllLinks \cup {}
    BY <1>1, <2>1, LinksAfter, Zenon DEF Holds
  <2> QED
    BY <1>1, <2>1, <2>2 DEF KeepsLinks, RoleStays, Holds
<1>4. CASE LogIterates(n)
  <2>1. PICK res, rest, rds :
           /\ LogMove(n, res) /\ rest \subseteq net
           /\ Complete(n, res, rest, rds) \/ DieBeforeSave(n, res, rest, rds)
    BY <1>4, Zenon DEF LogIterates
  <2> DEFINE q == res.p
  <2>2. /\ \A v \in Node \ {n} : peer'[v] = peer[v]
        /\ \/ net' = rest \cup res.out /\ Holds(q, peer'[n])
           \/ /\ net' = rest \cup FreeOrderMessages(res.out)
              /\ peer'[n] = StartPeer(n, disk[n])
    BY <2>1, LogIterationDoes, Zenon
  <2>3. /\ Sound(q) /\ q.term \in Nat /\ p.term <= q.term /\ Sends(q, res.out)
        /\ LogStays(p, q) \/ Leads(p, res) \/ Takes(p, q)
    BY <2>1, SoundFacts, Zenon DEF LogMove
  <2>4. \/ peer'[n].term = q.term /\ peer'[n].log = q.log /\ peer'[n].role = q.role
        \/ /\ peer'[n].term = p.term /\ peer'[n].log = p.log
           /\ peer'[n].role \in {"follower", "observer"}
    BY <1>1, <2>2, Zenon DEF Holds
  <2>5. \A m \in net' \ net : m \in res.out /\ CarriedLinks(m) \subseteq Links(q.log)
    BY <2>1, <2>2, <2>3, Zenon DEF Sends, FreeOrderMessages
  <2>6. ASSUME Links(q.log) \subseteq AllLinks PROVE AllLinks' \subseteq AllLinks
    <3>1. Links(peer'[n].log) \subseteq AllLinks \cup {}
      BY <1>1, <2>4, <2>6, Zenon
    <3>2. AllLinks' \subseteq AllLinks \cup {}
      BY <2>2, <2>5, <2>6, <3>1, LinksAfter, ZenonT(60)
    <3> QED
      BY <3>2, Zenon
  <2>7. CASE LogStays(p, q)
    <3>1. AllLinks' \subseteq AllLinks
      BY <1>1, <2>6, <2>7, Zenon DEF LogStays
    <3> QED
      BY <1>1, <2>2, <2>3, <2>4, <2>7, <3>1 DEF LogStays, RoleStays, KeepsLinks
  <2>8. CASE Takes(p, q)
    <3>1. Links(q.log) \subseteq AllLinks
      BY <1>1, <2>8, LinksOfMessage, Zenon DEF Takes
    <3>2. AllLinks' \subseteq AllLinks
      BY <2>6, <3>1, Zenon
    <3> QED
      BY <1>1, <2>2, <2>3, <2>4, <2>8, <3>2 DEF Takes, RoleStays, KeepsLinks
  <2>9. CASE Leads(p, res)
    <3>1. PICK c \in EntryCommand : Adds(p, q, c)
      BY <2>9, Zenon DEF Leads
    <3> DEFINE e == [term |-> q.term, cmd |-> c]
               L == {NewLink(p.log, e)}
    <3>2. e \in Entry /\ e.term = q.term /\ e.term >= 1
      BY <2>3, <2>9, Zenon DEF Entry, EntryCommand, Leads, Sound, TermOK
    <3>3. q.log = Append(p.log, e)
      BY <3>1, Zenon DEF Adds
    <3> HIDE DEF e
    <3>4. Links(q.log) \subseteq AllLinks \cup L /\ Len(q.log) = Len(p.log) + 1
      BY <1>1, <3>2, <3>3, AppendIsLog, Zenon
    <3>5. /\ q.role = "leader"
          /\ \/ q.term = p.term /\ p.role \in {"candidate", "leader"}
             \/ q.term > p.term /\ res.out = {}
      BY <2>9, Zenon DEF Leads
    <3>6. AllLinks' \subseteq AllLinks \cup L
      <4>1. Links(peer'[n].log) \subseteq AllLinks \cup L
        BY <1>1, <2>4, <3>4, Zenon
      <4> HIDE DEF L
      <4> QED
        BY <2>2, <2>5, <3>4, <4>1, LinksAfter, Zenon
    <3>7. \/ p.role = "leader" /\ p.term = e.term
          \/ ~ Past(n, e.term)
      BY <1>1, <2>3, <3>2, <3>5 DEF Past
    <3>8. setup' = setup /\ \A b \in net : IsBallot(b) => b \in net'
      BY Zenon DEF Speaks
    <3>9. Group' = Group
      BY <3>8, Zenon DEF Group, Env
    <3>10. \A v \in Node : PeerOK(net', Group, v, peer'[v])
      BY <3>9, Zenon DEF EInv
    <3>11. CASE peer'[n].term = q.term /\ peer'[n].log = q.log /\ peer'[n].role = q.role
      <4>1. Elected(net', Group, e.term, n)
        BY <3>2, <3>5, <3>10, <3>11, Zenon DEF PeerOK
      <4>2. Past(n, e.term)'
        BY <3>2, <3>5, <3>11, Zenon DEF Past
      <4>3. AddsLink(n, e)
        BY <3>2, <3>4, <3>6, <3>7, <3>11, <4>1, <4>2, ZenonT(60) DEF AddsLink
      <4> QED
        BY <2>2, <2>3, <3>5, <3>11, <4>3, Zenon
    <3>12. CASE /\ peer'[n].term = p.term /\ peer'[n].log = p.log
                /\ peer'[n].role \in {"follower", "observer"}
      <4>1. peer[n].term <= peer'[n].term /\ RoleStays(p, peer'[n])
        BY <1>1, <3>12 DEF RoleStays
      <4>2. CASE \A m \in net' \ net : m.type \notin LeaderTypes
        <5>1. \A m \in net' \ net : CarriedLinks(m) \subseteq AllLinks \cup {}
          BY <4>2, Zenon DEF CarriedLinks, LeaderTypes
        <5>2. Links(peer'[n].log) \subseteq AllLinks \cup {}
          BY <1>1, <3>12, Zenon
        <5>3. AllLinks' \subseteq AllLinks \cup {}
          BY <2>2, <5>1, <5>2, LinksAfter, Zenon
        <5>4. KeepsLinks(n)
          BY <3>12, <5>3, Zenon DEF KeepsLinks
        <5> QED
          BY <2>2, <4>1, <5>4, Zenon
      <4>3. ASSUME NEW m \in net' \ net, m.type \in LeaderTypes
            PROVE  \E x : AddsLink(n, x)
        <5>1. m.from = n /\ m.term = p.term
          BY <4>3, Zenon DEF Speaks
        <5>2. Elected(net', Group, m.term, m.from)
          BY <3>9, <4>3, Zenon DEF EInv, MessageOK
        <5>3. e.term = p.term
          BY <2>5, <3>2, <3>5, <4>3, ZenonT(60)
        <5>4. Past(n, e.term)'
          BY <3>12, <5>3, Zenon DEF Past
        <5> QED
          BY <3>2, <3>6, <3>7, <3>12, <5>1, <5>2, <5>3, <5>4 DEF AddsLink
      <4> QED
        BY <2>2, <4>1, <4>2, <4>3, Zenon
    <3> QED
      BY <2>4, <3>11, <3>12, Zenon
  <2> QED
    BY <2>3, <2>7, <2>8, <2>9, Zenon
<1> QED
  BY <1>2, <1>3, <1>4, EveryLogStep, Zenon

LEMMA LinkTypes ==
    ASSUME SoundInv, NEW x \in AllLinks
    PROVE  x.at \in Nat /\ x.entry.term \in Nat
<1>1. ASSUME NEW log, IsLog(log), x \in Links(log) PROVE x.at \in Nat /\ x.entry.term \in Nat
  <2>1. PICK i \in 1..Len(log) : x = Link(i, log[i], TermBefore(log, i))
    BY <1>1, Zenon DEF Links
  <2>2. log[i] \in Entry /\ log[i].term \in Nat
    BY <1>1, LogFacts, Zenon DEF IsLog, Entry
  <2> QED
    BY <2>1, <2>2 DEF Link
<1>2. ASSUME NEW m \in net, x \in CarriedLinks(m) PROVE x.at \in Nat /\ x.entry.term \in Nat
  <2>1. MessageSound(m)
    BY Zenon DEF SoundInv
  <2>2. CASE m.type = "Replicate"
    <3>1. IsLog(m.entries) /\ m.prev \in Nat /\ x \in EntriesLinks(m)
      BY <1>2, <2>1, <2>2, Zenon DEF MessageSound, CarriedLinks
    <3>2. PICK k \in 1..Len(m.entries) :
             x = Link(m.prev + k, m.entries[k],
                      IF k = 1 THEN m.prevTerm ELSE m.entries[k - 1].term)
      BY <3>1, Zenon DEF EntriesLinks
    <3>3. m.entries[k] \in Entry /\ m.entries[k].term \in Nat
      BY <3>1, LogFacts, Zenon DEF IsLog, Entry
    <3> QED
      BY <3>1, <3>2, <3>3 DEF Link
  <2>3. CASE m.type = "InstallSnapshot"
    BY <1>1, <1>2, <2>1, <2>3, Zenon DEF MessageSound, CarriedLinks
  <2> QED
    BY <1>2, <2>2, <2>3, Zenon DEF CarriedLinks
<1>3. \/ \E n \in Node : x \in Links(peer[n].log)
      \/ \E m \in net : x \in CarriedLinks(m)
  BY Zenon DEF AllLinks
<1> QED
  BY <1>1, <1>2, <1>3, SoundFacts, Zenon DEF SoundInv

LEMMA PastStays ==
    ASSUME VInv, VInv', NEW n \in Node, \A v \in Node \ {n} : peer'[v] = peer[v],
           peer[n].term <= peer'[n].term,
           RoleStays(peer[n], peer'[n]) \/ peer'[n].role = "leader",
           NEW c \in Node, NEW t \in Nat, Past(c, t)
    PROVE  Past(c, t)'
<1>1. peer[n].term \in Nat /\ peer'[n].term \in Nat
  BY Zenon DEF VInv
<1>2. CASE c # n
  BY <1>2, Zenon DEF Past
<1>3. CASE c = n
  BY <1>1, <1>3 DEF Past, RoleStays
<1> QED
  BY <1>2, <1>3, Zenon

LEMMA DisksGrowOn ==
    ASSUME VInv, VInv', VotesStay, setup' = setup, setup \in DOMAIN Setups, DisksGrow
    PROVE  DisksGrow'
<1>1. Env' = Env
  BY Zenon DEF Env
<1>2. ASSUME NEW n \in Node
      PROVE  /\ Env.disk[n].term <= disk'[n].term
             /\ Env.disk[n].term = disk'[n].term /\ Env.disk[n].vote # None =>
                   disk'[n].vote = Env.disk[n].vote
  <2>1. disk[n].term \in Nat /\ disk'[n].term \in Nat
    BY Zenon DEF VInv
  <2>2. Env.disk[n].term \in Nat
    BY SetupsAssumption, Zenon DEF Env, Disk
  <2> QED
    BY <2>1, <2>2 DEF DisksGrow, VotesStay
<1> QED
  BY <1>1, <1>2, Zenon DEF DisksGrow

\* Who is elected for an owned term is its owner.
LEMMA OneOwner ==
    ASSUME SizeFacts, EInv, GroupIsOfNodes, EInv', setup' = setup, BallotsAreNew',
           NEW t \in Nat, NEW n, Elected(net', Group, t, n), NEW c \in Group,
           \/ Group = {c}
           \/ \E Q \in SUBSET Group :
                 /\ Cardinality(Q) = Cardinality(Group) \div 2 + 1
                 /\ \A v \in Q : Promised(v, t, c)'
    PROVE  n = c
<1> DEFINE d == Env.disk
           V == Group
           ms == net'
<1>1. Env' = Env
  BY Zenon DEF Env
<1>2. V \subseteq Node /\ IsFiniteSet(V) /\ Cardinality(V) \in Nat
  BY Zenon DEF GroupIsOfNodes
<1>3. \A v \in V : d[v].term \in Nat
  BY <1>2, SetupsAssumption, Zenon DEF EInv, Env, Disk
<1>4. OneVote(ms)
  BY Zenon DEF EInv, OneVote
<1>5. \A m \in ms : IsBallot(m) =>
         \/ d[m.from].term < m.term
         \/ d[m.from].term = m.term /\ d[m.from].vote \in {None, Choice(m)}
  BY <1>1, Zenon DEF BallotsAreNew
<1>6. \A v : Promised(v, t, c)' =>
         \/ HasVoted(ms, v, t, c) \/ d[v].term > t \/ (d[v].term = t /\ d[v].vote = c)
  BY <1>1, Zenon DEF Promised, HasVoted, IsBallot, Choice
<1>7. \/ V = {c}
      \/ \E Q \in SUBSET V :
            /\ Cardinality(Q) = Cardinality(V) \div 2 + 1
            /\ \A v \in Q : \/ HasVoted(ms, v, t, c)
                            \/ d[v].term > t
                            \/ d[v].term = t /\ d[v].vote = c
  BY <1>6, Zenon
<1>8. Elected(ms, V, t, n) /\ c \in V
  BY Zenon
<1> HIDE DEF d, V, ms
<1>9. n \in V
  BY <1>8, Zenon DEF Elected
<1>10. CASE V = {c} \/ V = {n}
  BY <1>9, <1>10, <1>8, Zenon
<1>11. CASE V # {c} /\ V # {n}
  <2>1. PICK Q \in SUBSET V : /\ Cardinality(Q) = Cardinality(V) \div 2 + 1
                              /\ \A v \in Q : \/ HasVoted(ms, v, t, c)
                                              \/ d[v].term > t
                                              \/ d[v].term = t /\ d[v].vote = c
    BY <1>7, <1>11, Zenon
  <2>2. PICK R \in SUBSET V : /\ Cardinality(R) = Cardinality(V) \div 2 + 1
                              /\ \A v \in R : HasVoted(ms, v, t, n)
    BY <1>8, <1>11, Zenon DEF Elected
  <2>3. Cardinality(Q) + Cardinality(R) > Cardinality(V)
    BY <1>2, <2>1, <2>2 DEF SizeFacts
  <2>4. PICK v \in Q : v \in R
    BY <1>2, <2>3 DEF SizeFacts
  <2>5. PICK b \in ms : IsBallot(b) /\ b.from = v /\ b.term = t /\ Choice(b) = n
    BY <2>2, <2>4, Zenon DEF HasVoted
  <2>6. d[v].term < t \/ (d[v].term = t /\ d[v].vote \in {None, n})
    BY <1>5, <2>5, Zenon
  <2>7. CASE HasVoted(ms, v, t, c)
    BY <1>4, <2>5, <2>7, Zenon DEF HasVoted, OneVote
  <2>8. CASE ~ HasVoted(ms, v, t, c)
    <3>1. d[v].term > t \/ (d[v].term = t /\ d[v].vote = c)
      BY <2>1, <2>4, <2>8, Zenon
    <3>2. c # None /\ d[v].term \in Nat
      BY <1>2, <1>3, <1>8, <2>1, <2>4, NodeAssumption, ZenonT(60)
    <3> QED
      BY <2>6, <3>1, <3>2
  <2> QED
    BY <2>7, <2>8, Zenon
<1> QED
  BY <1>10, <1>11, Zenon

LEMMA LStep ==
    ASSUME LeastFact, SizeFacts, VInv, EInv, SoundInv, LInv, GroupIsOfNodes,
           [Next]_vars, VInv', VotesStay, EInv', \A n \in Node : NodeStep(n) => Speaks(n)
    PROVE  LInv'
<1>1. CASE UNCHANGED vars
  <2>1. /\ net' = net /\ peer' = peer /\ disk' = disk /\ setup' = setup
        /\ Group' = Group /\ Env' = Env
    BY <1>1, Zenon DEF vars, Group, Env
  <2>2. AllLinks' = AllLinks
    BY <2>1 DEF AllLinks, Links, CarriedLinks, EntriesLinks, Link, TermBefore
  <2>3. \A v, t, c : Promised(v, t, c)' <=> Promised(v, t, c)
    BY <2>1, Zenon DEF Promised, HasVoted, IsBallot, Choice
  <2>4. \A t : Owned(t) => Owned(t)'
    BY <2>1, <2>3, Zenon DEF Owned, Past
  <2> QED
    BY <2>1, <2>2, <2>4, Zenon
       DEF LInv, LinksAgree, LinksOwned, LeadersReach, DisksGrow, BallotsAreNew
<1>2. ASSUME NEW n \in Node, NodeStep(n) PROVE LInv'
  <2>1. /\ setup' = setup
        /\ \A b \in net : IsBallot(b) => b \in net'
        /\ \A m \in net' \ net : IsBallot(m) =>
              m.from = n /\ disk'[n].term = m.term /\ disk'[n].vote = Choice(m)
    BY <1>2, Zenon DEF Speaks
  <2>2. /\ \A v \in Node \ {n} : peer'[v] = peer[v]
        /\ peer[n].term <= peer'[n].term
        /\ RoleStays(peer[n], peer'[n]) \/ peer'[n].role = "leader"
        /\ KeepsLinks(n) \/ \E e : AddsLink(n, e)
    BY <1>2, LogStepDoes, Zenon
  <2>3. Env' = Env /\ Group' = Group
    BY <2>1, Zenon DEF Env, Group
  <2>4. Group \subseteq Node /\ IsFiniteSet(Group) /\ Cardinality(Group) \in Nat
    BY Zenon DEF GroupIsOfNodes
  <2>5. DisksGrow'
    BY <2>1, DisksGrowOn, Zenon DEF LInv, EInv
  <2>6. BallotsAreNew'
    <3>1. ASSUME NEW m \in net', IsBallot(m)
          PROVE  \/ Env.disk[m.from].term < m.term
                 \/ Env.disk[m.from].term = m.term /\ Env.disk[m.from].vote \in {None, Choice(m)}
      <4>1. CASE m \in net
        BY <3>1, <4>1, Zenon DEF LInv, BallotsAreNew
      <4>2. CASE m \notin net
        <5>1. m.from = n /\ disk'[n].term = m.term /\ disk'[n].vote = Choice(m)
          BY <2>1, <3>1, <4>2, Zenon
        <5>2. /\ Env.disk[n].term <= disk'[n].term
              /\ Env.disk[n].term = disk'[n].term /\ Env.disk[n].vote # None =>
                    disk'[n].vote = Env.disk[n].vote
          BY <2>3, <2>5, Zenon DEF DisksGrow
        <5>3. Env.disk[n].term \in Nat /\ disk'[n].term \in Nat
          BY SetupsAssumption, Zenon DEF VInv, EInv, Env, Disk
        <5> QED
          BY <5>1, <5>2, <5>3
      <4> QED
        BY <4>1, <4>2, Zenon
    <3> QED
      BY <2>3, <3>1, Zenon DEF BallotsAreNew, IsBallot, Choice
  <2>7. ASSUME NEW t \in Nat, Owned(t) PROVE Owned(t)'
    <3>1. \A c \in Group : Past(c, t) => Past(c, t)'
      BY <2>2, <2>4, PastStays, Zenon
    <3> QED
      BY <2>1, <2>7, <3>1, OwnedStays, Zenon
  <2>8. ASSUME NEW x \in AllLinks PROVE Owned(x.entry.term)'
    BY <2>7, LinkTypes, Zenon DEF LInv, LinksOwned
  <2>9. CASE KeepsLinks(n)
    <3>1. AllLinks' \subseteq AllLinks
      BY <2>9, Zenon DEF KeepsLinks
    <3>2. LinksAgree' /\ LinksOwned'
      BY <2>8, <3>1, Zenon DEF LInv, LinksAgree, LinksOwned
    <3>3. ASSUME NEW v \in Node, peer'[v].role = "leader"
          PROVE  /\ peer[v].role = "leader" /\ peer'[v].term = peer[v].term
                 /\ peer'[v].log = peer[v].log
      BY <2>2, <2>9, <3>3 DEF KeepsLinks
    <3>4. LeadersReach'
      BY <3>1, <3>3, Zenon DEF LInv, LeadersReach
    <3> QED
      BY <2>5, <2>6, <3>2, <3>4, Zenon DEF LInv
  <2>10. ASSUME NEW e, AddsLink(n, e) PROVE LInv'
    <3> DEFINE y == NewLink(peer[n].log, e)
    <3>1. e.term \in Nat /\ Len(peer[n].log) \in Nat
      BY <2>10, SoundFacts, Zenon DEF AddsLink, Entry, SoundInv
    <3>2. y.at = Len(peer[n].log) + 1 /\ y.entry = e
      BY Zenon DEF NewLink, Link
    <3>3. AllLinks' \subseteq AllLinks \cup {y}
      BY <2>10, Zenon DEF AddsLink
    <3> HIDE DEF y
    <3>4. Past(n, e.term)' /\ Elected(net', Group, e.term, n)
      BY <2>10, Zenon DEF AddsLink
    <3>5. ASSUME NEW x \in AllLinks, x.entry.term = e.term PROVE x.at <= Len(peer[n].log)
      <4>1. CASE peer[n].role = "leader" /\ peer[n].term = e.term
        BY <3>5, <4>1, Zenon DEF LInv, LeadersReach
      <4>2. CASE ~ Past(n, e.term)
        <5>1. PICK c \in Group :
                 /\ Past(c, e.term)
                 /\ \/ Group = {c}
                    \/ \E Q \in SUBSET Group :
                          /\ Cardinality(Q) = Cardinality(Group) \div 2 + 1
                          /\ \A v \in Q : Promised(v, e.term, c)
          BY <3>5, Zenon DEF LInv, LinksOwned, Owned
        <5>2. n = c
          <6>1. \/ Group = {c}
                \/ \E Q \in SUBSET Group :
                      /\ Cardinality(Q) = Cardinality(Group) \div 2 + 1
                      /\ \A v \in Q : Promised(v, e.term, c)'
            BY <2>1, <5>1, PromisedStays, Zenon
          <6> QED
            BY <2>1, <2>6, <3>1, <3>4, <6>1, OneOwner, Zenon
        <5> QED
          BY <4>2, <5>1, <5>2, Zenon
      <4> QED
        BY <2>10, <4>1, <4>2, Zenon DEF AddsLink
    <3>6. ASSUME NEW x \in AllLinks PROVE x.at \in Nat
      BY <3>6, LinkTypes, Zenon
    <3>7. LinksAgree'
      <4>1. ASSUME NEW a \in AllLinks \cup {y}, NEW b \in AllLinks \cup {y},
                   a.at = b.at, a.entry.term = b.entry.term
            PROVE  a = b
        <5>1. CASE a \in AllLinks /\ b \in AllLinks
          BY <4>1, <5>1, Zenon DEF LInv, LinksAgree
        <5>2. CASE a = y /\ b \in AllLinks
          BY <3>1, <3>2, <3>5, <3>6, <4>1, <5>2
        <5>3. CASE b = y /\ a \in AllLinks
          BY <3>1, <3>2, <3>5, <3>6, <4>1, <5>3
        <5> QED
          BY <4>1, <5>1, <5>2, <5>3, Zenon
      <4> QED
        BY <3>3, <4>1, Zenon DEF LinksAgree
    <3>8. Owned(e.term)'
      <4>1. ASSUME NEW Q \in SUBSET Group, \A v \in Q : HasVoted(net', v, e.term, n)
            PROVE  \A v \in Q : Promised(v, e.term, n)'
        BY <4>1, Zenon DEF Promised, HasVoted, IsBallot, Choice
      <4> QED
        BY <2>3, <3>4, <4>1, Zenon DEF Owned, Elected
    <3>9. LinksOwned'
      BY <2>8, <3>2, <3>3, <3>8, Zenon DEF LinksOwned
    <3>10. ASSUME NEW v \in Node, peer'[v].role = "leader", NEW x \in AllLinks \cup {y},
                  x.entry.term = peer'[v].term
           PROVE  x.at <= Len(peer'[v].log)
      <4>1. CASE v = n
        <5>1. peer'[n].term = e.term /\ Len(peer'[n].log) = Len(peer[n].log) + 1
          BY <2>10, <3>10, <4>1, Zenon DEF AddsLink
        <5> QED
          BY <3>1, <3>2, <3>5, <3>6, <3>10, <4>1, <5>1
      <4>2. CASE v # n /\ x \in AllLinks
        BY <2>2, <3>10, <4>2, Zenon DEF LInv, LeadersReach
      <4>3. CASE v # n /\ x = y
        <5>1. Elected(net', Group, e.term, v)
          BY <2>3, <3>2, <3>10, <4>3, Zenon DEF EInv, PeerOK
        <5>2. n \in Group /\ (Group = {n} \/ \E Q \in SUBSET Group :
                                /\ Cardinality(Q) = Cardinality(Group) \div 2 + 1
                                /\ \A w \in Q : HasVoted(net', w, e.term, n))
          BY <3>4, Zenon DEF Elected
        <5>3. \A w : HasVoted(net', w, e.term, n) => Promised(w, e.term, n)'
          BY Zenon DEF Promised, HasVoted, IsBallot, Choice
        <5>4. v = n
          BY <2>1, <2>6, <3>1, <5>1, <5>2, <5>3, OneOwner, ZenonT(60)
        <5> QED
          BY <4>3, <5>4, Zenon
      <4> QED
        BY <3>10, <4>1, <4>2, <4>3, Zenon
    <3>11. LeadersReach'
      BY <3>3, <3>10, Zenon DEF LeadersReach
    <3> QED
      BY <2>5, <2>6, <3>7, <3>9, <3>11, Zenon DEF LInv
  <2> QED
    BY <2>2, <2>9, <2>10, Zenon
<1> QED
  BY <1>1, <1>2, Zenon DEF Next

---------------------------------------------------------------------------
\* The disks a settled group starts from are as the invariant says.

LEMMA LinksAtStart ==
    ASSUME Init, NEW x \in AllLinks
    PROVE  \E n \in Node : \E i \in 1..Len(Env.disk[n].log) :
              x = Link(i, Env.disk[n].log[i], TermBefore(Env.disk[n].log, i))
<1>1. net = {} /\ disk = Env.disk
  BY Zenon DEF Init
<1>2. SoundInv
  BY SoundInvInit, Zenon
<1>3. PICK n \in Node : x \in Links(peer[n].log)
  BY <1>1, Zenon DEF AllLinks
<1>4. peer[n].log = Env.disk[n].log
  BY <1>1, <1>2, Zenon DEF SoundInv
<1> QED
  BY <1>3, <1>4, Zenon DEF Links

LEMMA LInitially ==
    ASSUME SettledDisks, Init, EInv, GroupIsOfNodes
    PROVE  LInv
<1> DEFINE d == Env.disk
<1>1. setup \in DOMAIN Setups /\ net = {} /\ disk = d /\ d = Setups[setup].disk
  BY Zenon DEF Init, Env
<1>2. ASSUME NEW n \in Node
      PROVE  /\ peer[n].term = d[n].term /\ d[n].term \in Nat /\ IsLog(d[n].log)
             /\ peer[n].role \in {"follower", "observer"}
             /\ d[n].snapshot.members.voters = Group
  <2>1. peer[n] = StartPeer(n, d[n]) /\ d[n] \in Disk /\ DiskInOrder(d[n])
    BY <1>1, SetupsAssumption, Zenon DEF Init
  <2>2. d[n].snapshot.members.voters = Group
    <3>1. peer[n].snapshot = d[n].snapshot
      BY <2>1, DiskStartsSound, StartPeerSound
    <3> QED
      BY <3>1, Zenon DEF EInv, PeerOK
  <2> HIDE DEF d
  <2> QED
    BY <2>1, <2>2, DiskStartsSound, StartPeerSound
<1>3. ASSUME NEW a \in Node, NEW b \in Node
      PROVE  /\ \A i \in 1..MinOf(Len(d[a].log), Len(d[b].log)) :
                   d[a].log[i].term = d[b].log[i].term =>
                      \A j \in 1..i : d[a].log[j] = d[b].log[j]
             /\ \A i \in 1..Len(d[a].log) :
                   Settled(d, d[b].snapshot.members.voters, d[a].log[i].term)
  <2> DEFINE e == Setups[setup].disk
  <2>1. /\ \A i \in 1..MinOf(Len(e[a].log), Len(e[b].log)) :
              e[a].log[i].term = e[b].log[i].term => \A j \in 1..i : e[a].log[j] = e[b].log[j]
        /\ \A i \in 1..Len(e[a].log) :
              Settled(e, e[b].snapshot.members.voters, e[a].log[i].term)
    BY <1>1, Zenon DEF SettledDisks
  <2> QED
    BY <1>1, <2>1, Zenon
<1>4. ASSUME NEW x \in AllLinks
      PROVE  \E n \in Node : \E i \in 1..Len(d[n].log) :
                x = Link(i, d[n].log[i], TermBefore(d[n].log, i))
  BY LinksAtStart, Zenon
<1> HIDE DEF d
<1>5. LinksAgree
  <2> SUFFICES ASSUME NEW x \in AllLinks, NEW y \in AllLinks,
                      x.at = y.at, x.entry.term = y.entry.term
               PROVE  x = y
    BY Zenon DEF LinksAgree
  <2>1. PICK a \in Node : \E i \in 1..Len(d[a].log) :
           x = Link(i, d[a].log[i], TermBefore(d[a].log, i))
    BY <1>4, Zenon
  <2>2. PICK i \in 1..Len(d[a].log) : x = Link(i, d[a].log[i], TermBefore(d[a].log, i))
    BY <2>1, Zenon
  <2>3. PICK b \in Node : \E k \in 1..Len(d[b].log) :
           y = Link(k, d[b].log[k], TermBefore(d[b].log, k))
    BY <1>4, Zenon
  <2>4. PICK k \in 1..Len(d[b].log) : y = Link(k, d[b].log[k], TermBefore(d[b].log, k))
    BY <2>3, Zenon
  <2>5. k = i /\ d[a].log[i].term = d[b].log[i].term
    BY <2>2, <2>4, Zenon DEF Link
  <2>6. Len(d[a].log) \in Nat /\ Len(d[b].log) \in Nat
    BY <1>2, LogFacts, Zenon
  <2>7. i \in 1..MinOf(Len(d[a].log), Len(d[b].log))
    BY <2>5, <2>6, Zenon DEF MinOf
  <2>8. \A j \in 1..i : d[a].log[j] = d[b].log[j]
    BY <1>3, <2>5, <2>7, Zenon
  <2>9. d[a].log[i] = d[b].log[i] /\ TermBefore(d[a].log, i) = TermBefore(d[b].log, i)
    <3>1. i \in 1..i /\ (i # 1 => i - 1 \in 1..i)
      BY <2>6
    <3> QED
      BY <2>8, <3>1, Zenon DEF TermBefore
  <2> QED
    BY <2>2, <2>4, <2>5, <2>9, ZenonT(60)
<1>6. LinksOwned
  <2> SUFFICES ASSUME NEW x \in AllLinks PROVE Owned(x.entry.term)
    BY Zenon DEF LinksOwned
  <2>1. PICK a \in Node : \E i \in 1..Len(d[a].log) :
           x = Link(i, d[a].log[i], TermBefore(d[a].log, i))
    BY <1>4, Zenon
  <2>2. PICK i \in 1..Len(d[a].log) : x = Link(i, d[a].log[i], TermBefore(d[a].log, i))
    BY <2>1, Zenon
  <2> DEFINE t == d[a].log[i].term
  <2>3. x.entry.term = t
    BY <2>2, Zenon DEF Link
  <2>4. Settled(d, Group, t)
    BY <1>2, <1>3, Zenon
  <2>5. t \in Nat
    BY <1>2, LogFacts, Zenon DEF IsLog, Entry
  <2> HIDE DEF t
  <2>6. PICK c \in Group :
           /\ d[c].term >= t
           /\ \/ Group = {c}
              \/ \E Q \in SUBSET Group :
                    /\ Cardinality(Q) = Cardinality(Group) \div 2 + 1
                    /\ \A v \in Q : d[v].term > t \/ (d[v].term = t /\ d[v].vote = c)
    BY <2>4, Zenon DEF Settled
  <2>7. c \in Node
    BY Zenon DEF GroupIsOfNodes
  <2>8. Past(c, t)
    <3>1. /\ peer[c].term = d[c].term /\ d[c].term \in Nat
          /\ peer[c].role \in {"follower", "observer"}
      BY <1>2, <2>7, Zenon
    <3> QED
      BY <2>5, <2>6, <3>1 DEF Past
  <2>9. \A v : d[v].term > t \/ (d[v].term = t /\ d[v].vote = c) => Promised(v, t, c)
    BY Zenon DEF Promised, d
  <2> QED
    BY <2>3, <2>6, <2>8, <2>9, Zenon DEF Owned
<1>7. LeadersReach
  BY <1>2, Zenon DEF LeadersReach
<1>8. DisksGrow
  BY <1>1, <1>2 DEF DisksGrow, d
<1>9. BallotsAreNew
  BY <1>1, Zenon DEF BallotsAreNew
<1> QED
  BY <1>5, <1>6, <1>7, <1>8, <1>9, Zenon DEF LInv

---------------------------------------------------------------------------
\* Why links that agree make logs match: from an entry on which two logs
\* agree, its link leads back to the entry before, and so to the first.

LEMMA SameLinks ==
    ASSUME SoundInv, LinksAgree, NEW a \in Node, NEW b \in Node,
           NEW i \in 1..MinOf(Len(peer[a].log), Len(peer[b].log)),
           peer[a].log[i].term = peer[b].log[i].term
    PROVE  /\ peer[a].log[i] = peer[b].log[i]
           /\ i # 1 => peer[a].log[i - 1].term = peer[b].log[i - 1].term
<1> DEFINE x == Link(i, peer[a].log[i], TermBefore(peer[a].log, i))
           y == Link(i, peer[b].log[i], TermBefore(peer[b].log, i))
<1>1. Len(peer[a].log) \in Nat /\ Len(peer[b].log) \in Nat
  BY SoundFacts, Zenon DEF SoundInv
<1>2. i \in 1..Len(peer[a].log) /\ i \in 1..Len(peer[b].log)
  BY <1>1 DEF MinOf
<1>3. x \in Links(peer[a].log) /\ y \in Links(peer[b].log)
  BY <1>2, Zenon DEF Links
<1>4. x \in AllLinks /\ y \in AllLinks
  BY <1>3, LinksOfPeer, Zenon
<1>5. x.at = y.at /\ x.entry.term = y.entry.term
  BY Zenon DEF Link
<1>6. x = y
  BY <1>4, <1>5, Zenon DEF LinksAgree
<1>7. x.entry = y.entry /\ x.after = y.after
  BY <1>6, Zenon
<1> QED
  BY <1>7, Zenon DEF Link, TermBefore

LEMMA LinksMatch ==
    ASSUME LeastFact, SoundInv, LinksAgree
    PROVE  LogMatching
<1> SUFFICES ASSUME NEW a \in Node, NEW b \in Node,
                    NEW i \in 1..MinOf(Len(peer[a].log), Len(peer[b].log)),
                    peer[a].log[i].term = peer[b].log[i].term,
                    NEW j \in 1..i
             PROVE  peer[a].log[j] = peer[b].log[j]
  BY Zenon DEF LogMatching, LastIndex
<1> DEFINE x == peer[a].log
           y == peer[b].log
           top == MinOf(Len(x), Len(y))
           D == {k \in 0..i - 1 : x[i - k].term # y[i - k].term}
<1>1. Len(x) \in Nat /\ Len(y) \in Nat
  BY SoundFacts, Zenon DEF SoundInv
<1>2. top \in Nat /\ i \in 1..top /\ i \in Nat /\ j \in Nat
  BY <1>1 DEF MinOf
<1>3. \A k \in 1..top : x[k].term = y[k].term =>
         x[k] = y[k] /\ (k # 1 => x[k - 1].term = y[k - 1].term)
  BY SameLinks, Zenon
<1>4. x[i].term = y[i].term
  BY Zenon
<1> HIDE DEF x, y, top
<1>5. D = {}
  <2> SUFFICES ASSUME D # {} PROVE FALSE
    BY Zenon
  <2>1. D \in SUBSET Nat
    BY <1>2
  <2>2. PICK k \in D : \A l \in D : k <= l
    BY <2>1, Zenon DEF LeastFact
  <2>3. k \in 0..i - 1 /\ x[i - k].term # y[i - k].term
    BY <2>2, Zenon
  <2>4. k # 0
    BY <1>2, <1>4, <2>3
  <2>5. k - 1 \in 0..i - 1 /\ k - 1 \notin D
    <3>1. k - 1 \in 0..i - 1 /\ ~ (k <= k - 1)
      BY <1>2, <2>3, <2>4
    <3> QED
      BY <2>2, <3>1, Zenon
  <2>6. x[i - (k - 1)].term = y[i - (k - 1)].term
    BY <2>5, Zenon
  <2>7. i - (k - 1) \in 1..top /\ i - (k - 1) # 1 /\ (i - (k - 1)) - 1 = i - k
    BY <1>2, <2>3, <2>4
  <2> QED
    BY <1>3, <2>3, <2>6, <2>7, Zenon
<1>6. i - j \in 0..i - 1 /\ i - (i - j) = j /\ j \in 1..top
  BY <1>2
<1>7. x[j].term = y[j].term
  BY <1>5, <1>6, Zenon
<1> QED
  BY <1>3, <1>6, <1>7, Zenon DEF x, y

=============================================================================
