------------------------------- MODULE MCRaft -------------------------------
(***************************************************************************)
(* Small groups for TLC, each with what may happen to it.                  *)
(***************************************************************************)
EXTENDS Raft, TLC

CONSTANTS n1, n2, n3,  \* nodes
          c1,          \* a command
          q1, q2       \* read requests

AddVoter(n) == [type |-> "AddNode", node |-> n]
AddLearner(n) == [type |-> "AddObserver", node |-> n]
Remove(n) == [type |-> "RemoveNode", node |-> n]
Changes == {AddVoter(n2), AddLearner(n2), AddVoter(n3), Remove(n1)}

\* Which of the links work.
AllLinks == {n1, n2, n3} \X {n1, n2, n3}
Without3 == {<<n1, n2>>, <<n2, n1>>}
Via3 == {<<n1, n3>>, <<n3, n1>>, <<n2, n3>>, <<n3, n2>>}
OneWay12 == Via3 \cup {<<n1, n2>>}   \* n2 hears n1, but not the other way round

Votes == {"RequestVote", "RequestVoteResp"}
Entries == {"Replicate", "ReplicateResp"}
ReadMessages == {"Heartbeat", "HeartbeatResp", "ReadIndex", "ReadIndexResp"}

---------------------------------------------------------------------------
\* Disks.

Ent(t, cmd) == [term |-> t, cmd |-> cmd]

Group(voters, observers) == [voters |-> voters, observers |-> observers, removed |-> {}]
Three == Group({n1, n2, n3}, {})

\* A disk with a log and no snapshot.
LogDisk(members, term, vote, committed, log) ==
    [FirstDisk(members, FALSE) EXCEPT !.term = term, !.vote = vote,
                                      !.committed = committed, !.log = log]

\* A new group in which everyone votes, if told so.
NewGroup(voters) == [n \in Node |-> FirstDisk(Group(voters, {}), FALSE)]

\* n1 led term 2 and n2 term 3, neither replicated anything; n2 then asked in
\* vain for votes in term 4.
TwoFailedLeaders ==
    [n \in Node |->
        CASE n = n1 -> LogDisk(Three, 3, None, 0, <<Ent(2, Noop)>>)
          [] n = n2 -> LogDisk(Three, 4, n2, 0, <<Ent(3, Noop)>>)
          [] OTHER  -> LogDisk(Three, 3, n2, 0, <<>>)]

\* n1 led terms 3 and 4 and committed its entries with n3; n2 still holds
\* what it wrote as the leader of term 2.
LaggingFollower ==
    [n \in Node |->
        IF n = n2 THEN LogDisk(Three, 2, n2, 0, <<Ent(2, Noop)>>)
        ELSE LogDisk(Three, 4, n1, IF n = n1 THEN 2 ELSE 0,
                     <<Ent(3, Noop), Ent(4, Noop)>>)]

\* n1 and n3 have committed an entry that n2 has never seen, and n1's log
\* begins after a snapshot that contains it.
CompactedLeader ==
    [n \in Node |->
        IF n = n2 THEN LogDisk(Three, 2, None, 0, <<>>)
        ELSE LET i == IF n = n1 THEN 1 ELSE 0
             IN  [LogDisk(Three, 4, n1, i, <<Ent(4, Noop)>>) EXCEPT !.snapshot.index = i]]

\* The leader n1 was shut down with the addition of n3 on its way to being
\* committed.
JoinInProgress ==
    LET Two == Group({n1, n2}, {})
    IN  [n \in Node |-> IF n = n3 THEN FirstDisk(Two, FALSE)
                       ELSE LogDisk(Two, 2, n1, 0, <<Ent(2, Noop), Ent(2, AddVoter(n3))>>)]

\* n1 and n2 were shut down after n2, once an observer, had been promoted
\* and n1 had taken a snapshot; the observer n3 is new.
PromotedBefore ==
    LET before == Group({n1}, {n2, n3})
        d == LogDisk(before, 2, n1, 2, <<Ent(2, Noop), Ent(2, AddVoter(n2))>>)
        ss == [index |-> 2, members |-> ChangedMembers(before, AddVoter(n2))]
    IN  [n \in Node |-> CASE n = n1 -> [d EXCEPT !.snapshot = ss]
                          [] n = n2 -> d
                          [] OTHER  -> FirstDisk(before, TRUE)]

---------------------------------------------------------------------------
\* Setups.

\* Three new voters, among whom nothing happens but campaigns.
Plain == [disk |-> NewGroup({n1, n2, n3}), observers |-> {}, checkQuorum |-> FALSE,
          snapshotEntries |-> 0, compactionOverhead |-> 0,
          proposals |-> {}, reads |-> {}, transfers |-> {},
          events |-> Votes, links |-> AllLinks, campaigns |-> {},
          maxLog |-> 0, maxCrash |-> 0, crashing |-> {}]

\* Anyone may campaign, twice.
Elections == [Plain EXCEPT !.campaigns = Node \X {2, 3}, !.maxCrash = 1, !.crashing = Node]

Conflict == [Plain EXCEPT !.disk = TwoFailedLeaders,
                          !.campaigns = {<<n1, 4>>, <<n2, 5>>},
                          !.events = Votes \cup Entries, !.links = Via3,
                          !.proposals = {c1}, !.maxLog = 3]

Flow == [Plain EXCEPT !.disk = LaggingFollower, !.campaigns = {<<n1, 5>>},
                      !.events = Votes \cup Entries \cup {"unreachable"},
                      !.links = Without3]

FlowAndCrash == [Flow EXCEPT !.events = Votes \cup Entries \cup
                                 {"heartbeat", "Heartbeat", "HeartbeatResp"},
                             !.maxCrash = 1, !.crashing = {n2}]

Snapshots == [Plain EXCEPT !.disk = CompactedLeader, !.campaigns = {<<n1, 5>>},
                           !.snapshotEntries = 1,
                           !.events = Votes \cup Entries \cup {"InstallSnapshot"},
                           !.links = Without3, !.proposals = {c1}, !.maxLog = 3,
                           !.maxCrash = 1, !.crashing = {n2}]

Transfer == [Plain EXCEPT !.disk = NewGroup({n1, n2}), !.checkQuorum = TRUE,
                          !.campaigns = {<<n1, 2>>, <<n2, 3>>},
                          !.events = Votes \cup Entries \cup
                              {"timeout", "NoOP", "TimeoutNow", "LeaderTransfer"},
                          !.transfers = {n2}, !.maxCrash = 1, !.crashing = {n1, n2}]

\* n1 leads and is deposed by n2, which it cannot hear.
Reads == [Plain EXCEPT !.campaigns = {<<n1, 2>>, <<n2, 3>>},
                       !.events = Votes \cup Entries \cup ReadMessages,
                       !.links = OneWay12, !.reads = {q1}]

ReadQueue == [Reads EXCEPT !.campaigns = {<<n1, 2>>}, !.links = Via3,
                           !.events = @ \ {"ReadIndex", "ReadIndexResp"},
                           !.reads = {q1, q2}, !.proposals = {c1}, !.maxLog = 2]

Join == [Plain EXCEPT !.disk = JoinInProgress, !.campaigns = {<<n1, 3>>, <<n2, 3>>},
                      !.events = Votes \cup Entries,
                         !.proposals = {AddVoter(n3), Remove(n1)}, !.maxLog = 4]

\* n2 is to join as an observer and to be promoted.
Promote == [Plain EXCEPT !.disk = [n \in Node |-> FirstDisk(Group({n1}, {}), n = n2)],
                         !.observers = {n2}, !.campaigns = {<<n1, 2>>, <<n2, 3>>},
                         !.events = Votes \cup Entries \cup ReadMessages,
                         !.proposals = {AddLearner(n2), AddVoter(n2)}, !.maxLog = 3,
                         !.reads = {q1}, !.maxCrash = 1, !.crashing = {n2}]

RemovedRead == [Plain EXCEPT !.disk = NewGroup({n1, n2}),
                             !.campaigns = {<<n1, 2>>, <<n2, 3>>},
                             !.events = Votes \cup Entries,
                             !.proposals = {Remove(n1)}, !.maxLog = 3, !.reads = {q1}]

Observer == [Plain EXCEPT !.disk = PromotedBefore, !.observers = {n2, n3},
                          !.snapshotEntries = 1, !.campaigns = {<<n1, 3>>},
                          !.events = Votes \cup Entries \cup {"InstallSnapshot"},
                          !.proposals = {c1, AddVoter(n2)}, !.maxLog = 4]

SingleVoter == [Plain EXCEPT !.disk = NewGroup({n1}), !.campaigns = {n1} \X {2, 3},
                             !.proposals = {c1}, !.maxLog = 2,
                             !.maxCrash = 1, !.crashing = {n1}]

SlowTarget == [Plain EXCEPT !.campaigns = {<<n1, 2>>, <<n2, 3>>}, !.transfers = {n3},
                            !.events = Votes \cup Entries \cup {"LeaderTransfer", "TimeoutNow"}]

ElectionSetups == [s \in {"elections"} |-> Elections]
LogSetups == "conflict" :> Conflict @@ "flow" :> Flow @@ "flowandcrash" :> FlowAndCrash
             @@ "snapshots" :> Snapshots @@ "transfer" :> Transfer
ClientSetups == "reads" :> Reads @@ "readqueue" :> ReadQueue @@ "join" :> Join
                @@ "promote" :> Promote
RemovedReadSetups == "removedread" :> RemovedRead
ObserverSetups == "observer" :> Observer
SingleVoterSetups == "singlevoter" :> SingleVoter
SlowTargetSetups == "slowtarget" :> SlowTarget

Symmetry == Permutations(Node)

=============================================================================
