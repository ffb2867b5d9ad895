-------------------------- MODULE RaftInvariants ---------------------------
(***************************************************************************)
(* What holds in every state of a group, as far as votes and elections are *)
(* concerned: what a node has on disk is what it acts on (VInv), and, in a *)
(* group whose membership stays what it was at the start, who has been     *)
(* promised which vote (EInv).  RaftElections shows that every step keeps  *)
(* both; the proofs about logs (RaftLogs) start from them.                 *)
(***************************************************************************)
EXTENDS Raft

---------------------------------------------------------------------------
\* Terms and votes.

\* The part of a node that elections are about.
Shape(p) == {"term", "vote", "role", "granted", "members", "snapshot"} \subseteq DOMAIN p

LeaderTypes == {"Replicate", "InstallSnapshot", "Heartbeat"}
VoteTypes == {"RequestVote", "RequestVoteResp"}

\* What a node acts on is what its disk says.
VInv ==
    /\ DOMAIN peer = Node /\ DOMAIN disk = Node
    /\ \A n \in Node :
          /\ Shape(peer[n]) /\ peer[n].term \in Nat
          /\ {"term", "vote", "snapshot"} \subseteq DOMAIN disk[n]
          /\ disk[n].term = peer[n].term /\ disk[n].vote = peer[n].vote
          /\ disk[n].snapshot = peer[n].snapshot
    /\ \A m \in net : m.term \in Nat

\* No saved term goes back, and no saved vote changes within its term.
VotesStay ==
    \A n \in Node :
        /\ disk[n].term <= disk'[n].term
        /\ disk[n].term = disk'[n].term /\ disk[n].vote # None => disk'[n].vote = disk[n].vote

---------------------------------------------------------------------------
\* Elections in a group whose membership does not change.

\* No config change is proposed, and all disks start with the same voters.
StaticGroups ==
    /\ ConfigChange = {}
    /\ \A s \in DOMAIN Setups : \A a, b \in Node :
          Setups[s].disk[a].snapshot.members.voters = Setups[s].disk[b].snapshot.members.voters

Group == Env.disk[CHOOSE n \in Node : TRUE].snapshot.members.voters

\* A message that testifies to a vote, and for whom.  A vote request shows
\* that the candidate has voted for itself.
IsBallot(m) == m.type = "RequestVote" \/ (m.type = "RequestVoteResp" /\ ~ m.reject)
Choice(m) == IF m.type = "RequestVote" THEN m.from ELSE m.to

\* Node v has promised its vote of term t to c.
HasVoted(ms, v, t, c) ==
    \E m \in ms : IsBallot(m) /\ m.from = v /\ m.term = t /\ Choice(m) = c

\* A quorum of the voters V has promised its votes of term t to c.
Elected(ms, V, t, c) ==
    /\ c \in V
    /\ \/ V = {c}
       \/ \E Q \in SUBSET V : /\ Cardinality(Q) = Cardinality(V) \div 2 + 1
                              /\ \A v \in Q : HasVoted(ms, v, t, c)

\* A candidate counts votes that were cast, and a leader has been elected.
PeerOK(ms, V, n, p) ==
    /\ p.members.voters = V /\ p.snapshot.members.voters = V
    /\ p.role = "candidate" =>
          n \in V /\ p.granted \subseteq V /\ \A v \in p.granted : HasVoted(ms, v, p.term, n)
    /\ p.role = "leader" => Elected(ms, V, p.term, n)

\* The vote a message testifies to is on disk, or its term is over.
BallotOK(d, m) ==
    /\ Choice(m) \in Node
    /\ \/ d[m.from].term > m.term
       \/ d[m.from].term = m.term /\ d[m.from].vote = Choice(m)

MessageOK(ms, V, d, m) ==
    /\ m.type = "InstallSnapshot" => m.ss.members.voters = V
    /\ m.type \in VoteTypes => m.from \in Node /\ m.term >= 1
    /\ IsBallot(m) => BallotOK(d, m)
    /\ m.type \in LeaderTypes => Elected(ms, V, m.term, m.from)

OneVote(ms) ==
    \A a, b \in ms : IsBallot(a) /\ IsBallot(b) /\ a.from = b.from /\ a.term = b.term =>
        Choice(a) = Choice(b)

EInv ==
    /\ setup \in DOMAIN Setups
    /\ \A n \in Node : PeerOK(net, Group, n, peer[n])
    /\ \A m \in net : MessageOK(net, Group, disk, m)
    /\ OneVote(net)

GroupIsOfNodes == Group \subseteq Node /\ IsFiniteSet(Group) /\ Cardinality(Group) \in Nat

\* What a step of node n says: no ballot is taken back, only leaders speak as
\* leaders, and a vote that is sent is on the sender's disk.
Speaks(n) ==
    /\ setup' = setup
    /\ \A b \in net : IsBallot(b) => b \in net'
    /\ \A m \in net' \ net :
          /\ m.type \in LeaderTypes => m.from = n /\ m.term = peer[n].term
          /\ IsBallot(m) => /\ m.from = n /\ disk'[n].term = m.term
                            /\ disk'[n].vote = Choice(m)

---------------------------------------------------------------------------
\* The facts about the sizes of voting groups that elections rest on.  They
\* are a hypothesis of the proofs about steps and discharged in RaftTheorems,
\* which keeps the library of finite sets out of the long proofs.
SizeFacts ==
    /\ \A x : Cardinality({x}) = 1
    /\ \A S, x : IsFiniteSet(S) /\ x \in S /\ Cardinality(S) \in {0, 1} => S = {x}
    /\ \A S : IsFiniteSet(S) => \A T \in SUBSET S : IsFiniteSet(T) /\ Cardinality(T) \in Nat
    /\ \A S : IsFiniteSet(S) => \A Q, R \in SUBSET S :
                Cardinality(Q) + Cardinality(R) > Cardinality(S) => Q \cap R # {}

============================================================================
