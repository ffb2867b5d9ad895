---------------------------- MODULE RaftTheorems ----------------------------
(***************************************************************************)
(* What is proved of groups of any size: votes are final, elections are    *)
(* safe, nothing is compacted that is not saved, and logs match.           *)
(***************************************************************************)
EXTENDS RaftElections, RaftLogs, FiniteSetTheorems

---------------------------------------------------------------------------
\* Facts about numbers and finite sets that the modules above start from.

\* The sizes of voting groups are those of finite sets.
LEMMA Sizes == SizeFacts
<1>1. \A x : Cardinality({x}) = 1
  BY FS_Singleton, ZenonT(60)
<1>2. \A S, x : IsFiniteSet(S) /\ x \in S /\ Cardinality(S) \in {0, 1} => S = {x}
  BY FS_EmptySet, FS_Singleton
<1>3. ASSUME NEW S, IsFiniteSet(S), NEW T \in SUBSET S
      PROVE  IsFiniteSet(T) /\ Cardinality(T) \in Nat
  BY <1>3, FS_Subset, FS_CardinalityType, ZenonT(60)
<1>4. ASSUME NEW S, IsFiniteSet(S), NEW Q \in SUBSET S, NEW R \in SUBSET S,
             Cardinality(Q) + Cardinality(R) > Cardinality(S)
      PROVE  Q \cap R # {}
  BY <1>4, FS_MajoritiesIntersect, ZenonT(60)
<1> QED
  BY <1>1, <1>2, <1>3, <1>4, ZenonT(60) DEF SizeFacts

\* A set of indexes has a least one.
LEMMA Least == LeastFact
<1> SUFFICES ASSUME NEW S \in SUBSET Nat, S # {}
             PROVE  \E k \in S : \A j \in S : k <= j
  BY ZenonT(60) DEF LeastFact
<1> DEFINE R == {ss \in Nat \X Nat : ss[1] < ss[2]}
<1>1. IsWellFoundedOn(R, Nat)
  BY NatLessThanWellFounded, ZenonT(60) DEF OpToRel
<1>2. PICK m \in S : \A y \in S : ~(<<y, m>> \in R)
  <2> HIDE DEF R
  <2> QED
    BY <1>1, WFMin, ZenonT(60)
<1>3. ASSUME NEW y \in S, y < m PROVE FALSE
  <2>1. <<y, m>> \in R
    BY <1>3, ZenonT(60)
  <2> QED
    BY <1>2, <2>1, ZenonT(60)
<1>4. \A y \in S : m <= y
  BY <1>3
<1> QED
  BY <1>4, ZenonT(60)

---------------------------------------------------------------------------
\* The theorems.

\* In a group of any size, whatever is proposed, lost, delayed or repeated,
\* and wherever processes die, a saved term never goes back and a saved vote
\* is never changed or forgotten within its term: reset keeps the vote unless
\* the term changes, handleNodeRequestVote grants a second vote only to the
\* same node, and SaveRaftState covers term and vote together.
THEOREM VotesAreFinal == Spec => VoteIsFinal
<1>1. VInv /\ [Next]_vars => VInv'
  BY Sizes, VStep, ZenonT(60)
<1>2. VInv /\ [Next]_vars =>
         [\A n \in Node :
            /\ disk[n].term <= disk'[n].term
            /\ disk[n].term = disk'[n].term /\ disk[n].vote # None =>
                  disk'[n].vote = disk[n].vote]_vars
  BY Sizes, VStep, ZenonT(60) DEF VotesStay
<1> QED
  BY <1>1, <1>2, VInitially, PTL DEF Spec, VoteIsFinal

\* In a group of any size whose membership does not change, at most one node
\* ever acts as the leader of a term, wherever processes die and whatever the
\* network loses, delays or repeats: a candidate needs the votes of a quorum
\* (campaign, handleCandidateRequestVoteResp), a vote is on disk before it is
\* sent (SaveRaftState before RequestVote and RequestVoteResp), and the
\* Replicate messages that leave before the save rest on votes received.
THEOREM ElectionsAreSafe ==
    ASSUME StaticGroups
    PROVE  Spec => []ElectionSafety
<1>1. Init => VInv /\ EInv
  BY VInitially, EInitially, ZenonT(60)
<1>2. VInv /\ EInv /\ [Next]_vars => (VInv /\ EInv)'
  BY Sizes, VStep, EStep, ZenonT(60) DEF StaticGroups
<1>3. VInv /\ EInv => ElectionSafety
  BY Sizes, EInvIsSafe, ZenonT(60)
<1> QED
  BY <1>1, <1>2, <1>3, PTL DEF Spec

\* In a group of any size, with any membership changes, crashes and losses,
\* an entry is dropped from a node's log only when a snapshot on the node's
\* disk covers it: restore sets the marker to the snapshot that the update
\* saves, and the step worker compacts only up to what the snapshot worker
\* has recorded (SaveSnapshot, compactLog, entryLog.restore).
THEOREM CompactionIsSafe == Spec => []CompactedIsSaved
<1>1. SoundInv => CompactedIsSaved
  BY ZenonT(60) DEF SoundInv, Sound, Ordered, CompactedIsSaved
<1>2. SoundInv /\ [Next]_vars => SoundInv'
  BY Least, SoundInvStep, ZenonT(60)
<1> QED
  BY <1>1, <1>2, SoundInvInit, PTL DEF Spec

\* In a group of any size whose membership does not change, started anew or
\* from what it left on its disks, two logs that agree on the term of an entry
\* agree up to it, wherever processes die and whatever the network loses,
\* delays or repeats: a leader only appends (appendEntries), a Replicate
\* message carries a piece of its log with the term before it
\* (makeReplicateMessage), a follower takes the piece only where that term
\* matches and cuts its own log only at the first conflict (tryAppend,
\* getConflictIndex), and an entry that leaves before the save rests on an
\* election that no crash takes back.
THEOREM LogsMatch ==
    ASSUME StaticGroups, SettledDisks
    PROVE  Spec => []LogMatching
<1> DEFINE Inv == VInv /\ EInv /\ SoundInv /\ LInv
<1>1. ASSUME EInv PROVE GroupIsOfNodes
  BY <1>1, Sizes, GroupIsFinite, ZenonT(60) DEF EInv, GroupIsOfNodes
<1>2. ASSUME Init PROVE Inv
  <2>1. VInv /\ EInv /\ SoundInv
    BY <1>2, VInitially, EInitially, SoundInvInit, ZenonT(60)
  <2> QED
    BY <1>1, <1>2, <2>1, LInitially, ZenonT(60)
<1>3. ASSUME Inv, [Next]_vars PROVE Inv'
  <2>1. VInv' /\ VotesStay /\ EInv' /\ SoundInv'
    BY <1>3, Sizes, Least, VStep, EStep, SoundInvStep, ZenonT(60) DEF StaticGroups
  <2>2. \A n \in Node : NodeStep(n) => Speaks(n)
    BY <1>3, Sizes, StepSays, ZenonT(60) DEF StaticGroups
  <2>3. LInv'
    BY <1>1, <1>3, <2>1, <2>2, Sizes, Least, LStep, ZenonT(60)
  <2> QED
    BY <2>1, <2>3, ZenonT(60)
<1>4. ASSUME Inv PROVE LogMatching
  BY <1>4, Least, LinksMatch, ZenonT(60) DEF LInv
<1> HIDE DEF Inv
<1> QED
  BY <1>2, <1>3, <1>4, PTL DEF Spec

=============================================================================
