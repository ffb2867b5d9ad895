-------------------------- MODULE RaftLogHandlers ---------------------------
(***************************************************************************)
(* What each handler of raft does to a node's log, of any length.  A log   *)
(* is a chain of links (Links): at each index an entry with the term of    *)
(* its predecessor.  What is sent is cut from the log (Sends), a leader    *)
(* only adds to its log (Adds), a follower's log after Replicate is        *)
(* recombined from links of its own and of the message                     *)
(* (TryAppendRecombines), the cursors stay in order, and only what a       *)
(* snapshot covers is compacted (Ordered, Sound).                          *)
(***************************************************************************)
EXTENDS RaftCore, TLAPS

---------------------------------------------------------------------------
\* Links.

TermBefore(log, i) == IF i = 1 THEN 0 ELSE log[i - 1].term

Link(at, entry, after) == [at |-> at, entry |-> entry, after |-> after]

Links(log) == {Link(i, log[i], TermBefore(log, i)) : i \in 1..Len(log)}

EntriesLinks(m) ==
    {Link(m.prev + k, m.entries[k],
          IF k = 1 THEN m.prevTerm ELSE m.entries[k - 1].term) : k \in 1..Len(m.entries)}

CarriedLinks(m) ==
    IF m.type = "Replicate" THEN EntriesLinks(m)
    ELSE IF m.type = "InstallSnapshot" THEN Links(m.ss.log) ELSE {}

---------------------------------------------------------------------------
\* Nodes and messages that are in order.

IsLog(log) == log \in Seq(Entry) /\ \A i \in 1..Len(log) : log[i].term >= 1

Fields(p) ==
    {"term", "role", "log", "marker", "committed", "applied", "snapshot", "compactTo",
     "members", "remotes"} \subseteq DOMAIN p

\* The cursors of a log are in order, and only what a snapshot covers is
\* compacted.
Ordered(p) ==
    /\ p.marker \in Nat /\ p.committed \in Nat /\ p.applied \in Nat /\ p.compactTo \in Nat
    /\ p.snapshot \in Snapshot
    /\ p.marker <= p.snapshot.index /\ p.compactTo <= p.snapshot.index
    /\ p.snapshot.index <= p.committed /\ p.applied <= p.committed
    /\ p.committed <= Len(p.log)

\* Term 0 is that of a node that has never heard of anyone.
TermOK(p) ==
    /\ p.term \in Nat
    /\ p.role \in {"candidate", "leader"} \/ p.log # <<>> => p.term >= 1

Sound(p) ==
    /\ Fields(p) /\ TermOK(p)
    /\ IsLog(p.log) /\ Ordered(p)
    /\ p.members \in Members /\ p.remotes \in [Node -> Remote]

MessageSound(m) ==
    /\ m.from \in Node /\ m.term \in Nat
    /\ m.type = "Replicate" =>
          /\ m.term >= 1
          /\ m.prev \in Nat /\ m.prevTerm \in Nat /\ m.commit \in Nat
          /\ IsLog(m.entries)
          /\ m.entries # <<>> /\ m.prevTerm = 0 => m.prev = 0
    /\ m.type = "InstallSnapshot" =>
          m.term >= 1 /\ IsLog(m.ss.log) /\ m.ss.members \in Members
    /\ m.type = "Heartbeat" => m.commit \in Nat
    /\ m.type = "ReplicateResp" => m.index \in Nat /\ m.hint \in Nat

---------------------------------------------------------------------------
\* What handlers do.

\* The log, the term and the role stay; the commit index may move.
Holds(p, q) == Sound(q) /\ q.term = p.term /\ q.role = p.role /\ q.log = p.log

\* What is sent comes from the log.
Sends(p, out) == \A m \in out : MessageSound(m) /\ CarriedLinks(m) \subseteq Links(p.log)

Calm(p, res) == Holds(p, res.p) /\ Sends(p, res.out)

\* The entry that a leader adds.
Adds(p, q, cmd) == q.log = Append(p.log, [term |-> q.term, cmd |-> cmd])

---------------------------------------------------------------------------
\* Remotes stay what they are.

LEMMA RemoteFields ==
    ASSUME NEW r \in Remote
    PROVE  /\ r.match \in Nat /\ r.next \in Nat \ {0} /\ r.snapshotIndex \in Nat
           /\ r.state \in RemoteState /\ r.active \in BOOLEAN
  BY Zenon DEF Remote

LEMMA NewRemoteIsRemote ==
    ASSUME NEW i \in Nat, NEW j \in Nat
    PROVE  NewRemote(i, j + 1) \in Remote
  BY DEF NewRemote, Remote, RemoteState

LEMMA ModeIsRemote ==
    ASSUME NEW r \in Remote, NEW next \in Nat \ {0}, NEW state \in RemoteState
    PROVE  [r EXCEPT !.next = next, !.snapshotIndex = 0, !.state = state] \in Remote
  BY Zenon DEF Remote

LEMMA BecomeRetryIsRemote ==
    ASSUME NEW r \in Remote
    PROVE  BecomeRetry(r) \in Remote
<1> DEFINE next == IF r.state = "Snapshot" THEN MaxOf(r.match + 1, r.snapshotIndex + 1)
                                           ELSE r.match + 1
<1>1. next \in Nat \ {0} /\ "Retry" \in RemoteState
  BY RemoteFields DEF MaxOf, RemoteState
<1> HIDE DEF next
<1>2. [r EXCEPT !.next = next, !.snapshotIndex = 0, !.state = "Retry"] \in Remote
  BY <1>1, ModeIsRemote, Zenon
<1> QED
  BY <1>2, Zenon DEF BecomeRetry, next

LEMMA WaitIsRemote ==
    ASSUME NEW r \in Remote
    PROVE  RetryToWait(r) \in Remote /\ WaitToRetry(r) \in Remote
  BY Zenon DEF RetryToWait, WaitToRetry, Remote, RemoteState

LEMMA BecomeReplicateIsRemote ==
    ASSUME NEW r \in Remote
    PROVE  BecomeReplicate(r) \in Remote
<1>1. r.match + 1 \in Nat \ {0} /\ "Replicate" \in RemoteState
  BY RemoteFields DEF RemoteState
<1> QED
  BY <1>1, ModeIsRemote, Zenon DEF BecomeReplicate

LEMMA SentIsRemote ==
    ASSUME NEW r \in Remote, NEW i \in Nat
    PROVE  BecomeSnapshot(r, i) \in Remote /\ Progress(r, i) \in Remote
<1>1. BecomeSnapshot(r, i) \in Remote
  BY Zenon DEF BecomeSnapshot, Remote, RemoteState
<1>2. [r EXCEPT !.next = i + 1] \in Remote
  BY DEF Remote
<1> QED
  BY <1>1, <1>2, WaitIsRemote, Zenon DEF Progress

LEMMA TryUpdateIsRemote ==
    ASSUME NEW r \in Remote, NEW i \in Nat
    PROVE  TryUpdate(r, i) \in Remote
<1> DEFINE r1 == [r EXCEPT !.next = MaxOf(@, i + 1)]
<1>1. r1 \in Remote
  BY DEF Remote, MaxOf
<1> HIDE DEF r1
<1>2. WaitToRetry(r1) \in Remote
  BY <1>1, WaitIsRemote, Zenon
<1>3. [WaitToRetry(r1) EXCEPT !.match = i] \in Remote
  BY <1>2, Zenon DEF Remote
<1> QED
  BY <1>1, <1>3, Zenon DEF TryUpdate, r1

LEMMA AnsweredIsRemote ==
    ASSUME NEW r \in Remote
    PROVE  RespondedTo(r) \in Remote /\ EnterRetryState(r) \in Remote /\ BecomeWait(r) \in Remote
  BY BecomeRetryIsRemote, BecomeReplicateIsRemote, WaitIsRemote, Zenon
     DEF RespondedTo, EnterRetryState, BecomeWait

LEMMA DecreaseToIsRemote ==
    ASSUME NEW r \in Remote, NEW i \in Nat, NEW j \in Nat
    PROVE  DecreaseTo(r, i, j) \in Remote
<1>1. MaxOf(1, MinOf(i, j + 1)) \in Nat \ {0}
  BY DEF MaxOf, MinOf
<1>2. WaitToRetry(r) \in Remote /\ [r EXCEPT !.next = r.match + 1] \in Remote
  BY WaitIsRemote DEF Remote
<1>3. [WaitToRetry(r) EXCEPT !.next = MaxOf(1, MinOf(i, j + 1))] \in Remote
  BY <1>1, <1>2, Zenon DEF Remote
<1> QED
  BY <1>2, <1>3, Zenon DEF DecreaseTo

LEMMA ActiveIsRemote ==
    ASSUME NEW r \in Remote, NEW b \in BOOLEAN
    PROVE  [r EXCEPT !.active = b] \in Remote
  BY Zenon DEF Remote

LEMMA SnapshotIndexIsRemote ==
    ASSUME NEW r \in Remote, NEW i \in Nat
    PROVE  [r EXCEPT !.snapshotIndex = i] \in Remote
  BY Zenon DEF Remote

---------------------------------------------------------------------------
\* Facts about links.

LEMMA LogFacts ==
    ASSUME NEW log, IsLog(log)
    PROVE  /\ Len(log) \in Nat /\ log \in Seq(Entry)
           /\ \A i \in 1..Len(log) : log[i] \in Entry /\ log[i].term \in Nat /\ log[i].term >= 1
<1>1. /\ Len(log) \in Nat /\ log \in Seq(Entry)
      /\ \A i \in 1..Len(log) : log[i] \in Entry /\ log[i].term >= 1
  BY DEF IsLog
<1>2. \A e \in Entry : e.term \in Nat
  BY Zenon DEF Entry
<1> QED
  BY <1>1, <1>2, Zenon

LEMMA PrefixIsLog ==
    ASSUME NEW log, IsLog(log), NEW i \in Nat, i <= Len(log)
    PROVE  /\ IsLog(SubSeq(log, 1, i)) /\ Len(SubSeq(log, 1, i)) = i
           /\ Links(SubSeq(log, 1, i)) \subseteq Links(log)
<1> DEFINE s == SubSeq(log, 1, i)
<1>1. /\ s \in Seq(Entry) /\ Len(s) = i
      /\ \A j \in 1..i : s[j] = log[j]
  BY DEF IsLog
<1> HIDE DEF s
<1>2. IsLog(s)
  BY <1>1 DEF IsLog
<1>3. ASSUME NEW j \in 1..i PROVE TermBefore(s, j) = TermBefore(log, j)
  BY <1>1 DEF TermBefore
<1>4. Links(s) \subseteq Links(log)
  <2> SUFFICES ASSUME NEW j \in 1..i
               PROVE  Link(j, s[j], TermBefore(s, j)) \in Links(log)
    BY <1>1, Zenon DEF Links
  <2>1. Link(j, s[j], TermBefore(s, j)) = Link(j, log[j], TermBefore(log, j)) /\ j \in 1..Len(log)
    BY <1>1, <1>3
  <2> QED
    BY <2>1, Zenon DEF Links
<1> QED
  BY <1>1, <1>2, <1>4, Zenon DEF s

LastTermOf(log) == TermBefore(log, Len(log) + 1)

NewLink(log, e) == Link(Len(log) + 1, e, LastTermOf(log))

LEMMA AppendIsLog ==
    ASSUME NEW log, IsLog(log), NEW e \in Entry, e.term >= 1
    PROVE  /\ IsLog(Append(log, e)) /\ Len(Append(log, e)) = Len(log) + 1
           /\ Links(log) \subseteq Links(Append(log, e))
           /\ Links(Append(log, e)) \subseteq Links(log) \cup {NewLink(log, e)}
<1> DEFINE s == Append(log, e)
           k == Len(log)
<1>1. /\ k \in Nat /\ s \in Seq(Entry) /\ Len(s) = k + 1
      /\ \A j \in 1..k : s[j] = log[j]
      /\ s[k + 1] = e
  BY DEF IsLog
<1> HIDE DEF s
<1>2. IsLog(s)
  BY <1>1 DEF IsLog
<1>3. ASSUME NEW j \in 1..(k + 1) PROVE TermBefore(s, j) = TermBefore(log, j)
  BY <1>1 DEF TermBefore
<1>4. Links(log) \subseteq Links(s)
  <2> SUFFICES ASSUME NEW j \in 1..k PROVE Link(j, log[j], TermBefore(log, j)) \in Links(s)
    BY Zenon DEF Links
  <2>1. Link(j, s[j], TermBefore(s, j)) = Link(j, log[j], TermBefore(log, j)) /\ j \in 1..Len(s)
    BY <1>1, <1>3
  <2> QED
    BY <2>1, Zenon DEF Links
<1>5. Links(s) \subseteq Links(log) \cup {NewLink(log, e)}
  <2> SUFFICES ASSUME NEW j \in 1..(k + 1)
               PROVE  Link(j, s[j], TermBefore(s, j)) \in Links(log) \cup {NewLink(log, e)}
    BY <1>1, Zenon DEF Links
  <2>1. CASE j = k + 1
    BY <1>1, <1>3, <2>1, Zenon DEF NewLink, LastTermOf
  <2>2. CASE j \in 1..k
    <3>1. Link(j, s[j], TermBefore(s, j)) = Link(j, log[j], TermBefore(log, j))
      BY <1>1, <1>3, <2>2, Zenon
    <3> QED
      BY <2>2, <3>1, Zenon DEF Links
  <2> QED
    BY <1>1, <2>1, <2>2
<1> QED
  BY <1>1, <1>2, <1>4, <1>5, Zenon DEF s

\* The fact about numbers that the handlers rest on.  (Stated as a hypothesis,
\* as SizeFacts is, it keeps the library of induction out of these proofs.)
LeastFact == \A S \in SUBSET Nat : S # {} => \E k \in S : \A j \in S : k <= j

LEMMA ConcatFacts ==
    ASSUME NEW s \in Seq(Entry), NEW t \in Seq(Entry)
    PROVE  /\ s \o t \in Seq(Entry) /\ Len(s \o t) = Len(s) + Len(t)
           /\ \A i \in 1..Len(s) : (s \o t)[i] = s[i]
           /\ \A i \in 1..Len(t) : (s \o t)[Len(s) + i] = t[i]
  OBVIOUS

LEMMA SubSeqFacts ==
    ASSUME NEW S, NEW s \in Seq(S), NEW i \in Nat \ {0}, NEW j \in Nat,
           j <= Len(s), i <= j + 1
    PROVE  /\ SubSeq(s, i, j) \in Seq(S) /\ Len(SubSeq(s, i, j)) = j - i + 1
           /\ \A k \in 1..(j - i + 1) : SubSeq(s, i, j)[k] = s[i + k - 1]
  OBVIOUS

LEMMA TermAtFacts ==
    ASSUME NEW p, IsLog(p.log), NEW i \in Nat, TermAt(p, i) # 0
    PROVE  i \in 1..Len(p.log) /\ TermAt(p, i) = p.log[i].term
  BY Zenon DEF TermAt

\* What tryAppend makes of a log that agrees with the message's previous
\* entry is put together from links of the log and of the message.
LEMMA TryAppendRecombines ==
    ASSUME LeastFact, NEW p, Fields(p), IsLog(p.log), NEW m, MessageSound(m), m.type = "Replicate",
           MatchTerm(p, m.prev, m.prevTerm)
    PROVE  \/ TryAppend(p, m.prev, m.entries) = p
           \/ \E log : /\ TryAppend(p, m.prev, m.entries) = [p EXCEPT !.log = log]
                       /\ IsLog(log) /\ Len(log) = m.prev + Len(m.entries)
                       /\ Links(log) \subseteq Links(p.log) \cup CarriedLinks(m)
<1> DEFINE ents == m.entries
           prev == m.prev
           C == Conflicts(p, prev, ents)
<1>1. /\ IsLog(ents) /\ prev \in Nat /\ m.prevTerm \in Nat
      /\ ents # <<>> /\ m.prevTerm = 0 => prev = 0
  BY Zenon DEF MessageSound
<1>2. C \subseteq 1..Len(ents) /\ Len(ents) \in Nat
  BY <1>1, LogFacts, Zenon DEF Conflicts
<1>3. CASE C = {}
  BY <1>3, Zenon DEF TryAppend
<1>4. CASE C # {}
  <2> DEFINE k == CHOOSE k \in 1..Len(ents) : IsFirst(k, C)
             a == SubSeq(p.log, 1, prev + k - 1)
             b == SubSeq(ents, k, Len(ents))
             log == a \o b
  <2>1. TryAppend(p, prev, ents) = [p EXCEPT !.log = log]
    BY <1>4, Zenon DEF TryAppend
  <2>2. k \in 1..Len(ents) /\ IsFirst(k, C)
    <3>1. C \in SUBSET Nat
      BY <1>2
    <3>2. \E i \in 1..Len(ents) : IsFirst(i, C)
      BY <1>2, <1>4, <3>1, Zenon DEF IsFirst, LeastFact
    <3> QED
      BY <3>2, Zenon
  <2> HIDE DEF k, C
  <2>3. /\ ents \in Seq(Entry) /\ p.log \in Seq(Entry) /\ ents # <<>>
        /\ Len(p.log) \in Nat
        /\ \A i \in 1..Len(ents) : ents[i].term \in Nat /\ ents[i].term >= 1
        /\ \A i \in 1..Len(p.log) : p.log[i].term \in Nat /\ p.log[i].term >= 1
    BY <1>1, <1>2, <2>2, LogFacts
  <2>4. ASSUME NEW i \in 1..Len(ents), i < k
        PROVE  prev + i \in 1..Len(p.log) /\ p.log[prev + i].term = ents[i].term
    <3>1. i \notin C
      BY <2>2, <2>4 DEF IsFirst
    <3>2. TermAt(p, prev + i) = ents[i].term /\ ents[i].term # 0
      BY <2>3, <3>1 DEF C, Conflicts, MatchTerm
    <3> QED
      BY <1>1, <3>2, TermAtFacts
  <2>5. prev # 0 => prev \in 1..Len(p.log) /\ p.log[prev].term = m.prevTerm
    <3>1. TermAt(p, prev) = m.prevTerm
      BY Zenon DEF MatchTerm
    <3> QED
      BY <1>1, <2>3, <3>1, TermAtFacts, Zenon
  <2>6. prev + k - 1 \in Nat /\ prev + k - 1 <= Len(p.log)
    <3>1. CASE k = 1
      BY <1>1, <2>3, <2>5, <3>1
    <3>2. CASE k # 1
      <4>1. k - 1 \in 1..Len(ents) /\ k - 1 < k
        BY <1>2, <2>2, <3>2
      <4>2. prev + (k - 1) \in 1..Len(p.log)
        BY <2>4, <4>1, Zenon
      <4> QED
        BY <1>1, <2>2, <4>2
    <3> QED
      BY <3>1, <3>2, Zenon
  <2>7. /\ a \in Seq(Entry) /\ Len(a) = prev + k - 1
        /\ \A i \in 1..(prev + k - 1) : a[i] = p.log[i]
    BY <2>3, <2>6
  <2>8. /\ b \in Seq(Entry) /\ Len(b) = Len(ents) - k + 1
        /\ \A i \in 1..(Len(ents) - k + 1) : b[i] = ents[k + i - 1]
    BY <1>2, <2>2, <2>3, SubSeqFacts
  <2> HIDE DEF a, b
  <2>9. /\ log \in Seq(Entry) /\ Len(log) = prev + Len(ents)
        /\ \A i \in 1..(prev + k - 1) : log[i] = a[i]
        /\ \A i \in 1..(Len(ents) - k + 1) : log[prev + k - 1 + i] = b[i]
    <3>1. Len(a) = prev + k - 1 /\ Len(b) = Len(ents) - k + 1
      BY <2>7, <2>8, Zenon
    <3>2. prev \in Nat /\ k \in Nat /\ Len(ents) \in Nat
      BY <1>1, <1>2, <2>2
    <3>3. Len(a) + Len(b) = prev + Len(ents)
      <4>1. ASSUME NEW x \in Nat, NEW y \in Nat, NEW z \in Nat
            PROVE  (x + y - 1) + (z - y + 1) = x + z
        OBVIOUS
      <4>2. (prev + k - 1) + (Len(ents) - k + 1) = prev + Len(ents)
        BY <3>2, <4>1, Zenon
      <4> QED
        BY <3>1, <4>2, Zenon
    <3>4. /\ log \in Seq(Entry) /\ Len(log) = Len(a) + Len(b)
          /\ \A i \in 1..Len(a) : log[i] = a[i]
          /\ \A i \in 1..Len(b) : log[Len(a) + i] = b[i]
      <4>1. a \in Seq(Entry) /\ b \in Seq(Entry)
        BY <2>7, <2>8, Zenon
      <4> QED
        BY <4>1, ConcatFacts, Zenon
    <3> QED
      BY <3>1, <3>3, <3>4, Zenon
  <2> HIDE DEF log
  <2>10. \A i \in 1..(prev + k - 1) : log[i] = p.log[i]
    BY <2>7, <2>9, Zenon
  <2>11. ASSUME NEW j \in k..Len(ents) PROVE log[prev + j] = ents[j]
    <3>1. j - k + 1 \in 1..(Len(ents) - k + 1)
      BY <1>2, <2>2
    <3>2. log[prev + k - 1 + (j - k + 1)] = b[j - k + 1] /\ b[j - k + 1] = ents[k + (j - k + 1) - 1]
      BY <2>8, <2>9, <3>1, Zenon
    <3>3. prev + k - 1 + (j - k + 1) = prev + j /\ k + (j - k + 1) - 1 = j
      BY <1>1, <1>2, <2>2
    <3> QED
      BY <3>2, <3>3, Zenon
  <2>12. ASSUME NEW i \in 1..(prev + Len(ents)), i > prev + k - 1
         PROVE  i - prev \in k..Len(ents) /\ i = prev + (i - prev)
    BY <1>1, <1>2, <2>2, <2>12
  <2>13. IsLog(log)
    <3>1. ASSUME NEW i \in 1..Len(log) PROVE log[i].term >= 1
      <4>1. CASE i <= prev + k - 1
        <5>1. i \in 1..(prev + k - 1) /\ i \in 1..Len(p.log)
          BY <1>1, <2>2, <2>3, <2>6, <2>9, <4>1
        <5> QED
          BY <2>3, <2>10, <5>1, Zenon
      <4>2. CASE i > prev + k - 1
        <5>1. i - prev \in k..Len(ents) /\ i = prev + (i - prev)
          BY <2>9, <2>12, <4>2, Zenon
        <5>2. log[i] = ents[i - prev]
          BY <2>11, <5>1, Zenon
        <5>3. i - prev \in 1..Len(ents)
          BY <1>2, <2>2, <5>1
        <5> QED
          BY <2>3, <5>2, <5>3, Zenon
      <4> QED
        BY <1>1, <2>2, <2>9, <4>1, <4>2
    <3> QED
      BY <2>9, <3>1, Zenon DEF IsLog
  <2>14. ASSUME NEW i \in 1..Len(log)
         PROVE  Link(i, log[i], TermBefore(log, i)) \in Links(p.log) \cup EntriesLinks(m)
    <3>1. CASE i <= prev + k - 1
      <4>1. i \in 1..(prev + k - 1) /\ i \in 1..Len(p.log)
        <5>1. i \in Nat /\ i >= 1 /\ Len(p.log) \in Nat
          BY <2>3, <2>9
        <5> QED
          BY <2>6, <3>1, <5>1
      <4>2. i # 1 => i - 1 \in 1..(prev + k - 1)
        BY <2>6, <4>1
      <4>3. log[i] = p.log[i] /\ TermBefore(log, i) = TermBefore(p.log, i)
        BY <2>10, <4>1, <4>2, Zenon DEF TermBefore
      <4>4. Link(i, log[i], TermBefore(log, i)) = Link(i, p.log[i], TermBefore(p.log, i))
        BY <4>3, Zenon
      <4> QED
        BY <4>1, <4>4, Zenon DEF Links
    <3>2. CASE i > prev + k - 1
      <4> DEFINE j == i - prev
      <4>1. j \in k..Len(ents) /\ i = prev + j
        BY <2>9, <2>12, <3>2, Zenon
      <4> HIDE DEF j
      <4>2. log[i] = ents[j] /\ j \in 1..Len(ents)
        BY <1>2, <2>2, <2>11, <4>1
      <4>3. TermBefore(log, i) = (IF j = 1 THEN m.prevTerm ELSE ents[j - 1].term)
        <5>1. CASE j = 1
          <6>1. k = 1 /\ i = prev + 1
            BY <1>1, <2>2, <4>1, <5>1
          <6>2. CASE prev = 0
            <7>1. m.prevTerm = 0
              <8>1. TermAt(p, 0) = 0
                BY DEF TermAt
              <8> QED
                BY <6>2, <8>1, Zenon DEF MatchTerm
            <7> QED
              BY <5>1, <6>1, <6>2, <7>1 DEF TermBefore
          <6>3. CASE prev # 0
            <7>1. i # 1 /\ i - 1 = prev /\ prev \in 1..(prev + k - 1)
              BY <1>1, <6>1, <6>3
            <7>2. log[i - 1] = p.log[prev]
              BY <2>10, <7>1, Zenon
            <7> QED
              BY <2>5, <5>1, <6>3, <7>1, <7>2, Zenon DEF TermBefore
          <6> QED
            BY <6>2, <6>3, Zenon
        <5>2. CASE j # 1 /\ j = k
          <6>1. k - 1 \in 1..Len(ents) /\ k - 1 < k /\ i # 1 /\ i - 1 = prev + (k - 1)
                /\ i - 1 \in 1..(prev + k - 1)
            BY <1>1, <1>2, <2>2, <4>1, <5>2
          <6>2. log[i - 1] = p.log[prev + (k - 1)] /\ p.log[prev + (k - 1)].term = ents[k - 1].term
            BY <2>4, <2>10, <6>1, Zenon
          <6> QED
            BY <5>2, <6>1, <6>2, Zenon DEF TermBefore
        <5>3. CASE j # 1 /\ j # k
          <6>1. j - 1 \in k..Len(ents) /\ i # 1 /\ i - 1 = prev + (j - 1)
            BY <1>1, <1>2, <2>2, <4>1, <5>3
          <6>2. log[i - 1] = ents[j - 1]
            BY <2>11, <6>1, Zenon
          <6> QED
            BY <5>3, <6>1, <6>2, Zenon DEF TermBefore
        <5> QED
          BY <5>1, <5>2, <5>3, Zenon
      <4>4. Link(i, log[i], TermBefore(log, i))
              = Link(m.prev + j, m.entries[j], IF j = 1 THEN m.prevTerm ELSE m.entries[j - 1].term)
        BY <4>1, <4>2, <4>3, Zenon
      <4> QED
        BY <4>2, <4>4, Zenon DEF EntriesLinks
    <3> QED
      BY <1>1, <2>2, <2>9, <3>1, <3>2
  <2>15. Links(log) \subseteq Links(p.log) \cup CarriedLinks(m)
    BY <2>14, Zenon DEF Links, CarriedLinks
  <2> QED
    BY <2>1, <2>9, <2>13, <2>15, Zenon
<1> QED
  BY <1>3, <1>4, Zenon

---------------------------------------------------------------------------
\* What is sent comes from the log.

LEMMA SoundFacts ==
    ASSUME NEW p, Sound(p)
    PROVE  /\ p.term \in Nat /\ IsLog(p.log) /\ Len(p.log) \in Nat
           /\ p.marker \in Nat /\ p.committed \in Nat /\ p.applied \in Nat
           /\ p.snapshot.index \in Nat /\ p.snapshot.members \in Members
           /\ p.snapshot.index <= Len(p.log) /\ p.applied <= Len(p.log)
           /\ p.members.voters \subseteq Node /\ p.members.observers \subseteq Node
           /\ \A v \in Node : p.remotes[v] \in Remote
<1>1. /\ p.term \in Nat /\ IsLog(p.log) /\ Len(p.log) \in Nat
  BY LogFacts, Zenon DEF Sound, TermOK
<1>2. /\ p.marker \in Nat /\ p.committed \in Nat /\ p.applied \in Nat
      /\ p.snapshot \in Snapshot /\ p.snapshot.index <= p.committed
      /\ p.applied <= p.committed /\ p.committed <= Len(p.log)
  BY Zenon DEF Sound, Ordered
<1>3. p.snapshot.index \in Nat /\ p.snapshot.members \in Members
  BY <1>2, Zenon DEF Snapshot
<1>4. p.members.voters \subseteq Node /\ p.members.observers \subseteq Node
  BY Zenon DEF Sound, Members
<1>5. \A v \in Node : p.remotes[v] \in Remote
  BY Zenon DEF Sound
<1> QED
  BY <1>1, <1>2, <1>3, <1>4, <1>5

LEMMA ReplicateMsgSends ==
    ASSUME NEW p, Sound(p), p.term >= 1, NEW n \in Node, NEW v \in Node,
           ~ NeedsSnapshot(p, v)
    PROVE  /\ MessageSound(ReplicateMsg(p, n, v))
           /\ CarriedLinks(ReplicateMsg(p, n, v)) \subseteq Links(p.log)
<1> DEFINE next == p.remotes[v].next
           hi == MinOf(LastIndex(p), next + MaxEntries - 1)
           ents == SubSeq(p.log, next, hi)
           m == ReplicateMsg(p, n, v)
<1>1. /\ p.term \in Nat /\ p.log \in Seq(Entry) /\ Len(p.log) \in Nat /\ p.marker \in Nat
      /\ p.committed \in Nat
      /\ \A i \in 1..Len(p.log) : p.log[i].term \in Nat /\ p.log[i].term >= 1
  BY SoundFacts, LogFacts, Zenon
<1>2. next \in Nat \ {0} /\ next > p.marker
  BY <1>1, SoundFacts, RemoteFields DEF NeedsSnapshot
<1>3. /\ m.type = "Replicate" /\ m.from = n /\ m.term = p.term /\ m.commit = p.committed
      /\ m.prev = next - 1 /\ m.prevTerm = TermAt(p, next - 1) /\ m.entries = ents
  BY Zenon DEF ReplicateMsg
<1> HIDE DEF m
<1>4. hi \in Nat /\ hi <= Len(p.log) /\ LastIndex(p) = Len(p.log)
  BY <1>1, <1>2, MaxEntriesAssumption DEF MinOf, LastIndex
<1> HIDE DEF next, hi
<1>5. TermAt(p, next - 1) \in Nat
  BY <1>1, <1>2, Zenon DEF TermAt
<1>6. CASE next > hi
  <2>1. ents = <<>>
    BY <1>1, <1>2, <1>4, <1>6
  <2>2. IsLog(ents) /\ ents = <<>> /\ Len(ents) = 0
    BY <2>1 DEF IsLog
  <2> HIDE DEF ents
  <2>3. MessageSound(m)
    BY <1>1, <1>2, <1>3, <1>5, <2>2 DEF MessageSound
  <2>4. CarriedLinks(m) = {}
    BY <1>3, <2>2 DEF CarriedLinks, EntriesLinks
  <2> QED
    BY <2>3, <2>4, Zenon DEF m
<1>7. CASE next <= hi
  <2>1. /\ ents \in Seq(Entry) /\ Len(ents) = hi - next + 1
        /\ \A k \in 1..(hi - next + 1) : ents[k] = p.log[next + k - 1]
    BY <1>1, <1>2, <1>4, <1>7, SubSeqFacts
  <2> HIDE DEF ents
  <2>2. ASSUME NEW k \in 1..Len(ents)
        PROVE  ents[k] = p.log[next + k - 1] /\ next + k - 1 \in 1..Len(p.log)
    BY <1>2, <1>4, <1>7, <2>1
  <2>3. IsLog(ents)
    BY <1>1, <2>1, <2>2, Zenon DEF IsLog
  <2>4. TermAt(p, next - 1) = TermBefore(p.log, next)
    BY <1>1, <1>2, <1>4, <1>7 DEF TermAt, TermBefore
  <2>5. TermAt(p, next - 1) = 0 => next - 1 = 0
    BY <1>1, <1>2, <1>4, <1>7, <2>4 DEF TermBefore
  <2>6. MessageSound(m)
    BY <1>1, <1>2, <1>3, <1>5, <2>3, <2>5 DEF MessageSound
  <2>7. ASSUME NEW k \in 1..Len(ents)
        PROVE  Link(m.prev + k, ents[k], IF k = 1 THEN m.prevTerm ELSE ents[k - 1].term)
                   \in Links(p.log)
    <3> DEFINE i == next + k - 1
    <3>1. ents[k] = p.log[i] /\ i \in 1..Len(p.log) /\ m.prev + k = i
      BY <1>2, <1>3, <2>2
    <3>2. TermBefore(p.log, i) = (IF k = 1 THEN m.prevTerm ELSE ents[k - 1].term)
      <4>1. CASE k = 1
        BY <1>2, <1>3, <2>4, <4>1
      <4>2. CASE k # 1
        <5>1. k - 1 \in 1..Len(ents) /\ i # 1 /\ i - 1 = next + (k - 1) - 1
          BY <1>2, <1>4, <2>1, <4>2
        <5>2. ents[k - 1] = p.log[i - 1]
          BY <2>2, <5>1, Zenon
        <5> QED
          BY <4>2, <5>1, <5>2, Zenon DEF TermBefore
      <4> QED
        BY <4>1, <4>2, Zenon
    <3> HIDE DEF i
    <3> QED
      BY <3>1, <3>2, Zenon DEF Links
  <2>8. CarriedLinks(m) \subseteq Links(p.log)
    BY <1>3, <2>7, Zenon DEF CarriedLinks, EntriesLinks
  <2> QED
    BY <2>6, <2>8, Zenon DEF m
<1> QED
  BY <1>2, <1>4, <1>6, <1>7

LEMMA InstallSnapshotMsgSends ==
    ASSUME NEW p, Sound(p), p.term >= 1, NEW n \in Node, NEW v
    PROVE  /\ MessageSound(InstallSnapshotMsg(p, n, v))
           /\ CarriedLinks(InstallSnapshotMsg(p, n, v)) \subseteq Links(p.log)
<1> DEFINE s == SubSeq(p.log, 1, p.snapshot.index)
           m == InstallSnapshotMsg(p, n, v)
<1>1. /\ IsLog(s) /\ Links(s) \subseteq Links(p.log)
  BY SoundFacts, PrefixIsLog, Zenon
<1>2. /\ m.type = "InstallSnapshot" /\ m.from = n /\ m.term = p.term
      /\ m.ss.log = s /\ m.ss.members = p.snapshot.members
  BY Zenon DEF InstallSnapshotMsg
<1> HIDE DEF m, s
<1>3. p.term \in Nat /\ p.snapshot.members \in Members
  BY SoundFacts, Zenon
<1> QED
  BY <1>1, <1>2, <1>3, Zenon DEF m, MessageSound, CarriedLinks

---------------------------------------------------------------------------
\* The building blocks of handlers.

SameLog(p, q) ==
    /\ Fields(q)
    /\ q.log = p.log /\ q.marker = p.marker /\ q.committed = p.committed
    /\ q.applied = p.applied /\ q.snapshot = p.snapshot /\ q.compactTo = p.compactTo
    /\ q.members = p.members /\ q.remotes \in [Node -> Remote]

LEMMA SameLogIsSound ==
    ASSUME NEW p, Sound(p), NEW q, SameLog(p, q), TermOK(q)
    PROVE  Sound(q)
<1>1. Ordered(q)
  BY Zenon DEF Sound, SameLog, Ordered
<1> QED
  BY <1>1, Zenon DEF Sound, SameLog

LEMMA SameLogHolds ==
    ASSUME NEW p, Sound(p), NEW q, SameLog(p, q), q.term = p.term, q.role = p.role
    PROVE  Holds(p, q)
<1>1. TermOK(q)
  BY Zenon DEF Sound, SameLog, TermOK
<1> QED
  BY <1>1, SameLogIsSound, Zenon DEF Holds, SameLog

LEMMA SoundHolds ==
    ASSUME NEW p, Sound(p)
    PROVE  Holds(p, p)
  BY Zenon DEF Holds

LEMMA HoldsTransitive ==
    ASSUME NEW p, NEW q, NEW r, Holds(p, q), Holds(q, r)
    PROVE  Holds(p, r)
  BY Zenon DEF Holds

LEMMA CalmAfter ==
    ASSUME NEW p, NEW q, NEW res, Holds(p, q), Calm(q, res)
    PROVE  Calm(p, res)
  BY Zenon DEF Calm, Holds, Sends

LEMMA CalmSilence ==
    ASSUME NEW p, NEW q, Holds(p, q)
    PROVE  Calm(p, Result(q, {}))
  BY Zenon DEF Calm, Sends, Result

LEMMA ResetRemotesAreRemotes ==
    ASSUME NEW p, Sound(p), NEW n
    PROVE  ResetRemotes(p, n) \in [Node -> Remote]
<1>1. Len(p.log) \in Nat /\ LastIndex(p) = Len(p.log)
  BY SoundFacts, Zenon DEF LastIndex
<1>2. \A v \in Node : NewRemote(IF v = n THEN LastIndex(p) ELSE 0, LastIndex(p) + 1) \in Remote
  BY <1>1, NewRemoteIsRemote, Zenon
<1> QED
  BY <1>2, Zenon DEF ResetRemotes

LEMMA ResetSame ==
    ASSUME NEW p, Sound(p), NEW n, NEW t
    PROVE  /\ SameLog(p, Reset(p, n, t))
           /\ Reset(p, n, t).term = t /\ Reset(p, n, t).role = p.role
<1>1. ResetRemotes(p, n) \in [Node -> Remote]
  BY ResetRemotesAreRemotes, Zenon
<1>2. Fields(p)
  BY Zenon DEF Sound
<1> QED
  BY <1>1, <1>2, Zenon DEF Reset, SameLog, Fields

\* A node that changes its role or its term without becoming a candidate.
LEMMA BecomeFollowerSame ==
    ASSUME NEW p, Sound(p), NEW n, NEW t \in Nat, t >= p.term, NEW l
    PROVE  LET q == BecomeFollower(p, n, t, l)
           IN  SameLog(p, q) /\ Sound(q) /\ q.term = t /\ q.role = "follower"
<1> DEFINE r == Reset(p, n, t)
           q == [r EXCEPT !.role = "follower", !.leader = l]
<1>1. SameLog(p, r) /\ r.term = t
  BY ResetSame
<1> HIDE DEF r
<1>2. SameLog(p, q) /\ q.term = t /\ q.role = "follower"
  BY <1>1, Zenon DEF SameLog, Fields
<1> HIDE DEF q
<1>3. TermOK(q)
  BY <1>2 DEF TermOK, SameLog, Sound
<1>4. Sound(q)
  BY <1>2, <1>3, SameLogIsSound, Zenon
<1> QED
  BY <1>2, <1>4, Zenon DEF BecomeFollower, q, r

LEMMA BecomeObserverSame ==
    ASSUME NEW p, Sound(p), p.role = "observer", NEW n, NEW t \in Nat, t >= p.term, NEW l
    PROVE  LET q == BecomeObserver(p, n, t, l)
           IN  SameLog(p, q) /\ Sound(q) /\ q.term = t /\ q.role = "observer"
<1> DEFINE r == Reset(p, n, t)
           q == [r EXCEPT !.leader = l]
<1>1. SameLog(p, r) /\ r.term = t /\ r.role = "observer"
  BY ResetSame
<1> HIDE DEF r
<1>2. SameLog(p, q) /\ q.term = t /\ q.role = "observer"
  BY <1>1, Zenon DEF SameLog, Fields
<1> HIDE DEF q
<1>3. TermOK(q)
  BY <1>2 DEF TermOK, SameLog, Sound
<1>4. Sound(q)
  BY <1>2, <1>3, SameLogIsSound, Zenon
<1> QED
  BY <1>2, <1>4, Zenon DEF BecomeObserver, q, r

LEMMA BecomeCandidateSame ==
    ASSUME NEW p, Sound(p), NEW n
    PROVE  LET q == BecomeCandidate(p, n)
           IN  SameLog(p, q) /\ Sound(q) /\ q.term = p.term + 1 /\ q.role = "candidate"
<1> DEFINE r == Reset(p, n, p.term + 1)
           q == [r EXCEPT !.role = "candidate", !.vote = n, !.granted = {n}]
<1>1. SameLog(p, r) /\ r.term = p.term + 1
  BY ResetSame
<1> HIDE DEF r
<1>2. SameLog(p, q) /\ q.term = p.term + 1 /\ q.role = "candidate"
  BY <1>1, Zenon DEF SameLog, Fields
<1> HIDE DEF q
<1>3. TermOK(q)
  BY <1>2, SoundFacts DEF TermOK
<1>4. Sound(q)
  BY <1>2, <1>3, SameLogIsSound, Zenon
<1> QED
  BY <1>2, <1>4, Zenon DEF BecomeCandidate, q, r

LEMMA SetRemoteHolds ==
    ASSUME NEW p, Sound(p), NEW v, NEW r \in Remote
    PROVE  Holds(p, SetRemote(p, v, r))
<1> DEFINE q == SetRemote(p, v, r)
<1>1. Fields(p) /\ p.remotes \in [Node -> Remote]
  BY Zenon DEF Sound
<1>2. SameLog(p, q) /\ q.term = p.term /\ q.role = p.role
  BY <1>1, Zenon DEF SetRemote, SameLog, Fields
<1> QED
  BY <1>2, SameLogHolds, Zenon

LEMMA CommitToHolds ==
    ASSUME NEW p, Sound(p), NEW i \in Nat, CommitTo(p, i).committed <= Len(p.log)
    PROVE  Holds(p, CommitTo(p, i))
<1> DEFINE c == MaxOf(p.committed, i)
           q == CommitTo(p, i)
<1>1. Fields(p)
  BY Zenon DEF Sound
<1>2. q = [p EXCEPT !.committed = c]
  BY <1>1, Zenon DEF CommitTo
<1>3. p.committed \in Nat /\ c \in Nat /\ c >= p.committed
  BY SoundFacts DEF MaxOf
<1> HIDE DEF c
<1>4. /\ Fields(q) /\ q.committed = c
      /\ q.log = p.log /\ q.marker = p.marker /\ q.applied = p.applied
      /\ q.snapshot = p.snapshot /\ q.compactTo = p.compactTo
      /\ q.members = p.members /\ q.remotes = p.remotes
      /\ q.term = p.term /\ q.role = p.role
  BY <1>1, <1>2, Zenon DEF Fields
<1>5. c <= Len(p.log)
  BY <1>4, Zenon
<1> HIDE DEF q
<1>6. Ordered(q)
  <2>1. p.snapshot.index \in Nat /\ p.applied \in Nat
    BY SoundFacts, Zenon
  <2> QED
    BY <1>3, <1>4, <1>5, <2>1 DEF Sound, Ordered
<1>7. Sound(q)
  BY <1>4, <1>6, Zenon DEF Sound, TermOK
<1> QED
  BY <1>4, <1>7, Zenon DEF Holds, q

LEMMA TryCommitHolds ==
    ASSUME NEW p, Sound(p), p.term >= 1
    PROVE  Holds(p, TryCommit(p))
<1> DEFINE i == QuorumMatch(p)
<1>1. CASE WillCommit(p)
  <2> HIDE DEF i
  <2>1. TermAt(p, i) = p.term
    BY <1>1, Zenon DEF WillCommit, CanCommit, i
  <2>2. i \in 1..Len(p.log)
    BY <2>1, SoundFacts DEF TermAt
  <2>3. CommitTo(p, i).committed <= Len(p.log)
    <3>1. MaxOf(p.committed, i) <= Len(p.log)
      BY <2>2 DEF MaxOf, Sound, Ordered
    <3>2. CommitTo(p, i).committed = MaxOf(p.committed, i)
      BY Zenon DEF CommitTo, Sound, Fields
    <3> QED
      BY <3>1, <3>2, Zenon
  <2> QED
    BY <1>1, <2>2, <2>3, CommitToHolds, SoundFacts DEF TryCommit, i
<1>2. CASE ~ WillCommit(p)
  BY <1>2, SoundHolds, Zenon DEF TryCommit
<1> QED
  BY <1>1, <1>2, Zenon

EntryCommand == Command \cup ConfigChange \cup {Noop}

LEMMA AppendEntryAdds ==
    ASSUME NEW p, Sound(p), p.term >= 1, NEW n \in Node, NEW cmd \in EntryCommand
    PROVE  LET q == AppendEntry(p, n, cmd)
           IN  Sound(q) /\ q.term = p.term /\ q.role = p.role /\ Adds(p, q, cmd)
<1> DEFINE e == [term |-> p.term, cmd |-> cmd]
           log == Append(p.log, e)
           q == [p EXCEPT !.log = Append(@, e), !.remotes[n] = TryUpdate(@, LastIndex(p) + 1)]
<1>1. Fields(p) /\ p.remotes \in [Node -> Remote] /\ IsLog(p.log) /\ Len(p.log) \in Nat
  BY SoundFacts, Zenon DEF Sound
<1>2. e \in Entry /\ e.term >= 1
  BY SoundFacts, Zenon DEF Entry, EntryCommand
<1> HIDE DEF e
<1>3. IsLog(log) /\ Len(log) = Len(p.log) + 1 /\ log # <<>>
  <2>1. IsLog(log) /\ Len(log) = Len(p.log) + 1
    BY <1>1, <1>2, AppendIsLog, Zenon
  <2> HIDE DEF log
  <2>2. CASE log = <<>>
    <3>1. Len(log) = 0
      BY <2>2, Zenon
    <3>2. Len(p.log) \in Nat
      BY <1>1, Zenon
    <3>3. Len(log) = Len(p.log) + 1
      BY <2>1, Zenon
    <3>4. \A k \in Nat : k + 1 # 0
      OBVIOUS
    <3> QED
      BY <3>1, <3>2, <3>3, <3>4, Zenon
  <2> QED
    BY <2>1, <2>2, Zenon
<1>4. TryUpdate(p.remotes[n], LastIndex(p) + 1) \in Remote
  BY <1>1, SoundFacts, TryUpdateIsRemote DEF LastIndex
<1>5. /\ Fields(q)
      /\ q.log = log /\ q.marker = p.marker /\ q.applied = p.applied
      /\ q.committed = p.committed
      /\ q.snapshot = p.snapshot /\ q.compactTo = p.compactTo
      /\ q.members = p.members /\ q.remotes \in [Node -> Remote]
      /\ q.term = p.term /\ q.role = p.role
  BY <1>1, <1>4, Zenon DEF Fields
<1> HIDE DEF q, log
<1>6. Ordered(q)
  BY <1>1, <1>3, <1>5 DEF Sound, Ordered
<1>7. Sound(q)
  BY <1>3, <1>5, <1>6, Zenon DEF Sound, TermOK
<1>8. Holds(q, TryCommit(q))
  BY <1>5, <1>7, TryCommitHolds, Zenon
<1>9. AppendEntry(p, n, cmd) = IF IsSingleNodeQuorum(q) THEN TryCommit(q) ELSE q
  BY Zenon DEF AppendEntry, q, e
<1> QED
  BY <1>5, <1>7, <1>8, <1>9, Zenon DEF Holds, Adds, log, e

LEMMA BecomeLeaderAdds ==
    ASSUME NEW p, Sound(p), p.term >= 1, NEW n \in Node
    PROVE  LET q == BecomeLeader(p, n)
           IN  Sound(q) /\ q.term = p.term /\ q.role = "leader" /\ Adds(p, q, Noop)
<1> DEFINE r == Reset(p, n, p.term)
           pending == PendingConfigChanges(p) # {}
           q == [r EXCEPT !.role = "leader", !.leader = n, !.pendingConfigChange = pending]
<1>1. SameLog(p, r) /\ r.term = p.term
  BY ResetSame
<1> HIDE DEF r, pending
<1>2. SameLog(p, q) /\ q.term = p.term /\ q.role = "leader"
  BY <1>1, Zenon DEF SameLog, Fields
<1> HIDE DEF q
<1>3. TermOK(q)
  BY <1>2, SoundFacts, Zenon DEF TermOK
<1>4. Sound(q) /\ q.log = p.log
  BY <1>2, <1>3, SameLogIsSound, Zenon DEF SameLog
<1>5. Noop \in EntryCommand
  BY Zenon DEF EntryCommand
<1>6. BecomeLeader(p, n) = AppendEntry(q, n, Noop)
  BY Zenon DEF BecomeLeader, q, r, pending
<1> QED
  BY <1>2, <1>4, <1>5, <1>6, AppendEntryAdds DEF Adds

LEMMA SendReplicateCalm ==
    ASSUME NEW p, Sound(p), p.term >= 1, NEW n \in Node, NEW T \in SUBSET Node
    PROVE  Calm(p, SendReplicate(p, n, T))
<1> DEFINE S == {v \in T : CanSend(p, v)}
           remotes == [v \in Node |-> IF v \in S THEN RemoteAfterSend(p, v) ELSE p.remotes[v]]
           q == [p EXCEPT !.remotes = remotes]
           Out(v) == IF NeedsSnapshot(p, v) THEN InstallSnapshotMsg(p, n, v)
                                            ELSE ReplicateMsg(p, n, v)
           out == {Out(v) : v \in S}
<1>1. Fields(p)
  BY Zenon DEF Sound
<1>2. SendReplicate(p, n, T) = Result(q, out)
  BY Zenon DEF SendReplicate
<1>3. S \subseteq Node
  BY Zenon
<1> HIDE DEF S
<1>4. ASSUME NEW v \in Node PROVE RemoteAfterSend(p, v) \in Remote
  <2>1. p.remotes[v] \in Remote /\ p.snapshot.index \in Nat /\ Len(p.log) \in Nat
    BY SoundFacts, Zenon
  <2>2. MinOf(LastIndex(p), p.remotes[v].next + MaxEntries - 1) \in Nat
    BY <2>1, RemoteFields, MaxEntriesAssumption DEF MinOf, LastIndex
  <2> QED
    BY <2>1, <2>2, SentIsRemote, Zenon DEF RemoteAfterSend
<1>5. remotes \in [Node -> Remote]
  BY <1>4, SoundFacts, Zenon
<1> HIDE DEF remotes
<1>6. SameLog(p, q) /\ q.term = p.term /\ q.role = p.role
  BY <1>1, <1>5, Zenon DEF SameLog, Fields
<1>7. Holds(p, q)
  BY <1>6, SameLogHolds, Zenon
<1>8. ASSUME NEW v \in S
      PROVE  MessageSound(Out(v)) /\ CarriedLinks(Out(v)) \subseteq Links(p.log)
  BY <1>3, <1>8, ReplicateMsgSends, InstallSnapshotMsgSends, Zenon
<1> HIDE DEF Out
<1>9. Sends(p, out)
  BY <1>8, Zenon DEF Sends
<1> HIDE DEF q, out
<1> QED
  BY <1>2, <1>7, <1>9 DEF Calm, Result

LEMMA BroadcastReplicateCalm ==
    ASSUME NEW p, Sound(p), p.term >= 1, NEW n \in Node
    PROVE  Calm(p, BroadcastReplicate(p, n))
<1>1. Others(p, n) \in SUBSET Node
  BY SoundFacts, Zenon DEF Others
<1> QED
  BY <1>1, SendReplicateCalm, Zenon DEF BroadcastReplicate

\* A message that carries no part of the log.
LEMMA OtherMsgSends ==
    ASSUME NEW p, NEW m, MessageSound(m), m.type \notin {"Replicate", "InstallSnapshot"}
    PROVE  MessageSound(m) /\ CarriedLinks(m) \subseteq Links(p.log)
  BY Zenon DEF CarriedLinks

LEMMA BroadcastHeartbeatCalm ==
    ASSUME NEW p, Sound(p), NEW n \in Node, NEW ctx
    PROVE  Calm(p, BroadcastHeartbeat(p, n, ctx))
<1> DEFINE S == IF ctx = None THEN Others(p, n) ELSE p.members.voters \ {n}
           out == {HeartbeatMsg(p, n, v, ctx) : v \in S}
<1>1. S \subseteq Node
  BY SoundFacts, Zenon DEF Others
<1> HIDE DEF S
<1>2. ASSUME NEW v \in S
      PROVE  /\ MessageSound(HeartbeatMsg(p, n, v, ctx))
             /\ CarriedLinks(HeartbeatMsg(p, n, v, ctx)) \subseteq Links(p.log)
  <2>1. MinOf(p.remotes[v].match, p.committed) \in Nat
    BY <1>1, SoundFacts, RemoteFields, Zenon DEF MinOf
  <2>2. p.term \in Nat
    BY SoundFacts, Zenon
  <2>3. MessageSound(HeartbeatMsg(p, n, v, ctx))
    BY <2>1, <2>2, Zenon DEF HeartbeatMsg, MessageSound
  <2>4. HeartbeatMsg(p, n, v, ctx).type = "Heartbeat"
    BY Zenon DEF HeartbeatMsg
  <2> QED
    BY <2>3, <2>4, OtherMsgSends, Zenon
<1>3. Sends(p, out)
  BY <1>2, Zenon DEF Sends
<1>4. BroadcastHeartbeat(p, n, ctx) = Result(p, out)
  BY Zenon DEF BroadcastHeartbeat, S
<1> HIDE DEF out
<1> QED
  BY <1>3, <1>4, SoundHolds DEF Calm, Result

---------------------------------------------------------------------------
\* Handlers of the leader.

LEMMA ProposeAdds ==
    ASSUME NEW p, Sound(p), p.term >= 1, NEW n \in Node,
           NEW cmd \in Command \cup ConfigChange
    PROVE  LET res == HandleLeaderPropose(p, n, cmd)
           IN  \/ Calm(p, res)
               \/ \E c \in EntryCommand :
                     /\ Sound(res.p) /\ Adds(p, res.p, c)
                     /\ res.p.term = p.term /\ res.p.role = p.role
                     /\ Sends(res.p, res.out)
<1> DEFINE res == HandleLeaderPropose(p, n, cmd)
           dropped == cmd \in ConfigChange /\ p.pendingConfigChange
           p1 == IF cmd \in ConfigChange THEN [p EXCEPT !.pendingConfigChange = TRUE] ELSE p
           c == IF dropped THEN Noop ELSE cmd
           q == AppendEntry(p1, n, c)
<1>1. CASE SelfRemoved(p, n) \/ p.transferTarget # None
  BY <1>1, SoundHolds, CalmSilence, Zenon DEF HandleLeaderPropose
<1>2. CASE ~ (SelfRemoved(p, n) \/ p.transferTarget # None)
  <2>1. res = BroadcastReplicate(q, n)
    BY <1>2, Zenon DEF HandleLeaderPropose
  <2>2. SameLog(p, p1) /\ p1.term = p.term /\ p1.role = p.role
    BY Zenon DEF SameLog, Sound, Fields
  <2>3. c \in EntryCommand
    BY Zenon DEF EntryCommand
  <2> HIDE DEF p1, c, res
  <2>4. Holds(p, p1)
    BY <2>2, SameLogHolds, Zenon
  <2>5. Sound(p1) /\ p1.term = p.term /\ p1.role = p.role /\ p1.log = p.log
    BY <2>4, Zenon DEF Holds
  <2>6. Sound(q) /\ q.term = p.term /\ q.role = p.role /\ Adds(p, q, c)
    BY <2>3, <2>5, AppendEntryAdds DEF Adds
  <2> HIDE DEF q
  <2>7. Calm(q, res)
    BY <2>1, <2>6, BroadcastReplicateCalm, Zenon
  <2>8. /\ Sound(res.p) /\ Adds(p, res.p, c) /\ res.p.term = p.term /\ res.p.role = p.role
        /\ Sends(res.p, res.out)
    BY <2>6, <2>7, Zenon DEF Calm, Holds, Adds, Sends
  <2> QED
    BY <2>3, <2>8, Zenon DEF res
<1> QED
  BY <1>1, <1>2, Zenon

LEMMA TimeoutNowSends ==
    ASSUME NEW p, Sound(p), NEW n \in Node, NEW v
    PROVE  /\ MessageSound(TimeoutNowMsg(p, n, v))
           /\ CarriedLinks(TimeoutNowMsg(p, n, v)) \subseteq Links(p.log)
<1>1. p.term \in Nat
  BY SoundFacts, Zenon
<1>2. MessageSound(TimeoutNowMsg(p, n, v)) /\ TimeoutNowMsg(p, n, v).type = "TimeoutNow"
  BY <1>1, Zenon DEF TimeoutNowMsg, MessageSound
<1> QED
  BY <1>2, OtherMsgSends, Zenon

LEMMA ReplicateRespCalm ==
    ASSUME NEW p, Sound(p), p.term >= 1, NEW n \in Node,
           NEW m, MessageSound(m), m.type = "ReplicateResp"
    PROVE  Calm(p, HandleLeaderReplicateResp(p, n, m))
<1> DEFINE v == m.from
           r == [p.remotes[v] EXCEPT !.active = TRUE]
           r1 == RespondedTo(TryUpdate(r, m.index))
           r2 == EnterRetryState(DecreaseTo(r, m.index, m.hint))
           r3 == TryUpdate(r, m.index)
           p1 == SetRemote(p, v, r1)
           p2 == SetRemote(p, v, r2)
           sent == IF WillCommit(p1) THEN BroadcastReplicate(TryCommit(p1), n)
                   ELSE IF IsPaused(r) THEN SendReplicate(p1, n, {v})
                   ELSE Result(p1, {})
           now == IF p.transferTarget = v /\ m.index = LastIndex(p)
                  THEN {TimeoutNowMsg(p, n, v)} ELSE {}
           res == HandleLeaderReplicateResp(p, n, m)
<1>1. v \in Node /\ m.index \in Nat /\ m.hint \in Nat
  BY Zenon DEF MessageSound
<1>2. r \in Remote
  BY <1>1, SoundFacts, ActiveIsRemote, Zenon
<1>3. res = IF ~ m.reject
            THEN IF IsNews(r, m.index) THEN Result(sent.p, sent.out \cup now)
                 ELSE Result(SetRemote(p, v, r3), {})
            ELSE IF CanDecrease(r, m.index) THEN SendReplicate(p2, n, {v})
                 ELSE Result(SetRemote(p, v, r), {})
  BY Zenon DEF HandleLeaderReplicateResp
<1> HIDE DEF res
<1> HIDE DEF r
<1>4. r1 \in Remote /\ r2 \in Remote /\ r3 \in Remote
  BY <1>1, <1>2, TryUpdateIsRemote, AnsweredIsRemote, DecreaseToIsRemote, Zenon
<1> HIDE DEF r1, r2, r3, v
<1>5. Holds(p, p1) /\ Holds(p, p2) /\ Holds(p, SetRemote(p, v, r3)) /\ Holds(p, SetRemote(p, v, r))
  BY <1>1, <1>2, <1>4, SetRemoteHolds, Zenon
<1>6. Sound(p1) /\ p1.term >= 1 /\ Sound(p2) /\ p2.term >= 1
  BY <1>5, Zenon DEF Holds
<1> HIDE DEF p1, p2
<1>7. Calm(p, sent)
  <2>1. CASE WillCommit(p1)
    <3>1. Holds(p1, TryCommit(p1))
      BY <1>6, TryCommitHolds, Zenon
    <3>2. Holds(p, TryCommit(p1))
      BY <1>5, <3>1, HoldsTransitive, Zenon
    <3>3. Calm(TryCommit(p1), BroadcastReplicate(TryCommit(p1), n))
      BY <3>2, BroadcastReplicateCalm, Zenon DEF Holds
    <3>4. Calm(p, BroadcastReplicate(TryCommit(p1), n))
      BY <3>2, <3>3, CalmAfter, Zenon
    <3> QED
      BY <2>1, <3>4, Zenon
  <2>2. CASE ~ WillCommit(p1) /\ IsPaused(r)
    <3>1. {v} \in SUBSET Node
      BY <1>1, Zenon
    <3>2. Calm(p1, SendReplicate(p1, n, {v}))
      BY <1>6, <3>1, SendReplicateCalm, Zenon
    <3>3. Calm(p, SendReplicate(p1, n, {v}))
      BY <1>5, <3>2, CalmAfter, Zenon
    <3> QED
      BY <2>2, <3>3, Zenon
  <2>3. CASE ~ WillCommit(p1) /\ ~ IsPaused(r)
    BY <1>5, <2>3, CalmSilence, Zenon
  <2> QED
    BY <2>1, <2>2, <2>3, Zenon
<1> HIDE DEF sent
<1>8. Sends(p, now)
  BY TimeoutNowSends, Zenon DEF Sends
<1> HIDE DEF now
<1>9. Calm(p, Result(sent.p, sent.out \cup now))
  BY <1>7, <1>8, Zenon DEF Calm, Sends, Result
<1>10. Calm(p, SendReplicate(p2, n, {v}))
  <2>1. {v} \in SUBSET Node
    BY <1>1, Zenon
  <2>2. Calm(p2, SendReplicate(p2, n, {v}))
    BY <1>6, <2>1, SendReplicateCalm, Zenon
  <2> QED
    BY <1>5, <2>2, CalmAfter, Zenon
<1>11. Calm(p, Result(SetRemote(p, v, r3), {})) /\ Calm(p, Result(SetRemote(p, v, r), {}))
  BY <1>5, CalmSilence, Zenon
<1>12. Calm(p, res)
  BY <1>3, <1>9, <1>10, <1>11, Zenon
<1> QED
  BY <1>12, Zenon DEF res

LEMMA SnapshotStatusHolds ==
    ASSUME NEW p, Sound(p), NEW v \in Node, NEW reject
    PROVE  Holds(p, HandleLeaderSnapshotStatus(p, v, reject))
<1> DEFINE i == IF reject THEN 0 ELSE p.remotes[v].snapshotIndex
           r == [p.remotes[v] EXCEPT !.snapshotIndex = i]
<1>1. p.remotes[v] \in Remote
  BY SoundFacts, Zenon
<1>2. i \in Nat
  BY <1>1, RemoteFields, Zenon
<1>3. [p.remotes[v] EXCEPT !.snapshotIndex = IF reject THEN 0 ELSE @] = r
  BY <1>1, Zenon DEF Remote
<1> HIDE DEF i
<1>4. r \in Remote
  BY <1>1, <1>2, SnapshotIndexIsRemote, Zenon
<1>5. HandleLeaderSnapshotStatus(p, v, reject) = SetRemote(p, v, BecomeWait(r))
  BY <1>3, Zenon DEF HandleLeaderSnapshotStatus
<1> HIDE DEF r
<1> QED
  BY <1>4, <1>5, AnsweredIsRemote, SetRemoteHolds, Zenon

LEMMA UnreachableHolds ==
    ASSUME NEW p, Sound(p), NEW v \in Node
    PROVE  Holds(p, HandleLeaderUnreachable(p, v))
<1>1. EnterRetryState(p.remotes[v]) \in Remote
  BY SoundFacts, AnsweredIsRemote, Zenon
<1> QED
  BY <1>1, SetRemoteHolds, Zenon DEF HandleLeaderUnreachable

LEMMA LeaderTransferCalm ==
    ASSUME NEW p, Sound(p), NEW n \in Node, NEW from, NEW target
    PROVE  Calm(p, HandleLeaderLeaderTransfer(p, n, from, target))
<1> DEFINE q == [p EXCEPT !.transferTarget = target]
           out == IF p.remotes[from].match = LastIndex(p) THEN {TimeoutNowMsg(p, n, target)} ELSE {}
<1>1. SameLog(p, q) /\ q.term = p.term /\ q.role = p.role
  BY Zenon DEF SameLog, Sound, Fields
<1> HIDE DEF q
<1>2. Holds(p, q)
  BY <1>1, SameLogHolds, Zenon
<1>3. Sends(p, out)
  BY TimeoutNowSends, Zenon DEF Sends
<1> HIDE DEF out
<1>4. Calm(p, Result(q, out))
  BY <1>2, <1>3, Zenon DEF Calm, Result
<1>5. Calm(p, Result(p, {}))
  BY SoundHolds, CalmSilence, Zenon
<1>6. HandleLeaderLeaderTransfer(p, n, from, target)
        = IF p.transferTarget # None \/ target = n THEN Result(p, {}) ELSE Result(q, out)
  BY Zenon DEF HandleLeaderLeaderTransfer, q, out
<1> QED
  BY <1>4, <1>5, <1>6, Zenon

LEMMA ElectionTimeoutHolds ==
    ASSUME NEW p, Sound(p), NEW n
    PROVE  LET q == HandleLeaderElectionTimeout(p, n)
           IN  Sound(q) /\ q.term = p.term /\ q.log = p.log /\ q.role \in {p.role, "follower"}
<1> DEFINE remotes == [v \in Node |->
                         [p.remotes[v] EXCEPT !.active = p.remotes[v].active
                                                           /\ v \notin p.members.voters]]
           p1 == [p EXCEPT !.remotes = remotes]
           p2 == [p1 EXCEPT !.transferTarget = None]
           p3 == [p EXCEPT !.transferTarget = None]
           p4 == BecomeFollower(p1, n, p.term, None)
<1>1. Fields(p)
  BY Zenon DEF Sound
<1>2. remotes \in [Node -> Remote]
  <2>1. ASSUME NEW v \in Node
        PROVE  [p.remotes[v] EXCEPT !.active = p.remotes[v].active /\ v \notin p.members.voters]
                   \in Remote
    BY SoundFacts, ActiveIsRemote, Zenon
  <2> QED
    BY <2>1, Zenon
<1>3. HandleLeaderElectionTimeout(p, n)
        = IF p.checkQuorum THEN IF LeaderHasQuorum(p, n) THEN p2 ELSE p4 ELSE p3
  BY Zenon DEF HandleLeaderElectionTimeout
<1> HIDE DEF remotes
<1>4. SameLog(p, p1) /\ p1.term = p.term /\ p1.role = p.role
  BY <1>1, <1>2, Zenon DEF SameLog, Fields
<1>5. SameLog(p, p2) /\ p2.term = p.term /\ p2.role = p.role
  BY <1>1, <1>2, Zenon DEF SameLog, Fields
<1>6. SameLog(p, p3) /\ p3.term = p.term /\ p3.role = p.role
  BY Zenon DEF SameLog, Fields, Sound
<1> HIDE DEF p1, p2, p3
<1>7. Holds(p, p1) /\ Holds(p, p2) /\ Holds(p, p3)
  BY <1>4, <1>5, <1>6, SameLogHolds, Zenon
<1>8. Sound(p4) /\ p4.term = p.term /\ p4.log = p.log /\ p4.role = "follower"
  <2>1. p.term \in Nat /\ p.term >= p1.term /\ Sound(p1) /\ p1.log = p.log
    BY <1>7, SoundFacts DEF Holds
  <2> QED
    BY <2>1, BecomeFollowerSame DEF SameLog
<1> HIDE DEF p4
<1> QED
  BY <1>3, <1>7, <1>8, Zenon DEF Holds

LEMMA ReadIndexRespSends ==
    ASSUME NEW p, Sound(p), NEW n \in Node, NEW v, NEW ctx, NEW i
    PROVE  /\ MessageSound(ReadIndexRespMsg(p, n, v, ctx, i))
           /\ CarriedLinks(ReadIndexRespMsg(p, n, v, ctx, i)) \subseteq Links(p.log)
<1>1. p.term \in Nat
  BY SoundFacts, Zenon
<1>2. /\ MessageSound(ReadIndexRespMsg(p, n, v, ctx, i))
      /\ ReadIndexRespMsg(p, n, v, ctx, i).type = "ReadIndexResp"
  BY <1>1, Zenon DEF ReadIndexRespMsg, MessageSound
<1> QED
  BY <1>2, OtherMsgSends, Zenon

LEMMA LeaderReadIndexCalm ==
    ASSUME NEW p, Sound(p), NEW n \in Node, NEW from, NEW ctx
    PROVE  Calm(p, HandleLeaderReadIndex(p, n, from, ctx))
<1> DEFINE req == [ctx |-> ctx, index |-> p.committed, from |-> from, acks |-> {}]
           q == [p EXCEPT !.reads = Append(@, req)]
           r == [p EXCEPT !.readyToRead = @ \cup {[ctx |-> ctx, index |-> p.committed]}]
           known == \E i \in 1..Len(p.reads) : p.reads[i].ctx = ctx
           out == IF from # n /\ from \in p.members.observers
                  THEN {ReadIndexRespMsg(p, n, from, ctx, p.committed)} ELSE {}
<1>1. SameLog(p, q) /\ q.term = p.term /\ q.role = p.role
  BY Zenon DEF SameLog, Sound, Fields
<1>2. SameLog(p, r) /\ r.term = p.term /\ r.role = p.role
  BY Zenon DEF SameLog, Sound, Fields
<1>3. HandleLeaderReadIndex(p, n, from, ctx)
        = IF ~ IsSingleNodeQuorum(p)
          THEN IF ~ HasCommittedEntryAtCurrentTerm(p) THEN Result(p, {})
               ELSE BroadcastHeartbeat(IF known THEN p ELSE q, n, ctx)
          ELSE Result(r, out)
  BY Zenon DEF HandleLeaderReadIndex
<1> HIDE DEF q, r, known
<1>4. Holds(p, q) /\ Holds(p, r) /\ Holds(p, p)
  BY <1>1, <1>2, SameLogHolds, SoundHolds, Zenon
<1>5. Calm(p, BroadcastHeartbeat(IF known THEN p ELSE q, n, ctx))
  BY <1>4, BroadcastHeartbeatCalm, CalmAfter, Zenon DEF Holds
<1>6. Sends(p, out)
  BY ReadIndexRespSends, Zenon DEF Sends
<1> HIDE DEF out
<1>7. Calm(p, Result(r, out))
  BY <1>4, <1>6, Zenon DEF Calm, Result
<1>8. Calm(p, Result(p, {}))
  BY <1>4, CalmSilence, Zenon
<1> QED
  BY <1>3, <1>5, <1>7, <1>8, Zenon

LEMMA ConfirmationCalm ==
    ASSUME NEW p, Sound(p), NEW n \in Node, NEW from, NEW ctx
    PROVE  Calm(p, HandleReadIndexLeaderConfirmation(p, n, from, ctx))
<1> DEFINE k == CHOOSE i \in 1..Len(p.reads) : p.reads[i].ctx = ctx
           acks == p.reads[k].acks \cup {from}
           done == {p.reads[i] : i \in 1..k}
           index == p.reads[k].index
           q == [p EXCEPT !.reads[k].acks = acks]
           new == {[ctx |-> s.ctx, index |-> index] : s \in {s \in done : s.from = n}}
           r == [p EXCEPT !.reads = SubSeq(@, k + 1, Len(@)), !.readyToRead = @ \cup new]
           out == {ReadIndexRespMsg(p, n, s.from, ctx, index) : s \in {s \in done : s.from # n}}
<1>1. HandleReadIndexLeaderConfirmation(p, n, from, ctx)
        \in {Result(p, {}), Result(q, {}), Result(r, out)}
  BY Zenon DEF HandleReadIndexLeaderConfirmation
<1> HIDE DEF k, acks, done, index, new
<1>2. SameLog(p, q) /\ q.term = p.term /\ q.role = p.role
  BY Zenon DEF SameLog, Sound, Fields
<1>3. SameLog(p, r) /\ r.term = p.term /\ r.role = p.role
  BY Zenon DEF SameLog, Sound, Fields
<1> HIDE DEF q, r
<1>4. Holds(p, q) /\ Holds(p, r) /\ Holds(p, p)
  BY <1>2, <1>3, SameLogHolds, SoundHolds, Zenon
<1>5. Sends(p, out)
  BY ReadIndexRespSends, Zenon DEF Sends
<1> HIDE DEF out
<1>6. Calm(p, Result(r, out))
  BY <1>4, <1>5, Zenon DEF Calm, Result
<1>7. Calm(p, Result(p, {})) /\ Calm(p, Result(q, {}))
  BY <1>4, CalmSilence, Zenon
<1> QED
  BY <1>1, <1>6, <1>7, Zenon

LEMMA HeartbeatRespCalm ==
    ASSUME NEW p, Sound(p), p.term >= 1, NEW n \in Node,
           NEW m, MessageSound(m)
    PROVE  Calm(p, HandleLeaderHeartbeatResp(p, n, m))
<1> DEFINE v == m.from
           r == WaitToRetry([p.remotes[v] EXCEPT !.active = TRUE])
           p1 == SetRemote(p, v, r)
           sent == IF r.match < LastIndex(p) THEN SendReplicate(p1, n, {v}) ELSE Result(p1, {})
           conf == HandleReadIndexLeaderConfirmation(sent.p, n, v, m.ctx)
           res == HandleLeaderHeartbeatResp(p, n, m)
<1>1. v \in Node /\ {v} \in SUBSET Node
  BY Zenon DEF MessageSound
<1>2. r \in Remote
  BY <1>1, SoundFacts, ActiveIsRemote, WaitIsRemote, Zenon
<1>3. res = IF m.ctx = None THEN sent ELSE Result(conf.p, sent.out \cup conf.out)
  BY Zenon DEF HandleLeaderHeartbeatResp
<1> HIDE DEF r, v, res
<1>4. Holds(p, p1)
  BY <1>1, <1>2, SetRemoteHolds, Zenon
<1>5. Sound(p1) /\ p1.term >= 1
  BY <1>4, Zenon DEF Holds
<1> HIDE DEF p1
<1>6. Calm(p, sent)
  <2>1. Calm(p, SendReplicate(p1, n, {v}))
    BY <1>1, <1>4, <1>5, SendReplicateCalm, CalmAfter, Zenon
  <2>2. Calm(p, Result(p1, {}))
    BY <1>4, CalmSilence, Zenon
  <2> QED
    BY <2>1, <2>2, Zenon
<1> HIDE DEF sent
<1>7. Holds(p, sent.p) /\ Sound(sent.p)
  BY <1>6, Zenon DEF Calm, Holds
<1>8. Calm(p, conf)
  BY <1>7, ConfirmationCalm, CalmAfter, Zenon
<1> HIDE DEF conf
<1>9. Calm(p, Result(conf.p, sent.out \cup conf.out))
  BY <1>6, <1>8, Zenon DEF Calm, Sends, Result
<1>10. Calm(p, res)
  BY <1>3, <1>6, <1>9, Zenon
<1> QED
  BY <1>10, Zenon DEF res

---------------------------------------------------------------------------
\* Membership and the state machine.

\* The membership, or what has been applied, changes.
LEMMA MembersHold ==
    ASSUME NEW p, Sound(p), NEW ms \in Members
    PROVE  Holds(p, [p EXCEPT !.members = ms])
<1> DEFINE q == [p EXCEPT !.members = ms]
<1>1. /\ Fields(q) /\ q.members \in Members /\ q.remotes = p.remotes
      /\ q.log = p.log /\ q.marker = p.marker /\ q.committed = p.committed
      /\ q.applied = p.applied /\ q.snapshot = p.snapshot /\ q.compactTo = p.compactTo
      /\ q.term = p.term /\ q.role = p.role
  BY Zenon DEF Sound, Fields
<1> HIDE DEF q
<1>2. Ordered(q) /\ TermOK(q)
  BY <1>1, Zenon DEF Sound, Ordered, TermOK
<1>3. Holds(p, q)
  BY <1>1, <1>2, Zenon DEF Sound, Holds
<1> QED
  BY <1>3, Zenon DEF q

LEMMA AppliedHolds ==
    ASSUME NEW p, Sound(p), NEW i \in Nat, i <= p.committed
    PROVE  Holds(p, [p EXCEPT !.applied = i])
<1> DEFINE q == [p EXCEPT !.applied = i]
<1>1. /\ Fields(q) /\ q.members = p.members /\ q.remotes = p.remotes
      /\ q.log = p.log /\ q.marker = p.marker /\ q.committed = p.committed
      /\ q.applied = i /\ q.snapshot = p.snapshot /\ q.compactTo = p.compactTo
      /\ q.term = p.term /\ q.role = p.role
  BY Zenon DEF Sound, Fields
<1> HIDE DEF q
<1>2. Ordered(q) /\ TermOK(q)
  BY <1>1, Zenon DEF Sound, Ordered, TermOK
<1>3. Holds(p, q)
  BY <1>1, <1>2, Zenon DEF Sound, Holds
<1> QED
  BY <1>3, Zenon DEF q

\* The node may also become a follower.
Rests(p, q) ==
    Sound(q) /\ q.term = p.term /\ q.log = p.log /\ q.role \in {p.role, "follower"}

Restful(p, res) == Rests(p, res.p) /\ Sends(p, res.out)

LEMMA HoldsRests ==
    ASSUME NEW p, NEW q, Holds(p, q)
    PROVE  Rests(p, q)
  BY Zenon DEF Holds, Rests

LEMMA CalmRests ==
    ASSUME NEW p, NEW res, Calm(p, res)
    PROVE  Restful(p, res)
  BY HoldsRests, Zenon DEF Calm, Restful

LEMMA RestsTransitive ==
    ASSUME NEW p, NEW q, NEW r, Rests(p, q), Rests(q, r)
    PROVE  Rests(p, r)
  BY Zenon DEF Rests

LEMMA RestfulSilence ==
    ASSUME NEW p, NEW q, Rests(p, q)
    PROVE  Restful(p, Result(q, {}))
  BY Zenon DEF Restful, Sends, Result

LEMMA StepDownRests ==
    ASSUME NEW p, Sound(p), NEW n, NEW l
    PROVE  Rests(p, BecomeFollower(p, n, p.term, l))
<1>1. p.term \in Nat /\ p.term >= p.term
  BY SoundFacts
<1> QED
  BY <1>1, BecomeFollowerSame DEF Rests, SameLog

LEMMA ChangedMembersAreMembers ==
    ASSUME NEW ms \in Members, NEW cc \in ConfigChange
    PROVE  ChangedMembers(ms, cc) \in Members
<1>1. cc.type \in {"AddNode", "AddObserver", "RemoveNode"} /\ cc.node \in Node
  BY ConfigChangeAssumption, Zenon
<1>2. CASE cc.type = "AddNode"
  BY <1>1, <1>2, Zenon DEF ChangedMembers, Members
<1>3. CASE cc.type = "AddObserver"
  BY <1>1, <1>3, Zenon DEF ChangedMembers, Members
<1>4. CASE cc.type = "RemoveNode"
  BY <1>1, <1>4, Zenon DEF ChangedMembers, Members
<1> QED
  BY <1>1, <1>2, <1>3, <1>4, Zenon

LEMMA AddNodeRests ==
    ASSUME NEW p, Sound(p), NEW n, NEW v \in Node
    PROVE  Rests(p, AddNode(p, n, v))
<1>1. NewRemote(0, LastIndex(p) + 1) \in Remote
  BY SoundFacts, NewRemoteIsRemote, Zenon DEF LastIndex
<1>2. Rests(p, SetRemote(p, v, NewRemote(0, LastIndex(p) + 1)))
  BY <1>1, SetRemoteHolds, HoldsRests, Zenon
<1> QED
  BY <1>2, StepDownRests, SoundHolds, HoldsRests, Zenon DEF AddNode

LEMMA RemoveNodeCalm ==
    ASSUME NEW p, Sound(p), p.term >= 1, NEW n \in Node, NEW v
    PROVE  Calm(p, RemoveNode(p, n, v))
<1> DEFINE p1 == [p EXCEPT !.transferTarget = IF @ = v THEN None ELSE @]
           c == TryCommit(p1)
<1>1. SameLog(p, p1) /\ p1.term = p.term /\ p1.role = p.role
  BY Zenon DEF SameLog, Sound, Fields
<1>2. RemoveNode(p, n, v) = IF WillCommit(p1) THEN BroadcastReplicate(c, n) ELSE Result(p1, {})
  BY Zenon DEF RemoveNode
<1> HIDE DEF p1
<1>3. Holds(p, p1)
  BY <1>1, SameLogHolds, Zenon
<1>4. Holds(p1, c)
  BY <1>3, TryCommitHolds, Zenon DEF Holds
<1> HIDE DEF c
<1>5. Holds(p, c) /\ Sound(c) /\ c.term >= 1
  BY <1>3, <1>4, Zenon DEF Holds
<1>6. Calm(p, BroadcastReplicate(c, n))
  BY <1>5, BroadcastReplicateCalm, CalmAfter, Zenon
<1>7. Calm(p, Result(p1, {}))
  BY <1>3, CalmSilence, Zenon
<1> QED
  BY <1>2, <1>6, <1>7, Zenon

LEMMA ConfigChangeRests ==
    ASSUME NEW p, Sound(p), p.term >= 1, NEW n \in Node, NEW cc \in ConfigChange
    PROVE  Restful(p, HandleConfigChange(p, n, cc))
<1> DEFINE p1 == [p EXCEPT !.pendingConfigChange = FALSE]
           ms == ChangedMembers(p.members, cc)
           a == AddNode(p1, n, cc.node)
           a1 == [a EXCEPT !.members = ms]
           b == [p1 EXCEPT !.members = ms]
           b1 == SetRemote(b, cc.node, NewRemote(0, LastIndex(p) + 1))
           res == HandleConfigChange(p, n, cc)
<1>1. cc.type \in {"AddNode", "AddObserver", "RemoveNode"} /\ cc.node \in Node
  BY ConfigChangeAssumption, Zenon
<1>2. SameLog(p, p1) /\ p1.term = p.term /\ p1.role = p.role
  BY Zenon DEF SameLog, Sound, Fields
<1>3. \/ res = Result(p1, {})
      \/ res = Result(a1, {})
      \/ res = Result(b1, {})
      \/ res = RemoveNode(b, n, cc.node)
  BY <1>1, Zenon DEF HandleConfigChange
<1>4. ms \in Members
  BY ChangedMembersAreMembers, Zenon DEF Sound
<1> HIDE DEF res, p1, ms
<1>5. Holds(p, p1) /\ Sound(p1)
  BY <1>2, SameLogHolds, Zenon DEF Holds
<1>6. Rests(p, a1)
  <2>1. Rests(p1, a)
    BY <1>1, <1>5, AddNodeRests, Zenon
  <2> HIDE DEF a
  <2>2. Rests(a, a1)
    BY <1>4, <2>1, MembersHold, HoldsRests, Zenon DEF Rests
  <2> HIDE DEF a1
  <2> QED
    BY <1>5, <2>1, <2>2, HoldsRests, RestsTransitive, Zenon
<1>7. Holds(p, b) /\ Sound(b) /\ b.term >= 1
  BY <1>4, <1>5, MembersHold, Zenon DEF Holds
<1> HIDE DEF b
<1>8. Holds(p, b1)
  <2>1. NewRemote(0, LastIndex(p) + 1) \in Remote
    BY SoundFacts, NewRemoteIsRemote, Zenon DEF LastIndex
  <2>2. Holds(b, b1)
    BY <1>7, <2>1, SetRemoteHolds, Zenon
  <2> HIDE DEF b1
  <2> QED
    BY <1>7, <2>2, HoldsTransitive, Zenon
<1> HIDE DEF a1, b1
<1>9. Restful(p, Result(p1, {})) /\ Restful(p, Result(a1, {})) /\ Restful(p, Result(b1, {}))
  BY <1>5, <1>6, <1>8, HoldsRests, RestfulSilence, Zenon
<1>10. Restful(p, RemoveNode(b, n, cc.node))
  BY <1>7, RemoveNodeCalm, CalmAfter, CalmRests, Zenon
<1>11. Restful(p, res)
  BY <1>3, <1>9, <1>10, Zenon
<1> QED
  BY <1>11, Zenon DEF res

LEMMA RestoreRemotesRests ==
    ASSUME NEW p, Sound(p), NEW n, NEW ms \in Members
    PROVE  Rests(p, RestoreRemotes(p, n, ms))
<1> DEFINE p1 == IF ms.voters \cap p.members.observers # {}
                 THEN BecomeFollower(p, n, p.term, p.leader) ELSE p
           remotes == ResetRemotes(p, n)
           q == [p1 EXCEPT !.members = ms, !.remotes = remotes]
           r == [p1 EXCEPT !.remotes = remotes]
<1>1. Rests(p, p1)
  BY StepDownRests, SoundHolds, HoldsRests, Zenon
<1>2. remotes \in [Node -> Remote]
  BY ResetRemotesAreRemotes, Zenon
<1>3. RestoreRemotes(p, n, ms) = q
  BY Zenon DEF RestoreRemotes
<1> HIDE DEF p1, remotes
<1>4. Sound(p1) /\ Fields(p1)
  BY <1>1, Zenon DEF Rests, Sound
<1>5. SameLog(p1, r) /\ r.term = p1.term /\ r.role = p1.role
  BY <1>2, <1>4, Zenon DEF SameLog, Fields
<1>6. q = [r EXCEPT !.members = ms]
  BY <1>4, Zenon DEF Fields
<1> HIDE DEF r, q
<1>7. Holds(p1, r) /\ Sound(r)
  BY <1>4, <1>5, SameLogHolds, Zenon DEF Holds
<1>8. Holds(r, q)
  BY <1>6, <1>7, MembersHold, Zenon
<1>9. Rests(p1, q)
  BY <1>7, <1>8, HoldsTransitive, HoldsRests, Zenon
<1> QED
  BY <1>1, <1>3, <1>9, RestsTransitive, Zenon

---------------------------------------------------------------------------
\* Handlers of a follower, an observer, and of a candidate.

LEMMA StepTermSound ==
    ASSUME NEW p, Sound(p), NEW n, NEW m, MessageSound(m)
    PROVE  LET q == StepTerm(p, n, m)
           IN  /\ Sound(q) /\ q.log = p.log /\ q.term >= m.term
               /\ \/ q = p
                  \/ q.term > p.term /\ q.role \in {"follower", "observer"}
<1> DEFINE leader == IF IsLeaderMessage(m) THEN m.from ELSE None
           a == BecomeObserver(p, n, m.term, leader)
           b == BecomeFollower(p, n, m.term, leader)
<1>1. StepTerm(p, n, m) = IF m.term <= p.term THEN p ELSE IF p.role = "observer" THEN a ELSE b
  BY Zenon DEF StepTerm
<1>2. m.term \in Nat /\ p.term \in Nat
  BY SoundFacts, Zenon DEF MessageSound
<1> HIDE DEF leader
<1>3. CASE m.term <= p.term
  BY <1>1, <1>2, <1>3, Zenon
<1>4. CASE ~ (m.term <= p.term) /\ p.role = "observer"
  <2>1. SameLog(p, a) /\ Sound(a) /\ a.term = m.term /\ a.role = "observer"
    BY <1>2, <1>4, BecomeObserverSame
  <2> HIDE DEF a
  <2> QED
    BY <1>1, <1>2, <1>4, <2>1 DEF SameLog
<1>5. CASE ~ (m.term <= p.term) /\ p.role # "observer"
  <2>1. SameLog(p, b) /\ Sound(b) /\ b.term = m.term /\ b.role = "follower"
    BY <1>2, <1>5, BecomeFollowerSame
  <2> HIDE DEF b
  <2> QED
    BY <1>1, <1>2, <1>5, <2>1 DEF SameLog
<1> QED
  BY <1>3, <1>4, <1>5, Zenon

LEMMA FollowLeaderRests ==
    ASSUME NEW p, Sound(p), p.role # "leader", NEW n, NEW m
    PROVE  Rests(p, FollowLeader(p, n, m)) /\ FollowLeader(p, n, m).role \notin {"candidate", "leader"}
<1> DEFINE a == BecomeFollower(p, n, p.term, m.from)
           b == [p EXCEPT !.leader = m.from]
<1>1. Rests(p, a) /\ a.role = "follower"
  BY StepDownRests, BecomeFollowerSame, SoundFacts
<1>2. SameLog(p, b) /\ b.term = p.term /\ b.role = p.role
  BY Zenon DEF SameLog, Sound, Fields
<1>3. FollowLeader(p, n, m) = IF p.role = "candidate" THEN a ELSE b
  BY Zenon DEF FollowLeader
<1> HIDE DEF a, b
<1>4. Rests(p, b)
  BY <1>2, SameLogHolds, HoldsRests, Zenon
<1> QED
  BY <1>1, <1>2, <1>3, <1>4, Zenon

\* What a message from the leader does to a log: the result is put together
\* from links of the log and of the message.
Follows(p, m, res) ==
    /\ Sound(res.p) /\ res.p.term = p.term /\ res.p.role \notin {"candidate", "leader"}
    /\ Links(res.p.log) \subseteq Links(p.log) \cup CarriedLinks(m)
    /\ Sends(res.p, res.out)

LEMMA ReplicateRespSends ==
    ASSUME NEW p, Sound(p), NEW n \in Node, NEW v, NEW reject,
           NEW i \in Nat, NEW j \in Nat, NEW q
    PROVE  Sends(q, {ReplicateRespMsg(p, n, v, reject, i, j)})
<1> DEFINE m == ReplicateRespMsg(p, n, v, reject, i, j)
<1>1. p.term \in Nat
  BY SoundFacts, Zenon
<1>2. MessageSound(m) /\ m.type = "ReplicateResp"
  BY <1>1, Zenon DEF ReplicateRespMsg, MessageSound
<1> HIDE DEF m
<1>3. CarriedLinks(m) \subseteq Links(q.log)
  BY <1>2, Zenon DEF CarriedLinks
<1>4. Sends(q, {m})
  BY <1>2, <1>3, Zenon DEF Sends
<1> QED
  BY <1>4, Zenon DEF m

LEMMA TryAppendSound ==
    ASSUME LeastFact, NEW p, Sound(p), p.term >= 1, NEW m, MessageSound(m), m.type = "Replicate",
           MatchTerm(p, m.prev, m.prevTerm), m.prev >= p.committed
    PROVE  LET q == TryAppend(p, m.prev, m.entries)
           IN  /\ Sound(q) /\ q.term = p.term /\ q.role = p.role /\ q.committed = p.committed
               /\ Links(q.log) \subseteq Links(p.log) \cup CarriedLinks(m)
<1> DEFINE q == TryAppend(p, m.prev, m.entries)
<1>1. Fields(p) /\ IsLog(p.log)
  BY Zenon DEF Sound
<1>2. CASE q = p
  BY <1>2, Zenon
<1>3. CASE \E log : /\ q = [p EXCEPT !.log = log]
                    /\ IsLog(log) /\ Len(log) = m.prev + Len(m.entries)
                    /\ Links(log) \subseteq Links(p.log) \cup CarriedLinks(m)
  <2>1. PICK log : /\ q = [p EXCEPT !.log = log]
                   /\ IsLog(log) /\ Len(log) = m.prev + Len(m.entries)
                   /\ Links(log) \subseteq Links(p.log) \cup CarriedLinks(m)
    BY <1>3, Zenon
  <2> HIDE DEF q
  <2>2. /\ Fields(q) /\ q.members = p.members /\ q.remotes = p.remotes
        /\ q.log = log /\ q.marker = p.marker /\ q.committed = p.committed
        /\ q.applied = p.applied /\ q.snapshot = p.snapshot /\ q.compactTo = p.compactTo
        /\ q.term = p.term /\ q.role = p.role
    BY <1>1, <2>1, Zenon DEF Fields
  <2>3. Len(log) >= p.committed
    <3>1. m.prev \in Nat /\ Len(m.entries) \in Nat /\ p.committed \in Nat
      BY SoundFacts, LogFacts, Zenon DEF MessageSound
    <3> QED
      BY <2>1, <3>1
  <2>4. Ordered(q)
    BY <2>2, <2>3, Zenon DEF Ordered, Sound
  <2>5. TermOK(q)
    BY <2>2, Zenon DEF TermOK, Sound
  <2>6. Sound(q)
    BY <2>1, <2>2, <2>4, <2>5, Zenon DEF Sound
  <2> QED
    BY <2>1, <2>2, <2>6, Zenon DEF q
<1> QED
  BY <1>1, <1>2, <1>3, TryAppendRecombines, Zenon

LEMMA ReplicateFollows ==
    ASSUME LeastFact, NEW p0, Sound(p0), p0.term >= 1, p0.role # "leader", NEW n \in Node,
           NEW m, MessageSound(m), m.type = "Replicate",
           CommitIsInLog(HandleReplicate(p0, n, m).p)
    PROVE  Follows(p0, m, HandleReplicate(p0, n, m))
<1> DEFINE p == FollowLeader(p0, n, m)
           last == m.prev + Len(m.entries)
           q == TryAppend(p, m.prev, m.entries)
           c == CommitTo(q, MinOf(last, m.commit))
           out1 == {ReplicateRespMsg(p, n, m.from, FALSE, p.committed, 0)}
           out2 == {ReplicateRespMsg(p, n, m.from, FALSE, last, 0)}
           out3 == {ReplicateRespMsg(p, n, m.from, TRUE, m.prev, LastIndex(p))}
           res == HandleReplicate(p0, n, m)
<1>1. res = IF m.prev < p.committed THEN Result(p, out1)
            ELSE IF MatchTerm(p, m.prev, m.prevTerm) THEN Result(c, out2)
            ELSE Result(p, out3)
  BY Zenon DEF HandleReplicate
<1>2. CommitIsInLog(res.p)
  BY Zenon
<1>3. Rests(p0, p) /\ p.role \notin {"candidate", "leader"}
  BY FollowLeaderRests, Zenon
<1> HIDE DEF res, p
<1>4. Sound(p) /\ p.term = p0.term /\ p.log = p0.log
  BY <1>3, Zenon DEF Rests
<1>5. /\ p.committed \in Nat /\ LastIndex(p) \in Nat /\ m.prev \in Nat /\ last \in Nat
      /\ MinOf(last, m.commit) \in Nat
  BY <1>4, SoundFacts, LogFacts DEF MessageSound, LastIndex, MinOf
<1>6. \A r : Sends(r, out1) /\ Sends(r, out2) /\ Sends(r, out3)
  BY <1>4, <1>5, ReplicateRespSends, Zenon
<1> HIDE DEF out1, out2, out3
<1>7. Follows(p0, m, Result(p, out1)) /\ Follows(p0, m, Result(p, out3))
  BY <1>3, <1>4, <1>6, Zenon DEF Follows, Result
<1>8. CASE ~ (m.prev < p.committed) /\ MatchTerm(p, m.prev, m.prevTerm)
  <2>1. m.prev >= p.committed /\ res = Result(c, out2)
    BY <1>1, <1>5, <1>8
  <2>2. /\ Sound(q) /\ q.term = p.term /\ q.role = p.role
        /\ Links(q.log) \subseteq Links(p.log) \cup CarriedLinks(m)
    BY <1>4, <1>8, <2>1, TryAppendSound, Zenon
  <2> HIDE DEF q
  <2>3. CommitIsInLog(c)
    BY <1>2, <2>1, Zenon DEF Result
  <2>4. c.log = q.log
    BY <2>2, Zenon DEF CommitTo, Sound, Fields
  <2>5. c.committed <= Len(q.log)
    BY <2>3, <2>4, Zenon DEF CommitIsInLog, LastIndex
  <2>6. Holds(q, c)
    BY <1>5, <2>2, <2>5, CommitToHolds, Zenon
  <2> HIDE DEF c
  <2>7. Follows(p0, m, Result(c, out2))
    BY <1>3, <1>4, <1>6, <2>2, <2>6, Zenon DEF Follows, Result, Holds
  <2> QED
    BY <2>1, <2>7, Zenon DEF res
<1> QED
  BY <1>1, <1>7, <1>8, Zenon DEF res

LEMMA HeartbeatFollows ==
    ASSUME NEW p0, Sound(p0), p0.role # "leader", NEW n \in Node,
           NEW m, MessageSound(m), m.type = "Heartbeat",
           CommitIsInLog(HandleHeartbeat(p0, n, m).p)
    PROVE  Follows(p0, m, HandleHeartbeat(p0, n, m))
<1> DEFINE p == FollowLeader(p0, n, m)
           c == CommitTo(p, m.commit)
           msg == HeartbeatRespMsg(p, n, m.from, m.ctx)
           res == HandleHeartbeat(p0, n, m)
<1>1. res = Result(c, {msg})
  BY Zenon DEF HandleHeartbeat
<1>2. CommitIsInLog(res.p)
  BY Zenon
<1>3. Rests(p0, p) /\ p.role \notin {"candidate", "leader"}
  BY FollowLeaderRests, Zenon
<1> HIDE DEF res, p
<1>4. Sound(p) /\ p.term = p0.term /\ p.log = p0.log /\ p.term \in Nat
  BY <1>3, SoundFacts, Zenon DEF Rests
<1>5. MessageSound(msg) /\ msg.type = "HeartbeatResp"
  BY <1>4, Zenon DEF HeartbeatRespMsg, MessageSound
<1> HIDE DEF msg
<1>6. c.log = p.log
  BY <1>4, Zenon DEF CommitTo, Sound, Fields
<1>7. c.committed <= Len(p.log)
  BY <1>1, <1>2, <1>6, Zenon DEF CommitIsInLog, LastIndex, Result
<1>8. Holds(p, c)
  BY <1>4, <1>7, CommitToHolds, Zenon DEF MessageSound
<1> HIDE DEF c
<1>9. Sends(c, {msg})
  BY <1>5, OtherMsgSends, Zenon DEF Sends
<1>10. Follows(p0, m, res)
  BY <1>1, <1>3, <1>4, <1>8, <1>9, Zenon DEF Follows, Holds, Result
<1> QED
  BY <1>10, Zenon DEF res

LEMMA RestoreSound ==
    ASSUME NEW p, Sound(p), p.term >= 1, NEW ss, IsLog(ss.log), ss.members \in Members
    PROVE  LET q == Restore(p, ss)
           IN  /\ Sound(q) /\ q.term = p.term /\ q.role = p.role
               /\ Links(q.log) \subseteq Links(p.log) \cup Links(ss.log)
<1> DEFINE L == Len(ss.log)
           q == RestoreLog(p, ss)
<1>1. /\ p.committed \in Nat /\ p.snapshot.index \in Nat /\ p.applied \in Nat
      /\ L \in Nat /\ IsLog(p.log)
  BY SoundFacts, LogFacts, Zenon
<1>2. CASE L <= p.committed
  BY <1>2, Zenon DEF Restore
<1>3. CASE ~ (L <= p.committed) /\ MatchTerm(p, L, ss.log[L].term)
  <2>1. L \in 1..Len(ss.log)
    BY <1>1, <1>3
  <2>2. ss.log[L].term >= 1 /\ ss.log[L].term \in Nat
    BY <2>1, LogFacts, Zenon
  <2>3. TermAt(p, L) # 0
    BY <1>3, <2>2 DEF MatchTerm
  <2>4. L <= Len(p.log)
    BY <1>1, <2>3, TermAtFacts
  <2>5. CommitTo(p, L).committed <= Len(p.log)
    <3>1. CommitTo(p, L).committed = MaxOf(p.committed, L)
      BY Zenon DEF CommitTo, Sound, Fields
    <3>2. p.committed <= Len(p.log)
      BY Zenon DEF Sound, Ordered
    <3> QED
      BY <2>4, <3>1, <3>2, Zenon DEF MaxOf
  <2>6. Holds(p, CommitTo(p, L))
    BY <1>1, <2>5, CommitToHolds, Zenon
  <2>7. Restore(p, ss) = CommitTo(p, L)
    BY <1>3, Zenon DEF Restore
  <2> QED
    BY <2>6, <2>7, Zenon DEF Holds
<1>4. CASE ~ (L <= p.committed) /\ ~ MatchTerm(p, L, ss.log[L].term)
  <2>1. Restore(p, ss) = q
    BY <1>4, Zenon DEF Restore
  <2>2. Fields(p)
    BY Zenon DEF Sound
  <2>3. /\ Fields(q) /\ q.members = p.members /\ q.remotes = p.remotes
        /\ q.log = ss.log /\ q.marker = L /\ q.committed = L
        /\ q.applied = p.applied /\ q.snapshot = [index |-> L, members |-> ss.members]
        /\ q.compactTo = p.compactTo
        /\ q.term = p.term /\ q.role = p.role
    BY <2>2, Zenon DEF Fields, RestoreLog
  <2> HIDE DEF q
  <2>4. q.snapshot \in Snapshot /\ q.snapshot.index = L
    BY <1>1, <2>3 DEF Snapshot
  <2>5. /\ p.compactTo \in Nat /\ p.compactTo <= p.snapshot.index
        /\ p.snapshot.index <= p.committed /\ p.applied <= p.committed
    BY Zenon DEF Sound, Ordered
  <2>6. Ordered(q)
    BY <1>1, <1>4, <2>3, <2>4, <2>5 DEF Ordered
  <2>7. TermOK(q)
    BY <2>3, Zenon DEF TermOK, Sound
  <2>8. Sound(q)
    BY <2>3, <2>6, <2>7, Zenon DEF Sound
  <2> QED
    BY <2>1, <2>3, <2>8, Zenon
<1> QED
  BY <1>2, <1>3, <1>4, Zenon

LEMMA InstallSnapshotFollows ==
    ASSUME NEW p0, Sound(p0), p0.term >= 1, p0.role # "leader", NEW n \in Node,
           NEW m, MessageSound(m), m.type = "InstallSnapshot"
    PROVE  Follows(p0, m, HandleInstallSnapshot(p0, n, m))
<1> DEFINE p == FollowLeader(p0, n, m)
           q == Restore(p, m.ss)
           out == {ReplicateRespMsg(q, n, m.from, FALSE, q.committed, 0)}
<1>1. HandleInstallSnapshot(p0, n, m) = Result(q, out)
  BY Zenon DEF HandleInstallSnapshot
<1>2. Rests(p0, p) /\ p.role \notin {"candidate", "leader"}
  BY FollowLeaderRests, Zenon
<1> HIDE DEF p
<1>3. Sound(p) /\ p.term = p0.term /\ p.log = p0.log
  BY <1>2, Zenon DEF Rests
<1>4. /\ Sound(q) /\ q.term = p.term /\ q.role = p.role
      /\ Links(q.log) \subseteq Links(p.log) \cup Links(m.ss.log)
  BY <1>3, RestoreSound, Zenon DEF MessageSound
<1> HIDE DEF q
<1>5. q.committed \in Nat
  BY <1>4, SoundFacts, Zenon
<1>6. Sends(q, out)
  BY <1>4, <1>5, ReplicateRespSends, Zenon
<1> HIDE DEF out
<1> QED
  BY <1>1, <1>2, <1>3, <1>4, <1>6 DEF Follows, Result, CarriedLinks

LEMMA FollowerReadIndexCalm ==
    ASSUME NEW p, Sound(p), NEW n \in Node, NEW ctx
    PROVE  Calm(p, HandleFollowerReadIndex(p, n, ctx))
<1> DEFINE msg == ReadIndexMsg(n, p.leader, ctx)
<1>1. MessageSound(msg) /\ msg.type = "ReadIndex"
  BY Zenon DEF ReadIndexMsg, MessageSound
<1>2. HandleFollowerReadIndex(p, n, ctx) = Result(p, IF p.leader = None THEN {} ELSE {msg})
  BY Zenon DEF HandleFollowerReadIndex
<1> HIDE DEF msg
<1>3. Sends(p, IF p.leader = None THEN {} ELSE {msg})
  BY <1>1, OtherMsgSends, Zenon DEF Sends
<1> QED
  BY <1>2, <1>3, SoundHolds DEF Calm, Result

LEMMA FollowerLeaderTransferCalm ==
    ASSUME NEW p, Sound(p), NEW n \in Node, NEW target
    PROVE  Calm(p, HandleFollowerLeaderTransfer(p, n, target))
<1> DEFINE msg == LeaderTransferMsg(p, n, p.leader, target)
<1>1. p.term \in Nat
  BY SoundFacts, Zenon
<1>2. MessageSound(msg) /\ msg.type = "LeaderTransfer"
  BY <1>1, Zenon DEF LeaderTransferMsg, MessageSound
<1>3. HandleFollowerLeaderTransfer(p, n, target)
        = Result(p, IF p.leader = None THEN {} ELSE {msg})
  BY Zenon DEF HandleFollowerLeaderTransfer
<1> HIDE DEF msg
<1>4. Sends(p, IF p.leader = None THEN {} ELSE {msg})
  BY <1>2, OtherMsgSends, Zenon DEF Sends
<1> QED
  BY <1>3, <1>4, SoundHolds DEF Calm, Result

LEMMA ReadIndexRespCalm ==
    ASSUME NEW p, Sound(p), NEW m
    PROVE  Calm(p, HandleReadIndexResp(p, m))
<1> DEFINE q == [p EXCEPT !.leader = m.from,
                          !.readyToRead = @ \cup {[ctx |-> m.ctx, index |-> m.index]}]
<1>1. SameLog(p, q) /\ q.term = p.term /\ q.role = p.role
  BY Zenon DEF SameLog, Sound, Fields
<1>2. HandleReadIndexResp(p, m) = Result(q, {})
  BY Zenon DEF HandleReadIndexResp
<1> HIDE DEF q
<1> QED
  BY <1>1, <1>2, SameLogHolds, CalmSilence, Zenon

---------------------------------------------------------------------------
\* Elections.

\* A node becomes the leader of p's term: the first thing it does is add an
\* entry.
LEMMA CampaignSound ==
    ASSUME NEW p, Sound(p), NEW n \in Node, NEW transfer
    PROVE  LET res == Campaign(p, n, transfer)
           IN  /\ Sound(res.p) /\ res.p.term = p.term + 1
               /\ \/ res.p.role = "leader" /\ Adds(p, res.p, Noop) /\ res.out = {}
                  \/ res.p.role = "candidate" /\ res.p.log = p.log /\ Sends(res.p, res.out)
<1> DEFINE p1 == BecomeCandidate(p, n)
           a == BecomeLeader(p1, n)
           out == {RequestVoteMsg(p1, n, v, transfer) : v \in p.members.voters \ {n}}
<1>1. Campaign(p, n, transfer)
        = IF IsSingleNodeQuorum(p1) THEN Result(a, {}) ELSE Result(p1, out)
  BY Zenon DEF Campaign
<1>2. Sound(p1) /\ p1.log = p.log /\ p1.term = p.term + 1 /\ p1.role = "candidate"
  BY BecomeCandidateSame, Zenon DEF SameLog
<1> HIDE DEF p1
<1>3. p1.term \in Nat /\ p1.term >= 1
  BY <1>2, SoundFacts
<1>4. Sound(a) /\ a.term = p1.term /\ a.role = "leader" /\ Adds(p, a, Noop)
  BY <1>2, <1>3, BecomeLeaderAdds, Zenon DEF Adds
<1> HIDE DEF a
<1>5. ASSUME NEW v
      PROVE  /\ MessageSound(RequestVoteMsg(p1, n, v, transfer))
             /\ CarriedLinks(RequestVoteMsg(p1, n, v, transfer)) \subseteq Links(p1.log)
  <2>1. /\ MessageSound(RequestVoteMsg(p1, n, v, transfer))
        /\ RequestVoteMsg(p1, n, v, transfer).type = "RequestVote"
    BY <1>3, Zenon DEF RequestVoteMsg, MessageSound
  <2> QED
    BY <2>1, OtherMsgSends, Zenon
<1>6. Sends(p1, out)
  BY <1>5, Zenon DEF Sends
<1> HIDE DEF out
<1>7. CASE IsSingleNodeQuorum(p1)
  BY <1>1, <1>2, <1>4, <1>7 DEF Result
<1>8. CASE ~ IsSingleNodeQuorum(p1)
  BY <1>1, <1>2, <1>6, <1>8 DEF Result
<1> QED
  BY <1>7, <1>8, Zenon

LEMMA RequestVoteCalm ==
    ASSUME NEW p, Sound(p), NEW n \in Node, NEW m
    PROVE  Calm(p, HandleRequestVote(p, n, m))
<1> DEFINE grant == /\ p.vote \in {None, m.from}
                    /\ UpToDate(p, m.lastIndex, m.lastTerm)
           q == [p EXCEPT !.vote = m.from]
           msg == RequestVoteRespMsg(p, n, m.from, ~ grant)
<1>1. HandleRequestVote(p, n, m) = Result(IF grant THEN q ELSE p, {msg})
  BY Zenon DEF HandleRequestVote
<1> HIDE DEF grant
<1>2. SameLog(p, q) /\ q.term = p.term /\ q.role = p.role
  BY Zenon DEF SameLog, Sound, Fields
<1>3. p.term \in Nat
  BY SoundFacts, Zenon
<1>4. MessageSound(msg) /\ msg.type = "RequestVoteResp"
  BY <1>3, Zenon DEF RequestVoteRespMsg, MessageSound
<1> HIDE DEF q, msg
<1>5. Holds(p, IF grant THEN q ELSE p)
  BY <1>2, SameLogHolds, SoundHolds, Zenon
<1>6. Sends(p, {msg})
  BY <1>4, OtherMsgSends, Zenon DEF Sends
<1> QED
  BY <1>1, <1>5, <1>6 DEF Calm, Result

LEMMA VoteRespSound ==
    ASSUME NEW p, Sound(p), p.role = "candidate", NEW n \in Node, NEW m
    PROVE  LET res == HandleRequestVoteResp(p, n, m)
           IN  \/ Restful(p, res)
               \/ /\ Sound(res.p) /\ res.p.term = p.term /\ res.p.role = "leader"
                  /\ Adds(p, res.p, Noop) /\ Sends(res.p, res.out)
<1> DEFINE p1 == HandleVoteResp(p, m)
           a == BecomeLeader(p1, n)
           b == BecomeFollower(p1, n, p.term, None)
           res == HandleRequestVoteResp(p, n, m)
<1>1. \/ res = Result(p, {})
      \/ res = BroadcastReplicate(a, n)
      \/ res = Result(b, {})
      \/ res = Result(p1, {})
  BY Zenon DEF HandleRequestVoteResp
<1>2. SameLog(p, p1) /\ p1.term = p.term /\ p1.role = p.role
  BY Zenon DEF HandleVoteResp, SameLog, Sound, Fields
<1> HIDE DEF p1, res
<1>3. Holds(p, p1) /\ Sound(p1) /\ p1.log = p.log
  BY <1>2, SameLogHolds, Zenon DEF Holds
<1>4. p1.term >= 1
  BY <1>2, <1>3, Zenon DEF Sound, TermOK
<1>5. Restful(p, Result(p, {})) /\ Restful(p, Result(p1, {}))
  BY <1>3, SoundHolds, HoldsRests, RestfulSilence, Zenon
<1>6. Restful(p, Result(b, {}))
  <2>1. Rests(p1, b)
    BY <1>2, <1>3, StepDownRests, Zenon
  <2> HIDE DEF b
  <2> QED
    BY <1>3, <2>1, HoldsRests, RestsTransitive, RestfulSilence, Zenon
<1> HIDE DEF b
<1>7. Sound(a) /\ a.term = p.term /\ a.role = "leader" /\ Adds(p, a, Noop)
  BY <1>2, <1>3, <1>4, BecomeLeaderAdds DEF Adds
<1> HIDE DEF a
<1>8. Calm(a, BroadcastReplicate(a, n))
  BY <1>2, <1>4, <1>7, BroadcastReplicateCalm, Zenon
<1>9. CASE res = BroadcastReplicate(a, n)
  <2>1. /\ Sound(res.p) /\ res.p.term = p.term /\ res.p.role = "leader"
        /\ Adds(p, res.p, Noop) /\ Sends(res.p, res.out)
    BY <1>7, <1>8, <1>9, Zenon DEF Calm, Holds, Adds, Sends
  <2> QED
    BY <2>1, Zenon DEF res
<1>10. CASE res = Result(p, {}) \/ res = Result(b, {}) \/ res = Result(p1, {})
  BY <1>5, <1>6, <1>10, Zenon DEF res
<1> QED
  BY <1>1, <1>9, <1>10, Zenon

=============================================================================
