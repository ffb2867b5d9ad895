------------------------- MODULE FlowControlProofs -------------------------
(***************************************************************************)
(* The safety of FlowControl for every length of the logs, every batch     *)
(* size and every capacity of the network.                                 *)
(***************************************************************************)
EXTENDS FlowControl, TLAPS

\* A record that does not look beyond a log of length l.
Within(r, l) ==
    /\ r \in Remote
    /\ r.match <= l
    /\ r.next <= l + 1
    /\ r.snapshotIndex <= l

\* What a message in flight may say, given what the leader has in its log
\* (l), has committed (c), and shares with the member (a).
MessageOK(m, l, c, a) ==
    /\ m.type = "Replicate" => m.prev <= m.last /\ m.last <= l /\ m.commit <= c
    /\ m.type = "InstallSnapshot" => m.index = Marker
    /\ m.type = "Heartbeat" => m.commit <= c /\ m.commit <= a
    /\ m.type = "ReplicateResp" /\ ~ m.reject => m.index <= a

MessagesOK(msgs, l, c, a) ==
    msgs \subseteq Message /\ \A m \in msgs : MessageOK(m, l, c, a)

\* The inductive invariant: besides the two properties, that nobody is ahead
\* of the leader's log and that messages in flight tell the truth, however
\* late they arrive.
Inv ==
    /\ last \in Nat /\ committed \in Nat /\ commit \in Nat
    /\ log \in [agree : Nat, last : Nat]
    /\ Marker <= committed /\ committed <= last
    /\ log.agree <= last
    /\ Within(remote, last) /\ remote.match <= log.agree
    /\ commit <= log.agree /\ commit <= committed
    /\ MessagesOK(net, last, committed, log.agree)

---------------------------------------------------------------------------
\* The operations of the remote record (remote.go).

LEMMA States ==
    /\ "Retry" \in RemoteState /\ "Wait" \in RemoteState
    /\ "Replicate" \in RemoteState /\ "Snapshot" \in RemoteState
  BY DEF RemoteState

\* What a record within a log of length l has in its fields.
LEMMA Fields ==
    ASSUME NEW l \in Nat, NEW r, Within(r, l)
    PROVE  /\ r \in Remote
           /\ r.match \in Nat /\ r.match + 1 \in Nat \ {0} /\ r.match <= l
           /\ r.next \in Nat /\ r.next \in Nat \ {0} /\ r.next <= l + 1
           /\ r.snapshotIndex \in Nat /\ r.snapshotIndex + 1 \in Nat \ {0}
           /\ r.snapshotIndex <= l
           /\ r.state \in RemoteState
  BY DEF Within, Remote

\* The mode changes do not touch match and stay within the log.
LEMMA BecomeRetryWithin ==
    ASSUME NEW l \in Nat, NEW r, Within(r, l)
    PROVE  Within(BecomeRetry(r), l) /\ BecomeRetry(r).match = r.match
<1> DEFINE x == IF r.state = "Snapshot" THEN MaxOf(r.match + 1, r.snapshotIndex + 1)
                                        ELSE r.match + 1
           q == [r EXCEPT !.next = x, !.snapshotIndex = 0, !.state = "Retry"]
<1>1. x \in Nat \ {0} /\ x <= l + 1
  BY Fields DEF MaxOf
<1>2. q = BecomeRetry(r)
  BY DEF BecomeRetry
<1> HIDE DEF x
<1>3. r \in Remote
  BY Fields
<1>4. q \in Remote
  BY Zenon, <1>1, <1>3, States DEF Remote
<1>5. q.match = r.match /\ q.next = x /\ q.snapshotIndex = 0
  BY Fields DEF Remote
<1> HIDE DEF q
<1> QED
  BY <1>1, <1>2, <1>4, <1>5, Fields DEF Within

LEMMA BecomeReplicateWithin ==
    ASSUME NEW l \in Nat, NEW r, Within(r, l)
    PROVE  Within(BecomeReplicate(r), l) /\ BecomeReplicate(r).match = r.match
<1>1. r \in Remote /\ r.match + 1 \in Nat \ {0}
  BY Fields
<1>2. BecomeReplicate(r) \in Remote
  BY Zenon, <1>1, States DEF BecomeReplicate, Remote
<1>3. /\ BecomeReplicate(r).match = r.match /\ BecomeReplicate(r).next = r.match + 1
      /\ BecomeReplicate(r).snapshotIndex = 0
  BY Fields DEF BecomeReplicate, Remote
<1> QED
  BY <1>2, <1>3, Fields DEF Within

LEMMA StateWithin ==
    ASSUME NEW l \in Nat, NEW r, Within(r, l), NEW s \in RemoteState
    PROVE  Within([r EXCEPT !.state = s], l) /\ [r EXCEPT !.state = s].match = r.match
<1> DEFINE q == [r EXCEPT !.state = s]
<1>1. q \in Remote
  BY Fields DEF Remote
<1>2. q.match = r.match /\ q.next = r.next /\ q.snapshotIndex = r.snapshotIndex
  BY Fields DEF Remote
<1> HIDE DEF q
<1>3. Within(q, l) /\ q.match = r.match
  BY <1>1, <1>2, Fields DEF Within
<1> QED
  BY <1>3 DEF q

LEMMA ActiveWithin ==
    ASSUME NEW l \in Nat, NEW r, Within(r, l), NEW b \in BOOLEAN
    PROVE  Within([r EXCEPT !.active = b], l) /\ [r EXCEPT !.active = b].match = r.match
<1> DEFINE q == [r EXCEPT !.active = b]
<1>1. q \in Remote
  BY Fields DEF Remote
<1>2. q.match = r.match /\ q.next = r.next /\ q.snapshotIndex = r.snapshotIndex
  BY Fields DEF Remote
<1> HIDE DEF q
<1>3. Within(q, l) /\ q.match = r.match
  BY <1>1, <1>2, Fields DEF Within
<1> QED
  BY <1>3 DEF q

LEMMA SnapshotIndexWithin ==
    ASSUME NEW l \in Nat, NEW r, Within(r, l), NEW i \in Nat, i <= l
    PROVE  /\ Within([r EXCEPT !.snapshotIndex = i], l)
           /\ [r EXCEPT !.snapshotIndex = i].match = r.match
<1> DEFINE q == [r EXCEPT !.snapshotIndex = i]
<1>1. q \in Remote
  BY Fields DEF Remote
<1>2. q.match = r.match /\ q.next = r.next /\ q.snapshotIndex = i
  BY Fields DEF Remote
<1> HIDE DEF q
<1>3. Within(q, l) /\ q.match = r.match
  BY <1>1, <1>2, Fields DEF Within
<1> QED
  BY <1>3 DEF q

LEMMA NextWithin ==
    ASSUME NEW l \in Nat, NEW r, Within(r, l), NEW x \in Nat \ {0}, x <= l + 1
    PROVE  /\ Within([r EXCEPT !.next = x], l)
           /\ [r EXCEPT !.next = x].match = r.match
<1> DEFINE q == [r EXCEPT !.next = x]
<1>1. q \in Remote
  BY Fields DEF Remote
<1>2. q.match = r.match /\ q.next = x /\ q.snapshotIndex = r.snapshotIndex
  BY Fields DEF Remote
<1> HIDE DEF q
<1>3. Within(q, l) /\ q.match = r.match
  BY <1>1, <1>2, Fields DEF Within
<1> QED
  BY <1>3 DEF q

LEMMA MatchWithin ==
    ASSUME NEW l \in Nat, NEW r, Within(r, l), NEW i \in Nat, i <= l
    PROVE  Within([r EXCEPT !.match = i], l) /\ [r EXCEPT !.match = i].match = i
<1> DEFINE q == [r EXCEPT !.match = i]
<1>1. q \in Remote
  BY Fields DEF Remote
<1>2. q.match = i /\ q.next = r.next /\ q.snapshotIndex = r.snapshotIndex
  BY Fields DEF Remote
<1> HIDE DEF q
<1>3. Within(q, l) /\ q.match = i
  BY <1>1, <1>2, Fields DEF Within
<1> QED
  BY <1>3 DEF q

LEMMA ModesWithin ==
    ASSUME NEW l \in Nat, NEW r, Within(r, l)
    PROVE  /\ Within(WaitToRetry(r), l) /\ WaitToRetry(r).match = r.match
           /\ Within(RetryToWait(r), l) /\ RetryToWait(r).match = r.match
           /\ Within(EnterRetryState(r), l) /\ EnterRetryState(r).match = r.match
           /\ Within(RespondedTo(r), l) /\ RespondedTo(r).match = r.match
<1>1. Within(WaitToRetry(r), l) /\ WaitToRetry(r).match = r.match
  BY StateWithin, States DEF WaitToRetry
<1>2. Within(RetryToWait(r), l) /\ RetryToWait(r).match = r.match
  BY StateWithin, States DEF RetryToWait
<1>3. Within(EnterRetryState(r), l) /\ EnterRetryState(r).match = r.match
  BY BecomeRetryWithin DEF EnterRetryState
<1>4. Within(RespondedTo(r), l) /\ RespondedTo(r).match = r.match
  BY BecomeRetryWithin, BecomeReplicateWithin DEF RespondedTo
<1> QED
  BY <1>1, <1>2, <1>3, <1>4

LEMMA BecomeWaitWithin ==
    ASSUME NEW l \in Nat, NEW r, Within(r, l)
    PROVE  Within(BecomeWait(r), l) /\ BecomeWait(r).match = r.match
  BY BecomeRetryWithin, ModesWithin DEF BecomeWait

\* An acknowledgement of an index within the log.
LEMMA TryUpdateWithin ==
    ASSUME NEW l \in Nat, NEW r, Within(r, l), NEW i \in Nat, i <= l
    PROVE  /\ Within(TryUpdate(r, i), l)
           /\ TryUpdate(r, i).match = IF r.match < i THEN i ELSE r.match
<1> DEFINE r1 == [r EXCEPT !.next = MaxOf(@, i + 1)]
<1>1. MaxOf(r.next, i + 1) \in Nat \ {0} /\ MaxOf(r.next, i + 1) <= l + 1
  BY Fields DEF MaxOf
<1>2. Within(r1, l) /\ r1.match = r.match
  BY <1>1, NextWithin
<1> HIDE DEF r1
<1>3. Within(WaitToRetry(r1), l)
  BY <1>2, ModesWithin
<1>4. /\ Within([WaitToRetry(r1) EXCEPT !.match = i], l)
      /\ [WaitToRetry(r1) EXCEPT !.match = i].match = i
  BY <1>3, MatchWithin
<1>5. TryUpdate(r, i) = IF r.match < i THEN [WaitToRetry(r1) EXCEPT !.match = i] ELSE r1
  BY DEF TryUpdate, IsNews, r1
<1> QED
  BY <1>2, <1>4, <1>5

\* A rejection of the last message sent moves next back, never to 0.
LEMMA DecreaseToWithin ==
    ASSUME NEW l \in Nat, NEW r, Within(r, l), NEW i \in Nat, NEW hint \in Nat,
           CanDecrease(r, i)
    PROVE  /\ Within(DecreaseTo(r, i, hint), l)
           /\ DecreaseTo(r, i, hint).match = r.match
<1>1. CASE r.state = "Replicate"
  <2>1. r.match + 1 \in Nat \ {0} /\ r.match + 1 <= l + 1
    BY Fields
  <2> QED
    BY <1>1, <2>1, NextWithin DEF DecreaseTo
<1>2. CASE r.state # "Replicate"
  <2> DEFINE x == MaxOf(1, MinOf(i, hint + 1))
  <2>1. x \in Nat \ {0} /\ x <= l + 1
    BY <1>2, Fields DEF MaxOf, MinOf, CanDecrease
  <2>2. Within(WaitToRetry(r), l) /\ WaitToRetry(r).match = r.match
    BY ModesWithin
  <2> HIDE DEF x
  <2>3. /\ Within([WaitToRetry(r) EXCEPT !.next = x], l)
        /\ [WaitToRetry(r) EXCEPT !.next = x].match = r.match
    BY <2>1, <2>2, NextWithin
  <2>4. DecreaseTo(r, i, hint) = [WaitToRetry(r) EXCEPT !.next = x]
    BY <1>2 DEF DecreaseTo, x
  <2> QED
    BY <2>3, <2>4
<1> QED
  BY <1>1, <1>2

\* Sending, of entries that exist or of a snapshot of them.
LEMMA SendWithin ==
    ASSUME NEW l \in Nat, NEW r, Within(r, l), NEW i \in Nat, i <= l
    PROVE  /\ Within(Progress(r, i), l) /\ Progress(r, i).match = r.match
           /\ Within(BecomeSnapshot(r, i), l) /\ BecomeSnapshot(r, i).match = r.match
<1>1. Within(Progress(r, i), l) /\ Progress(r, i).match = r.match
  <2>1. i + 1 \in Nat \ {0} /\ i + 1 <= l + 1
    OBVIOUS
  <2> QED
    BY <2>1, NextWithin, ModesWithin DEF Progress
<1>2. Within(BecomeSnapshot(r, i), l) /\ BecomeSnapshot(r, i).match = r.match
  <2>1. r \in Remote
    BY Fields
  <2>2. BecomeSnapshot(r, i) \in Remote
    BY Zenon, <2>1, States DEF BecomeSnapshot, Remote
  <2>3. /\ BecomeSnapshot(r, i).match = r.match /\ BecomeSnapshot(r, i).next = r.next
        /\ BecomeSnapshot(r, i).snapshotIndex = i
    BY Fields DEF BecomeSnapshot, Remote
  <2> QED
    BY <2>2, <2>3, Fields DEF Within
<1> QED
  BY <1>1, <1>2

\* A shorter log fits into a longer one.
LEMMA WithinLonger ==
    ASSUME NEW l \in Nat, NEW l2 \in Nat, l <= l2, NEW r, Within(r, l)
    PROVE  Within(r, l2)
  BY DEF Within, Remote

---------------------------------------------------------------------------
\* Messages.

LEMMA SentOK ==
    ASSUME NEW l, NEW c, NEW a, NEW msgs, MessagesOK(msgs, l, c, a),
           NEW m \in Message, MessageOK(m, l, c, a)
    PROVE  MessagesOK(Sent(msgs, m), l, c, a)
  BY DEF Sent, MessagesOK

---------------------------------------------------------------------------
\* The leader's side.

\* sendReplicateMessage keeps match, and what it sends is true.
LEMMA SendReplicateOK ==
    ASSUME last' \in Nat, committed' \in Nat, Marker <= committed', committed' <= last',
           NEW r, Within(r, last'),
           NEW a \in Nat, NEW pending, MessagesOK(pending, last', committed', a),
           SendReplicate(r, pending)
    PROVE  /\ Within(remote', last') /\ remote'.match = r.match
           /\ MessagesOK(net', last', committed', a)
<1> DEFINE R == ReplicateMsg(r.next - 1, LastSent(r), committed')
           S == [type |-> "InstallSnapshot", index |-> Marker]
<1>1. CASE ~ CanSend(r)
  BY <1>1 DEF SendReplicate
<1>2. CASE CanSend(r) /\ NeedsSnapshot(r)
  <2>1. remote' = BecomeSnapshot(r, Marker) /\ net' = Sent(pending, S)
    BY <1>2 DEF SendReplicate
  <2>2. S \in Message /\ MessageOK(S, last', committed', a)
    BY StartAssumption DEF Message, MessageOK
  <2>3. Marker \in Nat /\ Marker <= last'
    BY StartAssumption
  <2> QED
    BY Zenon, <2>1, <2>2, <2>3, SentOK, SendWithin
<1>3. CASE CanSend(r) /\ ~ NeedsSnapshot(r)
  <2>1. /\ remote' = IF r.next <= last' THEN Progress(r, LastSent(r)) ELSE r
        /\ net' = Sent(pending, R)
    BY <1>3 DEF SendReplicate
  <2>2. /\ r.next \in Nat /\ r.next >= 1 /\ r.next <= last' + 1
    BY Fields
  <2>3. /\ LastSent(r) \in Nat /\ LastSent(r) <= last' /\ r.next - 1 <= LastSent(r)
        /\ r.next - 1 \in Nat
    BY <2>2, MaxEntriesAssumption DEF LastSent, MinOf
  <2>4. R \in Message
    BY <2>3 DEF Message, ReplicateMsg
  <2>5. MessageOK(R, last', committed', a)
    BY <2>3 DEF MessageOK, ReplicateMsg
  <2> HIDE DEF R
  <2>6. MessagesOK(net', last', committed', a)
    BY <2>1, <2>4, <2>5, SentOK
  <2>7. Within(remote', last') /\ remote'.match = r.match
    BY Zenon, <2>1, <2>3, SendWithin
  <2> QED
    BY <2>6, <2>7
<1> QED
  BY <1>1, <1>2, <1>3

\* An event at the leader: it has a record r from which it may send.
LEMMA LeaderStep ==
    ASSUME Inv, UNCHANGED member,
           last' \in Nat, committed' \in Nat,
           last <= last', committed <= committed', committed' <= last',
           NEW r, Within(r, last'), r.match <= log.agree,
           NEW pending \in SUBSET net,
           SendReplicate(r, pending) \/ NoSend(r, pending)
    PROVE  Inv'
<1> USE DEF Inv
<1>1. log' = log /\ commit' = commit /\ log.agree \in Nat
  BY DEF member
<1>2. MessagesOK(pending, last', committed', log.agree)
  <2>1. /\ last \in Nat /\ committed \in Nat /\ log.agree <= log.agree
        /\ MessagesOK(net, last, committed, log.agree)
    BY <1>1
  <2> HIDE DEF Inv
  <2>2. SUFFICES ASSUME NEW m \in pending
                 PROVE  m \in Message /\ MessageOK(m, last', committed', log.agree)
    BY DEF MessagesOK
  <2>3. m \in Message /\ MessageOK(m, last, committed, log.agree)
    BY <2>1 DEF MessagesOK
  <2> QED
    BY <1>1, <2>1, <2>3 DEF MessageOK, Message
<1>3. Marker <= committed'
  BY StartAssumption
<1>4. /\ Within(remote', last') /\ remote'.match = r.match
      /\ MessagesOK(net', last', committed', log.agree)
  <2> HIDE DEF Inv
  <2>1. CASE SendReplicate(r, pending)
    BY <1>1, <1>2, <1>3, <2>1, SendReplicateOK
  <2>2. CASE NoSend(r, pending)
    BY <1>2, <2>2 DEF NoSend
  <2> QED
    BY <2>1, <2>2
<1>5. log.agree <= last' /\ commit <= committed'
  BY <1>1
<1> QED
  BY <1>1, <1>3, <1>4, <1>5

LEMMA AcceptedOK ==
    ASSUME Inv, NEW m \in net, m.type = "ReplicateResp", ~ m.reject,
           Accepted(m), UNCHANGED member
    PROVE  Inv'
<1> DEFINE r == [remote EXCEPT !.active = TRUE]
           u == TryUpdate(r, m.index)
<1>1. m.index \in Nat /\ m.index <= log.agree /\ m.index <= last
  BY DEF Inv, MessagesOK, MessageOK, Message
<1>2. Within(r, last) /\ r.match <= log.agree
  BY Zenon, ActiveWithin DEF Inv
<1>3. Within(u, last) /\ u.match <= log.agree
  <2> HIDE DEF r
  <2> QED
    BY Zenon, <1>1, <1>2, TryUpdateWithin DEF Inv
<1>4. Within(RespondedTo(u), last) /\ RespondedTo(u).match <= log.agree
  <2> HIDE DEF u
  <2> QED
    BY <1>3, ModesWithin DEF Inv
<1> USE DEF Inv
<1>5. CASE /\ committed' \in committed + 1 .. m.index
           /\ UNCHANGED last
           /\ SendReplicate(RespondedTo(u), net \ {m})
  BY <1>1, <1>4, <1>5, LeaderStep
<1>6. CASE /\ UNCHANGED <<last, committed>>
           /\ SendReplicate(RespondedTo(u), net \ {m}) \/ NoSend(RespondedTo(u), net \ {m})
  BY <1>4, <1>6, LeaderStep
<1>7. CASE UNCHANGED <<last, committed>> /\ NoSend(u, net \ {m})
  BY <1>3, <1>7, LeaderStep
<1> QED
  BY <1>5, <1>6, <1>7 DEF Accepted

LEMMA RejectedOK ==
    ASSUME Inv, NEW m \in net, m.type = "ReplicateResp", Rejected(m), UNCHANGED member
    PROVE  Inv'
<1> DEFINE r == [remote EXCEPT !.active = TRUE]
           d == DecreaseTo(r, m.index, m.hint)
<1>1. m.index \in Nat /\ m.hint \in Nat
  BY DEF Inv, MessagesOK, Message
<1>2. Within(r, last) /\ r.match <= log.agree
  BY Zenon, ActiveWithin DEF Inv
<1>3. CASE CanDecrease(r, m.index)
  <2>1. Within(d, last) /\ d.match <= log.agree
    <3> HIDE DEF r
    <3> QED
      BY <1>1, <1>2, <1>3, DecreaseToWithin DEF Inv
  <2>2. Within(EnterRetryState(d), last) /\ EnterRetryState(d).match <= log.agree
    <3> HIDE DEF d
    <3> QED
      BY <2>1, ModesWithin DEF Inv
  <2>3. SendReplicate(EnterRetryState(d), net \ {m})
    BY <1>3 DEF Rejected
  <2> QED
    BY <2>2, <2>3, LeaderStep DEF Rejected, Inv
<1>4. CASE ~ CanDecrease(r, m.index)
  <2>1. NoSend(r, net \ {m})
    BY <1>4 DEF Rejected
  <2> HIDE DEF r
  <2> QED
    BY <1>2, <2>1, LeaderStep DEF Rejected, Inv
<1> QED
  BY <1>3, <1>4

LEMMA RecvHeartbeatRespOK ==
    ASSUME Inv, RecvHeartbeatResp
    PROVE  Inv'
<1> DEFINE r == WaitToRetry([remote EXCEPT !.active = TRUE])
<1>1. Within(r, last) /\ r.match <= log.agree
  <2>1. /\ Within([remote EXCEPT !.active = TRUE], last)
        /\ [remote EXCEPT !.active = TRUE].match <= log.agree
    BY Zenon, ActiveWithin DEF Inv
  <2> QED
    BY Zenon, <2>1, ModesWithin DEF Inv
<1>2. PICK m \in net : SendReplicate(r, net \ {m}) \/ NoSend(r, net \ {m})
  BY DEF RecvHeartbeatResp
<1>3. UNCHANGED <<last, committed, member>>
  BY DEF RecvHeartbeatResp
<1> HIDE DEF r
<1> QED
  BY <1>1, <1>2, <1>3, LeaderStep DEF Inv

\* The leader changes nothing but the record, and match not at all.
LEMMA RecordStep ==
    ASSUME Inv, UNCHANGED <<last, committed, member, net>>,
           Within(remote', last), remote'.match = remote.match
    PROVE  Inv'
  BY DEF Inv, member

LEMMA SnapshotStatusOK ==
    ASSUME Inv, SnapshotStatus
    PROVE  Inv'
<1>1. PICK reject \in BOOLEAN :
         remote' = BecomeWait([remote EXCEPT !.snapshotIndex = IF reject THEN 0 ELSE @])
  BY DEF SnapshotStatus
<1> DEFINE i == IF reject THEN 0 ELSE remote.snapshotIndex
           r == [remote EXCEPT !.snapshotIndex = i]
<1>2. i \in Nat /\ i <= last
  BY Fields DEF Inv
<1> HIDE DEF i
<1>3. Within(r, last) /\ r.match = remote.match
  BY <1>2, SnapshotIndexWithin DEF Inv
<1>4. remote' = BecomeWait(r)
  BY <1>1 DEF i
<1> HIDE DEF r
<1>5. Within(remote', last) /\ remote'.match = remote.match
  BY <1>3, <1>4, BecomeWaitWithin DEF Inv
<1> QED
  BY <1>5, RecordStep DEF SnapshotStatus

---------------------------------------------------------------------------
\* The member's side.

\* The member's log and commit index grow together, and it answers.
LEMMA MemberStep ==
    ASSUME Inv, UNCHANGED leader,
           log' \in [agree : Nat, last : Nat], commit' \in Nat,
           log.agree <= log'.agree, log'.agree <= last,
           commit' <= log'.agree, commit' <= committed,
           NEW m \in net, NEW answer \in Message,
           MessageOK(answer, last, committed, log'.agree),
           net' = Sent(net \ {m}, answer)
    PROVE  Inv'
<1>1. /\ last' = last /\ committed' = committed /\ remote' = remote
      /\ last \in Nat /\ committed \in Nat /\ last <= last /\ committed <= committed
      /\ log.agree \in Nat /\ log'.agree \in Nat
  BY DEF leader, Inv
<1>2. MessagesOK(net, last, committed, log.agree) /\ net \ {m} \in SUBSET net
  BY DEF Inv
<1>3. MessagesOK(net \ {m}, last, committed, log'.agree)
  <2>1. SUFFICES ASSUME NEW x \in net
                 PROVE  x \in Message /\ MessageOK(x, last, committed, log'.agree)
    BY DEF MessagesOK
  <2>2. x \in Message /\ MessageOK(x, last, committed, log.agree)
    BY <1>2 DEF MessagesOK
  <2> QED
    BY <1>1, <2>2 DEF MessageOK, Message
<1>4. MessagesOK(net', last, committed, log'.agree)
  BY <1>3, SentOK
<1>5. remote.match <= log'.agree
  <2>1. remote.match \in Nat
    BY Fields DEF Inv
  <2> QED
    BY <1>1, <2>1 DEF Inv
<1> QED
  BY <1>1, <1>4, <1>5 DEF Inv

LEMMA RecvReplicateOK ==
    ASSUME Inv, RecvReplicate
    PROVE  Inv'
<1>1. PICK m \in net :
          /\ m.type = "Replicate"
          /\ \/ /\ m.prev < commit
                /\ Resp(m, FALSE, commit, 0)
                /\ UNCHANGED <<log, commit>>
             \/ /\ m.prev >= commit /\ m.prev <= log.agree
                /\ log' = IF m.last > log.agree
                          THEN [agree |-> m.last, last |-> m.last] ELSE log
                /\ commit' = MaxOf(commit, MinOf(m.last, m.commit))
                /\ Resp(m, FALSE, m.last, 0)
             \/ /\ m.prev >= commit /\ m.prev > log.agree
                /\ Resp(m, TRUE, m.prev, log.last)
                /\ UNCHANGED <<log, commit>>
  BY Zenon DEF RecvReplicate
<1>2. UNCHANGED leader
  BY DEF RecvReplicate
<1>3. /\ m.prev \in Nat /\ m.last \in Nat /\ m.commit \in Nat
      /\ m.prev <= m.last /\ m.last <= last /\ m.commit <= committed
  BY <1>1 DEF Inv, MessagesOK, MessageOK, Message
<1>4. /\ log \in [agree : Nat, last : Nat] /\ log.agree \in Nat /\ log.last \in Nat
      /\ commit \in Nat /\ last \in Nat /\ committed \in Nat /\ 0 \in Nat
      /\ log.agree <= last /\ commit <= log.agree /\ commit <= committed
  BY DEF Inv
<1> DEFINE answer(reject, index, hint) ==
             [type |-> "ReplicateResp", reject |-> reject, index |-> index, hint |-> hint]
<1>5. \A reject \in BOOLEAN, index \in Nat, hint \in Nat :
         /\ answer(reject, index, hint) \in Message
         /\ reject \/ index <= log'.agree
            => MessageOK(answer(reject, index, hint), last, committed, log'.agree)
  BY DEF Message, MessageOK
<1>6. CASE Resp(m, FALSE, commit, 0) /\ UNCHANGED <<log, commit>>
  <2>1. net' = Sent(net \ {m}, answer(FALSE, commit, 0))
    BY <1>6 DEF Resp
  <2>2. /\ answer(FALSE, commit, 0) \in Message
        /\ MessageOK(answer(FALSE, commit, 0), last, committed, log'.agree)
    BY Zenon, <1>4, <1>5, <1>6
  <2>3. log' = log /\ commit' = commit /\ log.agree <= log.agree
    BY <1>4, <1>6
  <2> HIDE DEF answer
  <2> QED
    BY Zenon, <1>2, <1>4, <1>6, <2>1, <2>2, <2>3, MemberStep
<1>7. CASE /\ m.prev >= commit /\ m.prev <= log.agree
           /\ log' = IF m.last > log.agree
                     THEN [agree |-> m.last, last |-> m.last] ELSE log
           /\ commit' = MaxOf(commit, MinOf(m.last, m.commit))
           /\ Resp(m, FALSE, m.last, 0)
  <2>1. net' = Sent(net \ {m}, answer(FALSE, m.last, 0))
    BY <1>7 DEF Resp
  <2>2. /\ log' \in [agree : Nat, last : Nat]
        /\ log'.agree = IF m.last > log.agree THEN m.last ELSE log.agree
    BY <1>3, <1>4, <1>7
  <2>3. /\ log.agree <= log'.agree /\ log'.agree <= last /\ m.last <= log'.agree
        /\ log'.agree \in Nat
    BY <1>3, <1>4, <2>2
  <2>4. commit' \in Nat /\ commit' <= log'.agree /\ commit' <= committed
    BY <1>3, <1>4, <1>7, <2>3 DEF MaxOf, MinOf
  <2>5. /\ answer(FALSE, m.last, 0) \in Message
        /\ MessageOK(answer(FALSE, m.last, 0), last, committed, log'.agree)
    BY Zenon, <1>3, <1>4, <1>5, <2>3
  <2> HIDE DEF answer
  <2> QED
    BY Zenon, <1>2, <2>1, <2>2, <2>3, <2>4, <2>5, MemberStep
<1>8. CASE Resp(m, TRUE, m.prev, log.last) /\ UNCHANGED <<log, commit>>
  <2>1. net' = Sent(net \ {m}, answer(TRUE, m.prev, log.last))
    BY <1>8 DEF Resp
  <2>2. /\ answer(TRUE, m.prev, log.last) \in Message
        /\ MessageOK(answer(TRUE, m.prev, log.last), last, committed, log'.agree)
    BY Zenon, <1>3, <1>4, <1>5
  <2>3. log' = log /\ commit' = commit /\ log.agree <= log.agree
    BY <1>4, <1>8
  <2> HIDE DEF answer
  <2> QED
    BY Zenon, <1>2, <1>4, <1>8, <2>1, <2>2, <2>3, MemberStep
<1> QED
  BY Zenon, <1>1, <1>6, <1>7, <1>8

LEMMA RecvInstallSnapshotOK ==
    ASSUME Inv, RecvInstallSnapshot
    PROVE  Inv'
<1>1. PICK m \in net :
          /\ m.type = "InstallSnapshot"
          /\ commit' = MaxOf(commit, m.index)
          /\ log' = IF m.index > log.agree
                    THEN [agree |-> m.index, last |-> m.index] ELSE log
          /\ Resp(m, FALSE, commit', 0)
  BY Zenon DEF RecvInstallSnapshot
<1>2. UNCHANGED leader
  BY DEF RecvInstallSnapshot
<1>3. m.index = Marker /\ Marker \in Nat
  BY <1>1, StartAssumption DEF Inv, MessagesOK, MessageOK
<1>4. /\ log \in [agree : Nat, last : Nat] /\ log.agree \in Nat
      /\ commit \in Nat /\ last \in Nat /\ committed \in Nat /\ 0 \in Nat
      /\ log.agree <= last /\ commit <= log.agree /\ commit <= committed
      /\ Marker <= committed /\ committed <= last
  BY DEF Inv
<1>5. /\ log' \in [agree : Nat, last : Nat]
      /\ log'.agree = IF Marker > log.agree THEN Marker ELSE log.agree
  BY <1>1, <1>3, <1>4
<1>6. log.agree <= log'.agree /\ log'.agree <= last /\ log'.agree \in Nat
  BY <1>3, <1>4, <1>5
<1>7. commit' \in Nat /\ commit' <= log'.agree /\ commit' <= committed
  BY <1>1, <1>3, <1>4, <1>5 DEF MaxOf
<1> DEFINE answer == [type |-> "ReplicateResp", reject |-> FALSE, index |-> commit', hint |-> 0]
<1>8. answer \in Message /\ MessageOK(answer, last, committed, log'.agree)
  BY <1>4, <1>7 DEF Message, MessageOK
<1>9. net' = Sent(net \ {m}, answer)
  BY <1>1 DEF Resp
<1> HIDE DEF answer
<1> QED
  BY <1>2, <1>5, <1>6, <1>7, <1>8, <1>9, MemberStep

LEMMA RecvHeartbeatOK ==
    ASSUME Inv, RecvHeartbeat
    PROVE  Inv'
<1> DEFINE answer == [type |-> "HeartbeatResp"]
<1>1. PICK m \in net : /\ m.type = "Heartbeat"
                       /\ commit' = MaxOf(commit, m.commit)
                       /\ net' = Sent(net \ {m}, answer)
  BY Zenon DEF RecvHeartbeat
<1>2. UNCHANGED leader /\ log' = log
  BY DEF RecvHeartbeat
<1>3. m.commit \in Nat /\ m.commit <= committed /\ m.commit <= log.agree
  BY <1>1 DEF Inv, MessagesOK, MessageOK, Message
<1>4. /\ log \in [agree : Nat, last : Nat] /\ log.agree \in Nat /\ log.agree <= log.agree
      /\ commit \in Nat /\ log.agree <= last /\ commit <= log.agree /\ commit <= committed
  BY DEF Inv
<1>5. commit' \in Nat /\ commit' <= log.agree /\ commit' <= committed
  BY <1>1, <1>3, <1>4 DEF MaxOf
<1>6. answer \in Message /\ MessageOK(answer, last, committed, log.agree)
  BY DEF Message, MessageOK
<1> HIDE DEF answer
<1> QED
  BY <1>1, <1>2, <1>4, <1>5, <1>6, MemberStep

---------------------------------------------------------------------------

LEMMA InitInv == ASSUME Init PROVE Inv
<1> DEFINE r == NewRemote(0, Start)
           m == ReplicateMsg(Start - 1, Start, committed)
<1>1. /\ Start \in Nat /\ Start \in Nat \ {0} /\ 0 \in Nat /\ last = Start /\ Start <= Start
      /\ Start - 1 \in Nat /\ Start - 1 <= Start
      /\ committed \in Nat /\ Marker <= committed /\ committed <= last
  BY StartAssumption DEF Init
<1>2. r \in Remote
  BY <1>1, States DEF NewRemote, Remote
<1>3. Within(r, last) /\ r.match = 0
  <2>1. r.match = 0 /\ r.next = Start /\ r.snapshotIndex = 0
    BY DEF NewRemote
  <2> HIDE DEF r
  <2> QED
    BY <1>1, <1>2, <2>1 DEF Within
<1>4. Within(remote, last) /\ remote.match = 0
  <2>1. remote = Progress(r, Start)
    BY DEF Init
  <2> HIDE DEF r
  <2> QED
    BY Zenon, <1>1, <1>3, <2>1, SendWithin
<1>5. log \in [agree : Nat, last : Nat] /\ log.agree \in Nat /\ log.agree <= last
  BY <1>1, MemberLogsAssumption DEF Init
<1>6. m \in Message /\ MessageOK(m, last, committed, log.agree)
  BY <1>1 DEF ReplicateMsg, Message, MessageOK
<1>7. MessagesOK(net, last, committed, log.agree)
  BY <1>6 DEF MessagesOK, Init
<1>8. commit = 0
  BY DEF Init
<1> QED
  BY <1>1, <1>4, <1>5, <1>7, <1>8 DEF Inv

LEMMA NextInv == ASSUME Inv, [Next]_vars PROVE Inv'
<1>1. CASE Propose
  <2>1. /\ last' = last + 1 /\ committed' = committed /\ UNCHANGED member
        /\ SendReplicate(remote, net) /\ net \in SUBSET net
    BY <1>1 DEF Propose
  <2>2. last' \in Nat /\ committed' \in Nat /\ last <= last' /\ committed <= committed'
        /\ committed' <= last'
    BY <2>1 DEF Inv
  <2>3. Within(remote, last') /\ remote.match <= log.agree
    BY <2>2, WithinLonger DEF Inv
  <2> QED
    BY <2>1, <2>2, <2>3, LeaderStep
<1>2. CASE Commit
  <2>1. /\ last' = last /\ committed' \in committed + 1 .. last /\ UNCHANGED member
        /\ SendReplicate(remote, net) /\ net \in SUBSET net
    BY <1>2 DEF Commit
  <2>2. last' \in Nat /\ committed' \in Nat /\ last <= last' /\ committed <= committed'
        /\ committed' <= last'
    BY <2>1 DEF Inv
  <2>3. Within(remote, last') /\ remote.match <= log.agree
    BY <2>1 DEF Inv
  <2> QED
    BY <2>1, <2>2, <2>3, LeaderStep
<1>3. CASE Heartbeat
  <2> DEFINE c == MinOf(remote.match, committed)
             m == [type |-> "Heartbeat", commit |-> c]
  <2>1. c \in Nat /\ c <= committed /\ c <= log.agree
    BY Fields DEF Inv, MinOf
  <2> HIDE DEF c
  <2>2. m \in Message /\ MessageOK(m, last, committed, log.agree)
    BY <2>1 DEF Message, MessageOK
  <2>3. net' = Sent(net, m)
    BY <1>3 DEF Heartbeat, c
  <2> HIDE DEF m
  <2>4. MessagesOK(net', last, committed, log.agree)
    BY <2>2, <2>3, SentOK DEF Inv
  <2> QED
    BY <1>3, <2>4 DEF Heartbeat, leader, member, Inv
<1>4. CASE RecvReplicateResp
  BY <1>4, AcceptedOK, RejectedOK DEF RecvReplicateResp
<1>5. CASE RecvHeartbeatResp
  BY <1>5, RecvHeartbeatRespOK
<1>6. CASE SnapshotStatus
  BY <1>6, SnapshotStatusOK
<1>7. CASE Unreachable
  <2>1. Within(remote', last) /\ remote'.match = remote.match
    BY <1>7, ModesWithin DEF Unreachable, Inv
  <2> QED
    BY <1>7, <2>1, RecordStep DEF Unreachable
<1>8. CASE CheckQuorumTick
  <2>1. Within(remote', last) /\ remote'.match = remote.match
    BY Zenon, <1>8, ActiveWithin DEF CheckQuorumTick, Inv
  <2> QED
    BY <1>8, <2>1, RecordStep DEF CheckQuorumTick
<1>9. CASE RecvReplicate
  BY <1>9, RecvReplicateOK
<1>10. CASE RecvHeartbeat
  BY <1>10, RecvHeartbeatOK
<1>11. CASE RecvInstallSnapshot
  BY <1>11, RecvInstallSnapshotOK
<1>12. CASE Lose
  BY <1>12 DEF Lose, leader, member, Inv, MessagesOK
<1>13. CASE UNCHANGED vars
  BY <1>13 DEF vars, Inv, MessagesOK
<1> QED
  BY <1>1, <1>2, <1>3, <1>4, <1>5, <1>6, <1>7, <1>8, <1>9, <1>10, <1>11, <1>12, <1>13
     DEF Next

\* However the logs grow and whatever the network does, the invariant holds.
THEOREM Invariance == Spec => []Inv
<1>1. Init => Inv
  BY InitInv
<1>2. Inv /\ [Next]_vars => Inv'
  BY NextInv
<1> QED
  BY <1>1, <1>2, PTL DEF Spec

\* No index leaves its type: in particular next never becomes 0, so that
\* next - 1 in makeReplicateMessage does not wrap around (remote.go decreaseTo).
THEOREM TypeCorrect == Spec => []TypeOK
<1>1. Inv => TypeOK
  BY DEF Inv, TypeOK, Within, MessagesOK
<1> QED
  BY <1>1, Invariance, PTL

\* The leader never believes the member to hold more than it holds
\* (remote.go tryUpdate, respondedTo, becomeRetry).
THEOREM ProgressReal == Spec => []ProgressIsReal
<1>1. Inv => ProgressIsReal
  BY DEF Inv, ProgressIsReal, Within
<1> QED
  BY <1>1, Invariance, PTL

\* The member commits nothing that the leader has not committed or that it
\* does not share with the leader (raft.go sendHeartbeatMessage,
\* handleReplicateMessage, restore).
THEOREM MemberCommitSafe == Spec => []MemberCommitIsSafe
<1>1. Inv => MemberCommitIsSafe
  BY DEF Inv, MemberCommitIsSafe
<1> QED
  BY <1>1, Invariance, PTL

=============================================================================
