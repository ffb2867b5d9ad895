------------------------------ MODULE Sessions ------------------------------
(***************************************************************************)
(* Client sessions: the client's record of its series (client/session.go), *)
(* the session store every replica keeps beside the state machine          *)
(* (internal/rsm/session.go, lrusession.go, managedstatemachine.go) and    *)
(* the part of internal/rsm/statemachine.go that consults it before an     *)
(* entry may update the state machine.                                     *)
(*                                                                         *)
(* Raft is the sequence of committed entries.  An entry that a client gave *)
(* up on stays in flight: it may be committed late, again, or never.       *)
(* Replicas apply the log each at its own pace, save snapshots, restart    *)
(* from their own and install another's.  The state machine is the list of *)
(* commands that updated it, and an update returns its place in that list. *)
(***************************************************************************)
EXTENDS Integers, Sequences, SequencesExt, FiniteSets

CONSTANTS Clients,      \* client ids
          Capacities,   \* what LRUMaxSessionCount may be
          MaxSeries,    \* bound on the proposals of each client
          MaxLog,       \* bound on the committed entries
          MaxSnapshots  \* bound on the snapshots saved

Replicas == {"here", "there"}
Here == "here"   \* the replica the clients are connected to

VARIABLES client,     \* the clients' sessions
          inFlight,   \* entries proposed
          committed,  \* the log
          replica,    \* per replica: applied, LRU list, sessions, state machine
          saved,      \* per replica: its last snapshot
          answers,    \* results delivered to clients: <<client, series, result>>
          snapshots   \* snapshots saved so far

sessionsVars == <<client, inFlight, committed, replica, saved, answers, snapshots>>

NoSession == [upTo |-> -1, history |-> [s \in {} |-> 0]]
NewSession == [upTo |-> 0, history |-> [s \in {} |-> 0]]

\* newLRUSession with an empty data store.
EmptyRSM(capacity) ==
    [applied |-> 0, lru |-> <<>>, size |-> capacity,
     session |-> [c \in Clients |-> NoSession], data |-> <<>>]

SessionsInit ==
    /\ client = [c \in Clients |-> [phase |-> "new", series |-> 1, respondedTo |-> 0]]
    /\ inFlight = {}
    /\ committed = <<>>
    /\ \E capacity \in Capacities :
          replica = [r \in Replicas |-> EmptyRSM(capacity)]
    /\ saved = replica
    /\ answers = {}
    /\ snapshots = 0

---------------------------------------------------------------------------
\* The least recently used id comes first in lru: entryList from its back.

Touch(lru, c) == Append(SelectSeq(lru, LAMBDA d : d # c), c)

Registered(m, c) == Contains(m.lru, c)

\* baseCache.Get with the LRU policy.
GetSession(m, c) == IF Registered(m, c) THEN [m EXCEPT !.lru = Touch(@, c)] ELSE m

\* baseCache.add: the new entry goes to the front, then entries are evicted
\* from the back while there are too many.
Evicted(lru, size) == IF Len(lru) > size THEN SubSeq(lru, Len(lru) - size + 1, Len(lru)) ELSE lru

AddSession(m, c, s) ==
    LET lru == Evicted(Touch(m.lru, c), m.size)
    IN [m EXCEPT !.lru = lru,
                 !.session = [d \in Clients |-> IF ~ Contains(lru, d) THEN NoSession
                                                ELSE IF d = c THEN s ELSE @[d]]]

DelSession(m, c) ==
    [m EXCEPT !.lru = SelectSeq(@, LAMBDA d : d # c), !.session[c] = NoSession]

\* Session.clearTo: the client has seen every response up to `to`.
ClearTo(s, to) ==
    IF to <= s.upTo THEN s
    ELSE [upTo |-> to,
          history |-> [k \in {j \in DOMAIN s.history : j > to} |-> s.history[k]]]

\* Mutant of SavedOrder: from the most recently used.
MutReversed_SavedOrder(m) == Reverse(m.lru)

\* lrusession.save walks the sessions from the least recently used and looks each
\* one up, so it touches what it saves; load adds them in that order again.
SavedOrder(m) == m.lru

Saving(m) == [m EXCEPT !.lru = FoldLeft(Touch, @, SavedOrder(m))]

Loaded(image) ==
    FoldLeft(LAMBDA m, c : AddSession(m, c, image.session[c]),
             [image EXCEPT !.lru = <<>>, !.session = [c \in Clients |-> NoSession]],
             SavedOrder(image))

---------------------------------------------------------------------------
\* What an entry does to a replica, and what applyUpdate is told: a result,
\* that the entry is rejected, or nothing when it is ignored.

Outcome(m, code, result) ==
    [rsm |-> [m EXCEPT !.applied = @ + 1], code |-> code, result |-> result]

\* RegisterClientID and UnregisterClientID; the result 0 means rejected.
RegisterClientID(m, c) ==
    IF Registered(m, c) THEN Outcome(GetSession(m, c), "rejected", 0)
    ELSE Outcome(AddSession(m, c, NewSession), "completed", c)

UnregisterClientID(m, c) ==
    IF Registered(m, c) THEN Outcome(DelSession(m, c), "completed", c)
    ELSE Outcome(m, "rejected", 0)

AddResponse(history, series, result) ==
    [k \in DOMAIN history \cup {series} |-> IF k = series THEN result ELSE history[k]]

\* NativeStateMachine.Update, whose result is remembered.
Update(m, c, series) ==
    LET result == Len(m.data) + 1
    IN Outcome([m EXCEPT !.data = Append(@, <<c, series>>),
                         !.session[c].history = AddResponse(@, series, result)],
               "completed", result)

\* Mutant of HasResponded: the last series answered is forgotten.
MutBelow_HasResponded(s, series) == series < s.upTo

HasResponded(s, series) == series <= s.upTo

\* handleUpdate, and the same steps in handleAllUpdateEntries.
HandleUpdate(m, e) ==
    LET got == GetSession(m, e.client)
        s == ClearTo(got.session[e.client], e.respondedTo)
        now == [got EXCEPT !.session[e.client] = s]
    IN IF ~ Registered(m, e.client) THEN Outcome(m, "rejected", 0)
       ELSE IF HasResponded(s, e.series) THEN Outcome(now, "ignored", 0)
       ELSE IF e.series \in DOMAIN s.history THEN Outcome(now, "completed", s.history[e.series])
       ELSE Update(now, e.client, e.series)

HandleEntry(m, e) ==
    CASE e.kind = "register" -> RegisterClientID(m, e.client)
      [] e.kind = "unregister" -> UnregisterClientID(m, e.client)
      [] OTHER -> HandleUpdate(m, e)

---------------------------------------------------------------------------
\* Clients.

EntryOf(c, kind) == [kind |-> kind, client |-> c, series |-> client[c].series,
                     respondedTo |-> client[c].respondedTo]

Send(c, kind) ==
    /\ inFlight' = inFlight \cup {EntryOf(c, kind)}
    /\ UNCHANGED <<committed, replica, saved, answers, snapshots>>

\* PrepareForRegister; a session id is random and registers once.
Register(c) ==
    /\ client[c].phase = "new"
    /\ client' = [client EXCEPT ![c].phase = "registering"]
    /\ Send(c, "register")

\* Proposing, and proposing again after a timeout, with the series unchanged.
ProposeInSession(c) ==
    /\ client[c].phase = "open" /\ client[c].series <= MaxSeries[c]
    /\ client' = client
    /\ Send(c, "update")

\* PrepareForUnregister.
Unregister(c) ==
    /\ client[c].phase = "open"
    /\ client' = [client EXCEPT ![c].phase = "closed"]
    /\ Send(c, "unregister")

\* Raft commits one of the entries in flight, or commits it once more.
CommitEntry(e) ==
    /\ Len(committed) < MaxLog
    /\ e \in inFlight
    /\ e.kind = "register" => ~ Contains(committed, e)
    /\ committed' = Append(committed, e)
    /\ UNCHANGED <<client, inFlight, replica, saved, answers, snapshots>>

\* The client hears of the outcome of its entry: PrepareForPropose after the
\* registration, ProposalCompleted after a result for its current series; a
\* client that is rejected gives up.
Hears(c, e, code) ==
    LET s == client[c]
    IN IF e.kind = "register" /\ s.phase = "registering"
       THEN [s EXCEPT !.phase = IF code = "rejected" THEN "gone" ELSE "open"]
       ELSE IF e.kind = "update" /\ s.phase = "open" /\ e.series = s.series
       THEN IF code = "rejected" THEN [s EXCEPT !.phase = "gone"]
            ELSE [s EXCEPT !.respondedTo = s.series, !.series = s.series + 1]
       ELSE s

---------------------------------------------------------------------------
\* Replicas.

ApplyEntry(r) ==
    LET m == replica[r]
        e == committed[m.applied + 1]
        done == HandleEntry(m, e)
    IN /\ m.applied < Len(committed)
       /\ replica' = [replica EXCEPT ![r] = done.rsm]
       /\ IF r = Here /\ done.code # "ignored"
          THEN /\ answers' = IF e.kind = "update" /\ done.code # "rejected"
                             THEN answers \cup {<<e.client, e.series, done.result>>}
                             ELSE answers
               /\ \E heard \in BOOLEAN :  \* the client may have stopped waiting
                     client' = IF heard THEN [client EXCEPT ![e.client] =
                                                Hears(e.client, e, done.code)]
                               ELSE client
          ELSE UNCHANGED <<client, answers>>
       /\ UNCHANGED <<inFlight, committed, saved, snapshots>>

SaveSessions(r) ==
    /\ snapshots < MaxSnapshots /\ replica[r].applied > saved[r].applied
    /\ snapshots' = snapshots + 1
    /\ replica' = [replica EXCEPT ![r] = Saving(@)]
    /\ saved' = [saved EXCEPT ![r] = replica[r]]
    /\ UNCHANGED <<client, inFlight, committed, answers>>

\* A restart loads the replica's own snapshot; a replica that is behind
\* installs the other's, which then is its own too.
RestartReplica(r) ==
    /\ replica' = [replica EXCEPT ![r] = Loaded(saved[r])]
    /\ r # Here
    /\ UNCHANGED <<client, inFlight, committed, saved, answers, snapshots>>

InstallSnapshot(r, q) ==
    /\ saved[q].applied > replica[r].applied
    /\ replica' = [replica EXCEPT ![r] = Loaded(saved[q])]
    /\ saved' = [saved EXCEPT ![r] = saved[q]]
    /\ UNCHANGED <<client, inFlight, committed, answers, snapshots>>

SessionsNext ==
    \/ \E c \in Clients : Register(c) \/ ProposeInSession(c) \/ Unregister(c)
    \/ \E e \in inFlight : CommitEntry(e)
    \/ \E r \in Replicas : ApplyEntry(r) \/ SaveSessions(r) \/ RestartReplica(r)
    \/ \E r, q \in Replicas : InstallSnapshot(r, q)

---------------------------------------------------------------------------
SessionsTypeOK ==
    \A r \in Replicas :
        /\ replica[r].applied \in 0 .. Len(committed)
        /\ Len(replica[r].lru) <= replica[r].size
        /\ \A c \in Clients : Registered(replica[r], c) <=> replica[r].session[c] # NoSession

\* However often a proposal is sent, committed and replayed, it updates a state
\* machine at most once: handleUpdate "implements the no-more-than-once update".
AppliedOnce == \A r \in Replicas : IsInjective(replica[r].data)

\* All the answers a proposal gets, the first one and those given to retries
\* after a snapshot or an eviction, are the result of its one update.
AnswersAreStable ==
    \A a \in answers : \A r \in Replicas :
        Len(replica[r].data) >= a[3] => replica[r].data[a[3]] = <<a[1], a[2]>>

\* Sessions do what they are for: the manager is within its capacity, an update
\* is made once, and every answer to it is the same.
UpdatedAtMostOnce == SessionsTypeOK /\ AppliedOnce /\ AnswersAreStable

\* Replicas at the same index hold the same state machine and the same sessions
\* in the same eviction order, whichever of them saved, restarted or installed
\* snapshots on the way.
ReplicasAgree ==
    replica["here"].applied = replica["there"].applied => replica["here"] = replica["there"]

=============================================================================
