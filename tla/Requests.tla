------------------------------ MODULE Requests ------------------------------
(***************************************************************************)
(* The requests a client has outstanding at one node (requests.go,         *)
(* queue.go): proposals, ReadIndex reads and membership changes, from the  *)
(* call that accepts one to the single result put into its CompletedC      *)
(* channel.  The threads are the clients' own, the step worker (one pass   *)
(* of handleEvents is split where it releases a lock another thread        *)
(* takes), the commit worker that applies entries, and the thread that     *)
(* closes the node.  Raft is external: it may commit what was proposed to  *)
(* it, and it answers a ReadIndex context with its committed index.        *)
(*                                                                         *)
(* Times are kept relative to the clock: left[r] is the deadline of r less *)
(* the current tick, sinceGc the ticks since the last collection.  All the *)
(* clocks of a node tick together.                                         *)
(***************************************************************************)
EXTENDS Integers, Sequences, FiniteSets, Functions

CONSTANTS Proposals, Reads, Changes,  \* requests, each made once
          Workloads,  \* which requests and events may occur in one behaviour
          NumShards,  \* of pendingProposal (16 in the code)
          ShardOf,    \* the shard a proposal's key falls into
          QueueSize, ReadQueueSize,  \* capacities of the incoming queues
          Timeout,    \* ticks a client allows its request
          GcTick,     \* ticks between two collections
          CtxTicks    \* ticks a ReadIndex context is remembered

Requests == Proposals \cup Reads \cup Changes
Shards == 1 .. NumShards

ASSUME RequestsAssumption ==
    /\ Proposals \cap Reads = {} /\ Proposals \cap Changes = {} /\ Reads \cap Changes = {}
    /\ NumShards \in Nat /\ ShardOf \in [Proposals -> Shards]
    /\ QueueSize \in Nat /\ ReadQueueSize \in Nat /\ Timeout \in Nat

VARIABLES load,      \* the requests and events of this behaviour
          call,      \* how far each call has got
          left,      \* ticks to each deadline, no less than TooLate
          result,    \* what each CompletedC has been sent
          asked,     \* the committed index when a read was accepted
          pending,   \* requests registered in the pending maps
          proposalQ, readQ, changeC,
          stoppedShards, readStopped, changeClosed, closing,
          sinceGc,   \* per shard, and for reads and changes
          expired,   \* collections done since the last tick
          ctx,       \* the system context the next batch of reads gets
          mapping,   \* the context a pending read waits for
          batches,   \* contexts confirmed by raft, with their index
          ctxGc,     \* contexts remembered, with the ticks they have left
          readCount, \* has a read been announced to the step worker?
          stepper,    \* the step stepper's position and locals
          inRaft, readsInRaft, raftLog, \* raft: proposals, contexts, committed
          applied, batched, \* applied index; the one published per batch
          applying   \* the commit worker between its read of the clock and its use

clientVars == <<load, call, asked>>
queueVars == <<proposalQ, readQ, changeC>>
stopVars == <<stoppedShards, readStopped, changeClosed, closing>>
readVars == <<ctx, mapping, batches, ctxGc>>
raftVars == <<inRaft, readsInRaft, raftLog>>
applyVars == <<applied, batched, applying>>
requestsVars == <<clientVars, left, result, pending, queueVars, stopVars, sinceGc,
                  expired, readVars, readCount, stepper, raftVars, applyVars>>

\* What may happen besides requests: a new leader's empty entry, ticks, the close.
Noop == "noop"
Ticks == "ticks"
Closes == "closes"
TooLate == -2
ReadTimer == 0
NodeClock == 0
ChangeTimer == -1
Timers == Shards \cup {ReadTimer, ChangeTimer}
StepperIdle == [at |-> "idle", reads |-> {}, seen |-> 0]

RequestsInit ==
    /\ load \in Workloads
    /\ call = [r \in Requests |-> "none"]
    /\ left = [r \in Requests |-> 0]
    /\ result = [r \in Requests |-> <<>>]
    /\ asked = [r \in Reads |-> 0]
    /\ pending = {}
    /\ proposalQ = <<>> /\ readQ = {} /\ changeC = <<>>
    /\ stoppedShards = {} /\ readStopped = FALSE /\ changeClosed = FALSE
    /\ closing = FALSE
    /\ sinceGc = [t \in Timers |-> GcTick]
    /\ expired = [t \in Shards \cup {NodeClock} |-> TRUE]
    /\ ctx = 1 /\ mapping = [r \in Reads |-> 0] /\ batches = [c \in {} |-> 0]
    /\ ctxGc = <<>>
    /\ readCount = FALSE
    /\ stepper = StepperIdle
    /\ inRaft = {} /\ readsInRaft = {} /\ raftLog = <<>>
    /\ applied = 0 /\ batched = 0
    /\ applying = [on |-> FALSE, age |-> 0]

---------------------------------------------------------------------------
\* The outcome "completed" stands for requestCompleted and requestRejected, which
\* the state machine tells apart.  RequestState.notify puts one result in a channel with room for one.
Notify(rs, code) == [r \in Requests |->
    IF r \in rs THEN Append(result[r], code) ELSE result[r]]

\* A collection is due after GcTick ticks; a clock value read before the last
\* collection makes the unsigned difference wrap, which counts as due.
Due(ticks) == ticks >= GcTick \/ ticks < 0

\* Mutant of Overdue: nothing is ever overdue.
MutNever_Overdue(rs, age) == {}

\* gcAt and gc: what has missed its deadline when the clock was `age` ticks
\* younger.
Overdue(rs, age) == {r \in rs \cap pending : left[r] + age < 0}

---------------------------------------------------------------------------
\* Clients.

\* proposalShard.propose up to its first unlock.
Propose(r) ==
    /\ r \in load \cap Proposals /\ call[r] = "none"
    /\ call' = [call EXCEPT ![r] = "registered"]
    /\ left' = [left EXCEPT ![r] = Timeout]
    /\ pending' = pending \cup {r}
    /\ UNCHANGED <<load, asked, result, queueVars, stopVars, sinceGc, expired,
                   readVars, readCount, stepper, raftVars, applyVars>>

\* entryQueue.add: full is looked at before stopped, and both are refusals.
CanAdd(q) == Len(q) < QueueSize /\ stoppedShards = {}

\* The rest of propose: the entry goes into the queue or the request is
\* unregistered again.
Enqueue(r) ==
    /\ r \in Proposals /\ call[r] = "registered"
    /\ IF CanAdd(proposalQ)
       THEN /\ proposalQ' = Append(proposalQ, r)
            /\ call' = [call EXCEPT ![r] = "accepted"]
            /\ UNCHANGED pending
       ELSE /\ call' = [call EXCEPT ![r] = "refused"]
            /\ pending' = pending \ {r}
            /\ UNCHANGED proposalQ
    /\ UNCHANGED <<load, left, asked, result, readQ, changeC, stopVars, sinceGc, expired,
                   readVars, readCount, stepper, raftVars, applyVars>>

\* pendingReadIndex.read; NodeHost.readIndex then announces it to the step
\* worker (an announcement that comes later makes an empty batch at most).
Read(r) ==
    /\ r \in load \cap Reads /\ call[r] = "none"
    /\ left' = [left EXCEPT ![r] = Timeout]
    /\ asked' = [asked EXCEPT ![r] = Len(raftLog)]
    /\ IF Cardinality(readQ) < ReadQueueSize /\ ~ readStopped
       THEN /\ readQ' = readQ \cup {r}
            /\ call' = [call EXCEPT ![r] = "accepted"]
            /\ readCount' = TRUE
       ELSE /\ call' = [call EXCEPT ![r] = "refused"]
            /\ UNCHANGED <<readQ, readCount>>
    /\ UNCHANGED <<load, result, pending, proposalQ, changeC, stopVars, sinceGc,
                   expired, readVars, stepper, raftVars, applyVars>>

\* pendingConfigChange.request: one change at a time, and a channel of one.
RequestChange(r) ==
    /\ r \in load \cap Changes /\ call[r] = "none"
    /\ IF pending \cap Changes = {} /\ ~ changeClosed /\ changeC = <<>>
       THEN /\ call' = [call EXCEPT ![r] = "accepted"]
            /\ left' = [left EXCEPT ![r] = Timeout]
            /\ pending' = pending \cup {r}
            /\ changeC' = <<r>>
       ELSE /\ call' = [call EXCEPT ![r] = "refused"]
            /\ UNCHANGED <<left, pending, changeC>>
    /\ UNCHANGED <<load, asked, result, proposalQ, readQ, stopVars, sinceGc, expired,
                   readVars, readCount, stepper, raftVars, applyVars>>

---------------------------------------------------------------------------
\* pendingReadIndex.applied(index), as what it makes of the reads' state.

\* Mutant of Completable: a confirmed read does not wait for its index.
MutEager_Completable(index, known) == {r \in pending \cap Reads :
    mapping[r] \in DOMAIN known}

Completable(index, known) == {r \in pending \cap Reads :
    mapping[r] \in DOMAIN known /\ known[mapping[r]] <= index}

\* Besides the reads, the requests in `others` have just timed out, and the timers
\* in `collected` start again.
ReadsApplied(index, known, others, collected) ==
    LET live == ~ readStopped /\ pending \cap Reads # {}
        done == IF live THEN Completable(index, known) ELSE {}
        due == live /\ Due(sinceGc[ReadTimer])
        late == others \cup (IF due THEN Overdue(Reads \ done, 0) ELSE {})
        forget == IF due THEN {g[1] : g \in {h \in Range(ctxGc) : h[2] < 0}} ELSE {}
    IN /\ result' = [r \in Requests |->
             IF r \in late \/ (r \in done /\ left[r] <= 0) THEN Append(result[r], "timeout")
             ELSE IF r \in done THEN Append(result[r], "completed") ELSE result[r]]
       /\ pending' = pending \ (done \cup late)
       /\ batches' = [c \in DOMAIN known \ forget |-> known[c]]
       /\ ctxGc' = SelectSeq(ctxGc, LAMBDA g : g[1] \notin forget)
       /\ sinceGc' = [t \in Timers |->
             IF t \in collected \/ (t = ReadTimer /\ due) THEN 0 ELSE sinceGc[t]]

---------------------------------------------------------------------------
\* The step worker: one pass of handleEvents that finds something to do.

\* updateBatchedLastApplied, and the get of handleReadIndexRequests.
TakeReads ==
    /\ stepper.at = "idle"
    /\ stepper' = [at |-> IF readQ = {} THEN "messages" ELSE "reads",
                   reads |-> readQ, seen |-> batched]
    /\ readQ' = {}
    /\ UNCHANGED <<clientVars, left, result, pending, proposalQ, changeC, stopVars,
                   sinceGc, expired, readVars, readCount, raftVars, applyVars>>

\* Nothing is kept once stopped.
Kept(reads) == IF readStopped THEN {} ELSE reads

\* addPendingRead under the context peeped at.
AddPendingRead ==
    /\ stepper.at = "reads"
    /\ pending' = pending \cup Kept(stepper.reads)
    /\ mapping' = [r \in Reads |-> IF r \in Kept(stepper.reads) THEN ctx ELSE mapping[r]]
    /\ readCount' = TRUE
    /\ stepper' = [stepper EXCEPT !.at = "messages", !.reads = {}]
    /\ UNCHANGED <<clientVars, left, result, queueVars, stopVars, sinceGc, expired,
                   ctx, batches, ctxGc, raftVars, applyVars>>

Waiting(r) == call[r] # "none" /\ result[r] = <<>>

\* node.tick, for as many LocalTick messages as have come.
Ticked(t, ticks) == IF t - ticks < TooLate THEN TooLate ELSE t - ticks

Tick(ticks) ==
    /\ ticks > 0 => Ticks \in load
    /\ applying.age + ticks <= 1
    /\ left' = [r \in Requests |-> IF Waiting(r) THEN Ticked(left[r], ticks) ELSE left[r]]
    /\ sinceGc' = [t \in Timers |-> IF sinceGc[t] < GcTick THEN sinceGc[t] + ticks
                                    ELSE sinceGc[t]]
    /\ expired' = [t \in DOMAIN expired |-> expired[t] /\ ticks = 0]
    /\ applying' = [applying EXCEPT !.age = IF applying.on THEN @ + ticks ELSE 0]

\* handleReceivedMessages: the reads announced share one ReadIndex, and the
\* clock moves with the LocalTicks.  (A context no read waits for, which a read
\* announced late causes, changes nothing and is left out.)
\* handleConfigChangeMessage and handleProposals then hand to raft what is queued.
Messages(ticks) ==
    LET batch == readCount /\ \E r \in pending \cap Reads : mapping[r] = ctx
        gcs == IF batch THEN Append(ctxGc, <<ctx, CtxTicks>>) ELSE ctxGc
    IN /\ stepper.at = "messages"
       /\ readsInRaft' = IF batch THEN readsInRaft \cup {ctx} ELSE readsInRaft
       /\ ctx' = IF batch THEN ctx + 1 ELSE ctx
       /\ readCount' = FALSE
       /\ Tick(ticks)
       /\ ctxGc' = [i \in DOMAIN gcs |-> <<gcs[i][1], Ticked(gcs[i][2], ticks)>>]
       /\ inRaft' = inRaft \cup Range(changeC) \cup Range(proposalQ)
       /\ changeC' = <<>> /\ proposalQ' = <<>>
       /\ stepper' = [stepper EXCEPT !.at = "gc"]
       /\ UNCHANGED <<clientVars, result, pending, readQ, stopVars, mapping, batches,
                      raftLog, applied, batched>>

\* The end of handleEvents: pendingProposals.gc and pendingConfigChange.gc once
\* per tick, and the reads, with the applied index seen at its start.
Collect ==
    LET due == {s \in Shards \ stoppedShards : Due(sinceGc[s]) /\ ~ expired[NodeClock]}
        dueChange == /\ pending \cap Changes # {} /\ ~ expired[NodeClock]
                     /\ Due(sinceGc[ChangeTimer])
        late == Overdue({r \in Proposals : ShardOf[r] \in due}, 0)
                \cup (IF dueChange THEN Overdue(Changes, 0) ELSE {})
        fresh == due \cup (IF dueChange THEN {ChangeTimer} ELSE {})
    IN /\ stepper.at = "gc"
       /\ ReadsApplied(stepper.seen, batches, late, fresh)
       /\ expired' = [expired EXCEPT ![NodeClock] = TRUE]
       /\ stepper' = [stepper EXCEPT !.at = "idle"]
       /\ UNCHANGED <<clientVars, left, queueVars, stopVars, ctx, mapping, readCount,
                      raftVars, applyVars>>

\* addReadyToRead: a context is good for the committed index of now.
Confirmed(c) == [d \in DOMAIN batches \cup {c} |-> IF d = c THEN Len(raftLog) ELSE batches[d]]

\* Raft confirms a context at its committed index; processReadyToRead records
\* it and completes what has been applied already.
ReadyToRead(c) ==
    /\ stepper.at = "idle" /\ c \in readsInRaft
    /\ readsInRaft' = readsInRaft \ {c}
    /\ ReadsApplied(stepper.seen, Confirmed(c), {}, {})
    /\ UNCHANGED <<clientVars, left, queueVars, stopVars, expired, ctx, mapping,
                   readCount, stepper, inRaft, raftLog, applyVars>>

---------------------------------------------------------------------------
\* Raft commits a request, or an entry that came from elsewhere.
RaftCommit(e) ==
    /\ \/ e \in inRaft
       \/ e = Noop /\ Noop \in load /\ Noop \notin Range(raftLog)
    /\ raftLog' = Append(raftLog, e)
    /\ inRaft' = inRaft \ {e}
    /\ UNCHANGED <<clientVars, left, result, pending, queueVars, stopVars, sinceGc,
                   expired, readVars, readCount, stepper, readsInRaft, applyVars>>

\* Mutant of ChangeAnswered: whatever change is pending is answered.
MutAny_ChangeAnswered(e) == pending \cap Changes

\* pendingConfigChange.apply: the change whose key the entry carries.
ChangeAnswered(e) == {e} \cap pending

\* The commit worker applies an entry (handleCommitRec) and calls applyUpdate:
\* the last entry of a batch completes the reads that wait for it and publishes
\* the applied index.  A change is answered by its key; a proposal is answered
\* in the next step, with the clock as read now.  A proposal that the session
\* has been answered for is ignored: nobody is told.
Apply(last, outcome) ==
    LET index == applied + 1
        e == raftLog[index]
        change == e \in Changes
        mine == ChangeAnswered(e)
    IN /\ ~ applying.on
       /\ index <= Len(raftLog)
       /\ ~ last => index < Len(raftLog)
       /\ outcome = "ignored" => e \in Proposals
       /\ applied' = index
       /\ batched' = IF last THEN index ELSE batched
       /\ IF change THEN /\ result' = Notify(mine, outcome)
                         /\ pending' = pending \ mine
                         /\ UNCHANGED <<batches, ctxGc, sinceGc>>
          ELSE IF last /\ outcome # "ignored" THEN ReadsApplied(index, batches, {}, {})
          ELSE UNCHANGED <<result, pending, batches, ctxGc, sinceGc>>
       /\ applying' = IF e \in Proposals /\ outcome # "ignored" THEN [on |-> TRUE, age |-> 0]
                      ELSE applying
       /\ UNCHANGED <<clientVars, left, queueVars, stopVars, expired, ctx, mapping,
                      readCount, stepper, raftVars>>

\* Mutant of GetProposal: the shard is not asked whether it has been stopped.
MutStopped_GetProposal(e) == {r \in pending : r = e /\ left[r] + applying.age >= 0}

\* getProposal: the deadline is compared with the clock read earlier.
GetProposal(e) ==
    {r \in pending : r = e /\ ShardOf[e] \notin stoppedShards /\ left[r] + applying.age >= 0}

\* proposalShard.applied: getProposal, notify, and gcAt when the clock has
\* moved since this shard last collected.
ApplyNotify ==
    LET e == raftLog[applied]
        s == ShardOf[e]
        mine == GetProposal(e)
        due == /\ ~ expired[s] /\ s \notin stoppedShards
               /\ Due(sinceGc[s] - applying.age)
        late == IF due THEN Overdue({r \in Proposals \ mine : ShardOf[r] = s}, applying.age)
                ELSE {}
    IN /\ applying.on
       /\ result' = [r \in Requests |->
             IF r \in mine
             THEN Append(result[r], "completed")
             ELSE IF r \in late THEN Append(result[r], "timeout") ELSE result[r]]
       /\ pending' = pending \ (mine \cup late)
       /\ sinceGc' = IF due THEN [sinceGc EXCEPT ![s] = applying.age] ELSE sinceGc
       /\ expired' = [expired EXCEPT ![s] = TRUE]
       /\ applying' = [on |-> FALSE, age |-> 0]
       /\ UNCHANGED <<clientVars, left, queueVars, stopVars, readVars, readCount, stepper,
                      raftVars, applied, batched>>

---------------------------------------------------------------------------
\* node.close: the reads, then the shards one by one, then the change.

CloseReads ==
    /\ Closes \in load /\ ~ readStopped
    /\ closing' = TRUE /\ readStopped' = TRUE
    /\ result' = Notify(readQ \cup (pending \cap Reads), "terminated")
    /\ readQ' = {}
    /\ UNCHANGED <<clientVars, left, pending, proposalQ, changeC, stoppedShards,
                   changeClosed, sinceGc, expired, readVars, readCount, stepper, raftVars,
                   applyVars>>

CloseShard(s) ==
    /\ readStopped /\ stoppedShards = 1 .. s - 1
    /\ stoppedShards' = stoppedShards \cup {s}
    /\ result' = Notify({r \in pending \cap Proposals : ShardOf[r] = s}, "terminated")
    /\ UNCHANGED <<clientVars, left, pending, queueVars, readStopped, changeClosed,
                   closing, sinceGc, expired, readVars, readCount, stepper, raftVars,
                   applyVars>>

CloseChange ==
    /\ stoppedShards = Shards /\ ~ changeClosed
    /\ changeClosed' = TRUE
    /\ result' = Notify(pending \cap Changes, "terminated")
    /\ pending' = pending \ Changes
    /\ UNCHANGED <<clientVars, left, queueVars, stoppedShards, readStopped, closing,
                   sinceGc, expired, readVars, readCount, stepper, raftVars, applyVars>>

---------------------------------------------------------------------------
ClientStep == \E r \in Requests :
    Propose(r) \/ Enqueue(r) \/ Read(r) \/ RequestChange(r)

RequestsStep == TakeReads \/ AddPendingRead \/ (\E ticks \in 0 .. 1 : Messages(ticks)) \/ Collect

RequestsApply ==
    \/ \E last \in BOOLEAN, outcome \in {"completed", "ignored"} :
          Apply(last, outcome)
    \/ ApplyNotify

Close == CloseReads \/ (\E s \in Shards : CloseShard(s)) \/ CloseChange

RequestsNext ==
    \/ ClientStep
    \/ RequestsStep
    \/ \E c \in readsInRaft : ReadyToRead(c)
    \/ \E e \in Requests \cup {Noop} : RaftCommit(e)
    \/ RequestsApply
    \/ Close

RequestsSpec == RequestsInit /\ [][RequestsNext]_requestsVars

---------------------------------------------------------------------------
RequestsTypeOK ==
    /\ call \in [Requests -> {"none", "registered", "accepted", "refused"}]
    /\ left \in [Requests -> TooLate .. Timeout]
    /\ pending \subseteq Requests
    /\ readQ \subseteq Reads /\ Cardinality(readQ) <= ReadQueueSize
    /\ Len(proposalQ) <= QueueSize /\ Len(changeC) <= 1
    /\ stoppedShards \subseteq Shards
    /\ applied \in 0 .. Len(raftLog) /\ batched \in 0 .. applied

\* However a timeout, a late answer, a collection with a stale clock and the
\* closing of the node race, a request is told one outcome at most: notify
\* panics when CompletedC already holds a result.
NotifiedOnce == \A r \in Requests : Len(result[r]) <= 1

\* A completed read is linearizable: what was committed when the client asked
\* had been applied here when it was told so, whatever batch and context the
\* read travelled in.
ReadsAreFresh ==
    \A r \in Reads : result[r] = <<"completed">> => asked[r] <= applied

\* A client is told that its proposal or its membership change took effect, or
\* was rejected, only after the entry that carries it has been applied, and that
\* it timed out only once the ticks it allowed have passed.
AnswersAreEarned ==
    /\ \A r \in Proposals \cup Changes :
           result[r] = <<"completed">> => \E i \in 1 .. applied : raftLog[i] = r
    /\ \A r \in Requests : result[r] = <<"timeout">> => left[r] <= 0

\* An accepted request that has no outcome yet is still on somebody's list, so
\* that a deadline or the close can find it.  The exception is a read that the
\* step worker has taken from the queue but not yet registered when the node is
\* closed.
NothingForgotten ==
    \A r \in Requests : call[r] = "accepted" /\ result[r] = <<>> =>
        r \in pending \cup readQ \cup stepper.reads \/ (r \in Reads /\ readStopped)

\* A request is told its outcome once, and is on a list until then.
AnsweredOnce == RequestsTypeOK /\ NotifiedOnce /\ NothingForgotten

\* Every accepted request is told an outcome, by its entry, by its deadline or
\* by the close of the node (with the same exception for reads): as requests are
\* finitely many, in the end all have been.
EveryRequestIsAnswered ==
    <>[](Ticks \in load => \A r \in Requests : call[r] = "accepted" =>
                              result[r] # <<>> \/ (r \in Reads /\ readStopped))

=============================================================================
