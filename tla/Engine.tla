------------------------------- MODULE Engine -------------------------------
(***************************************************************************)
(* One node inside the execution engine (execengine.go, node.go,           *)
(* internal/rsm/statemachine.go): the step worker hands committed entries  *)
(* and snapshots to the commit worker through the commitC channel, the     *)
(* commit worker applies the entries and pauses the node whenever a        *)
(* snapshot has to be recovered or taken, and the snapshot worker does     *)
(* that and reports back through three one-place records.  The node may be *)
(* stopped at any time and the process may crash between any two steps.    *)
(*                                                                         *)
(* Entries are their indexes.  Raft is external: it commits entries, and   *)
(* it accepts a snapshot from the leader that is ahead of its commit       *)
(* index.  The entry at ChangeIndex is a membership change, if any is.     *)
(***************************************************************************)
EXTENDS Integers, Sequences, FiniteSets, FiniteSetsExt

CONSTANTS MaxIndex,       \* entries committed in one behaviour
          MaxIncoming,    \* snapshots accepted from the leader
          MaxCrashes,
          CommitCLength,  \* capacity of commitC (NodeCommitChanLength)
          SnapshotEntries, CompactionOverhead, \* of the node's configuration
          SnapshotsToKeep,
          Occasions       \* what may happen besides, in one behaviour: "change"
                          \* and "quiesce"

VARIABLES raft,   \* committed; processed: handed over; incoming: a snapshot or 0
          step,   \* the step worker: at, the update's snapshot and entries
          commitC,
          node,   \* publishedIndex, snapshotIndex, ... of the node struct
          ready,  \* the records snapshotReady, reqSnapshotReady, snapshotCompleteReady
          rsm,    \* the replicated state machine
          snapw,  \* the snapshot worker: at, and the snapshot's index
          commitw,\* the commit worker: holds s.mu for a membership change, or not
          raftMu, \* who holds the node's raftMu
          disk,   \* snapshots recorded in the logdb, first index left in the log
          occasion \* which of the Occasions this behaviour has

engineVars == <<raft, step, commitC, node, ready, rsm, snapw, commitw, raftMu, disk,
                occasion>>

snapshotCommitCSlots == 3
ChangeIndex == 3

NoRecord == [set |-> FALSE, initial |-> FALSE, index |-> 0]
Record(initial, index) == [set |-> TRUE, initial |-> initial, index |-> index]

Entries(first, last) == [type |-> "entries", first |-> first, last |-> last]
SnapshotAvailable(index) == [type |-> "available", first |-> index, last |-> index]
SnapshotRequested == [type |-> "requested", first |-> 0, last |-> 0]

\* GetMostRecentSnapshot; index 0 is ErrNoSnapshot.
MostRecent(files) == Max(files \cup {0})

StepIdle == [at |-> "idle", snapshot |-> 0, first |-> 1, last |-> 0]
SnapIdle == [at |-> "idle", index |-> 0, initial |-> FALSE]

\* A started node: replayLog loads the most recent snapshot m into the log
\* reader and raft, the state machine is empty and not initialized.
NewRaft(committed, m, received) ==
    [committed |-> committed, processed |-> m, incoming |-> 0, received |-> received]
NewNode(m) == [published |-> 0, snapshotIndex |-> 0, reqSnapshotIndex |-> 0,
               compactLogTo |-> 0, lastApplied |-> 0, reader |-> m,
               initialized |-> FALSE, paused |-> FALSE, stopped |-> FALSE]
NewRSM == [applied |-> 0, batched |-> 0, lastSnapshot |-> 0]
NoneReady == [recover |-> NoRecord, save |-> NoRecord, done |-> NoRecord]

EngineInit ==
    /\ occasion \in Occasions
    /\ \E m \in {0, 2} :
        /\ raft = NewRaft(m, m, 0) /\ node = NewNode(m)
        /\ disk = [snapshots |-> {m} \ {0}, compacted |-> 0, crashes |-> 0]
    /\ rsm = NewRSM /\ step = StepIdle /\ commitC = <<>> /\ snapw = SnapIdle
    /\ commitw = "idle" /\ raftMu = "free" /\ ready = NoneReady

-----------------------------------------------------------------------------
(* Raft.                                                                    *)

RaftCommits ==
    /\ raft.committed < MaxIndex
    /\ raft' = [raft EXCEPT !.committed = @ + 1]
    /\ UNCHANGED <<step, commitC, node, ready, rsm, snapw, commitw, raftMu, disk, occasion>>

\* raft.restore: a snapshot not ahead of the commit index is ignored.
ReceiveSnapshot(index) ==
    /\ raft.incoming = 0 /\ raft.received < MaxIncoming
    /\ node.initialized /\ step.at = "idle" /\ raftMu = "free"
    /\ index > raft.committed
    /\ raft' = [raft EXCEPT !.incoming = index, !.committed = index, !.received = @ + 1]
    /\ UNCHANGED <<step, commitC, node, ready, rsm, snapw, commitw, raftMu, disk, occasion>>

-----------------------------------------------------------------------------
(* The step worker.                                                         *)

Free == CommitCLength - Len(commitC)

\* Mutant of canHaveMoreEntriesToApply: the used slots are counted.
MutUsed_canHaveMoreEntriesToApply == Len(commitC) > snapshotCommitCSlots

canHaveMoreEntriesToApply == Free > snapshotCommitCSlots

\* stepNode: everything up to getUpdate happens under raftMu; a node entering
\* quiesce asks the state machine for its members on the way.
StepNode ==
    /\ step.at = "idle" /\ raftMu = "free" /\ node.initialized
    /\ node' = [node EXCEPT !.lastApplied = rsm.batched]
    /\ \/ /\ raft.incoming > 0
          /\ step' = [at |-> "save", snapshot |-> raft.incoming, first |-> 1, last |-> 0]
          /\ UNCHANGED <<raftMu, occasion>>
       \/ /\ raft.incoming = 0
          /\ step' = IF canHaveMoreEntriesToApply /\ raft.processed < raft.committed
                     THEN [at |-> "publish", snapshot |-> 0,
                           first |-> raft.processed + 1, last |-> raft.committed]
                     ELSE [StepIdle EXCEPT !.at = "process"]
          /\ UNCHANGED <<raftMu, occasion>>
       \/ /\ "quiesce" \in occasion
          /\ step' = [StepIdle EXCEPT !.at = "quiesce"]
          /\ raftMu' = "step"
          /\ occasion' = occasion \ {"quiesce"}
    /\ UNCHANGED <<raft, commitC, ready, rsm, snapw, commitw, disk>>

\* sendEnterQuiesceMessages: GetMembership waits for s.mu.
EnterQuiesce ==
    /\ step.at = "quiesce" /\ commitw = "idle"
    /\ step' = [step EXCEPT !.at = "process"]
    /\ raftMu' = "free"
    /\ UNCHANGED <<raft, commitC, node, ready, rsm, snapw, commitw, disk, occasion>>

\* SaveRaftState, before a snapshot is published.
SaveRaftState ==
    /\ step.at = "save"
    /\ disk' = [disk EXCEPT !.snapshots = @ \cup {step.snapshot}]
    /\ step' = [step EXCEPT !.at = "publish"]
    /\ UNCHANGED <<raft, commitC, node, ready, rsm, snapw, commitw, raftMu, occasion>>

\* What the node remembers of a snapshot it publishes (logreader.ApplySnapshot,
\* publishSnapshot).
Publishes(n, index) ==
    [n EXCEPT !.reader = Max({@, index}), !.snapshotIndex = index, !.published = index]

ProcessSnapshot ==
    /\ step.snapshot > 0
    /\ IF node.stopped
       THEN UNCHANGED <<commitC, node>>
       ELSE /\ Free > 0
            /\ commitC' = Append(commitC, SnapshotAvailable(step.snapshot))
            /\ node' = Publishes(node, step.snapshot)

\* entriesToApply and publishEntries: what was published before is filtered out.
ApplyRaftUpdates ==
    /\ step.snapshot = 0
    /\ IF node.stopped \/ node.published >= step.last
       THEN UNCHANGED <<commitC, node>>
       ELSE /\ Free > 0
            /\ commitC' = Append(commitC, Entries(node.published + 1, step.last))
            /\ node' = [node EXCEPT !.published = step.last]

Publish ==
    /\ step.at = "publish"
    /\ ProcessSnapshot \/ ApplyRaftUpdates
    /\ step' = [step EXCEPT !.at = "process"]
    /\ UNCHANGED <<raft, ready, rsm, snapw, commitw, raftMu, disk, occasion>>

saveSnapshotRequired ==
    LET enough(i) == i > SnapshotEntries + node.snapshotIndex
    IN  /\ SnapshotEntries > 0
        /\ enough(node.published) /\ enough(node.lastApplied)
        /\ node.lastApplied > SnapshotEntries + node.reqSnapshotIndex

\* Mutant of Compaction: snapshots up to the saved one go, however few are left.
MutNoneKept_Compaction(files, upTo) == {s \in files : s > upTo + CompactionOverhead}

\* The SnapshotsToKeep most recent snapshots are never removed.
Compaction(files, upTo) ==
    {s \in files : s >= upTo \/ Cardinality({t \in files : t > s}) < SnapshotsToKeep}

\* compactLog: nothing happens while a recovery holds snapshotLock, and the
\* index that was asked for is then forgotten.
compactLog ==
    IF node.compactLogTo = 0 \/ snapw.at \in {"recover", "restore"}
    THEN UNCHANGED disk
    ELSE disk' = [disk EXCEPT !.snapshots = Compaction(@, node.compactLogTo),
                              !.compacted = Max({@, node.compactLogTo})]

\* processRaftUpdate and commitRaftUpdate.
ProcessRaftUpdate ==
    /\ step.at = "process" /\ raftMu = "free"
    /\ compactLog
    /\ IF saveSnapshotRequired
       THEN /\ node.stopped \/ Free > 0
            /\ commitC' = IF node.stopped THEN commitC ELSE Append(commitC, SnapshotRequested)
            /\ node' = [node EXCEPT !.compactLogTo = 0, !.reqSnapshotIndex = node.lastApplied]
       ELSE /\ node' = [node EXCEPT !.compactLogTo = 0]
            /\ UNCHANGED commitC
    /\ raft' = [raft EXCEPT !.processed = Max({@, step.snapshot, step.last}),
                            !.incoming = IF step.snapshot > 0 THEN 0 ELSE @]
    /\ step' = StepIdle
    /\ UNCHANGED <<ready, rsm, snapw, commitw, raftMu, occasion>>

-----------------------------------------------------------------------------
(* The commit worker.                                                       *)

setInitialStatus(n, index) ==
    [n EXCEPT !.snapshotIndex = index, !.published = index, !.initialized = TRUE]

\* execSMs on a node whose snapshot has been dealt with.
Resume ==
    /\ ~node.stopped /\ node.paused /\ commitw = "idle"
    /\ ready.done.set
    /\ LET n == [node EXCEPT !.paused = FALSE]
       IN  node' = IF ready.done.initial THEN setInitialStatus(n, ready.done.index) ELSE n
    /\ ready' = [ready EXCEPT !.done = NoRecord]
    /\ UNCHANGED <<raft, step, commitC, rsm, snapw, commitw, raftMu, disk, occasion>>

\* A node that is not initialized has its most recent snapshot recovered first.
CheckInitialSnapshot ==
    /\ ~node.stopped /\ ~node.paused /\ ~node.initialized
    /\ node' = [node EXCEPT !.paused = TRUE]
    /\ ready' = [ready EXCEPT !.recover = Record(TRUE, 0)]
    /\ UNCHANGED <<raft, step, commitC, rsm, snapw, commitw, raftMu, disk, occasion>>

\* Mutant of MayHandle: a node waiting for its snapshot is handled as well.
MutNoPause_MayHandle == ~node.stopped /\ node.initialized /\ commitw = "idle"

MayHandle == ~node.stopped /\ ~node.paused /\ node.initialized /\ commitw = "idle"

\* Handle, one record of commitC.  A membership change is applied to the
\* state machine under s.mu, and to raft under raftMu as well (LockRaft).
Handle ==
    /\ MayHandle /\ commitC # <<>>
    /\ commitC' = Tail(commitC)
    /\ LET rec == Head(commitC)
       IN  \/ /\ rec.type = "entries"
              /\ rsm' = [rsm EXCEPT !.applied = rec.last, !.batched = rec.last]
              /\ commitw' = IF "change" \in occasion /\ ChangeIndex \in rec.first .. rec.last
                             THEN "change" ELSE "idle"
              /\ UNCHANGED <<node, ready>>
           \/ /\ rec.type = "available"
              /\ node' = [node EXCEPT !.paused = TRUE]
              /\ ready' = [ready EXCEPT !.recover = Record(FALSE, rec.last)]
              /\ UNCHANGED <<rsm, commitw>>
           \/ /\ rec.type = "requested"
              /\ node' = [node EXCEPT !.paused = TRUE]
              /\ ready' = [ready EXCEPT !.save = Record(FALSE, 0)]
              /\ UNCHANGED <<rsm, commitw>>
    /\ UNCHANGED <<raft, step, snapw, raftMu, disk, occasion>>

\* handleConfigChange, holding s.mu, calls applyConfigChange, which takes raftMu.
LockRaft ==
    /\ commitw = "change" /\ raftMu = "free"
    /\ commitw' = "idle"
    /\ UNCHANGED <<raft, step, commitC, node, ready, rsm, snapw, raftMu, disk, occasion>>

-----------------------------------------------------------------------------
(* The snapshot worker.                                                     *)

\* recoverFromSnapshot takes snapshotLock and looks the snapshot up.
TakeRecover ==
    /\ snapw.at = "idle" /\ ready.recover.set
    /\ snapw' = [at |-> "recover", initial |-> ready.recover.initial,
                 index |-> IF ready.recover.initial
                           THEN MostRecent(disk.snapshots) ELSE ready.recover.index]
    /\ ready' = [ready EXCEPT !.recover = NoRecord]
    /\ UNCHANGED <<raft, step, commitC, node, rsm, commitw, raftMu, disk, occasion>>

\* recoverSnapshot.  (An error of the user's RecoverFromSnapshot goes unnoticed:
\* NativeStateMachine.RecoverFromSnapshot closes the file in a deferred call
\* whose result replaces it.)
RecoverSnapshot ==
    /\ snapw.at = "recover" /\ commitw = "idle"
    /\ IF rsm.applied >= snapw.index
       THEN /\ snapw' = [snapw EXCEPT !.at = "done", !.index = rsm.applied]
            /\ UNCHANGED rsm
       ELSE /\ snapw' = [snapw EXCEPT !.at = "restore"]
            /\ rsm' = [rsm EXCEPT !.applied = snapw.index, !.batched = snapw.index]
    /\ UNCHANGED <<raft, step, commitC, node, ready, commitw, raftMu, disk, occasion>>

\* RestoreRemotes, under raftMu.
RestoreRemotes ==
    /\ snapw.at = "restore" /\ raftMu = "free"
    /\ snapw' = [snapw EXCEPT !.at = "done"]
    /\ UNCHANGED <<raft, step, commitC, node, ready, rsm, commitw, raftMu, disk, occasion>>

\* saveSnapshot up to StateMachine.SaveSnapshot.
TakeSave ==
    /\ snapw.at = "idle" /\ ready.save.set
    /\ ready' = [ready EXCEPT !.save = NoRecord]
    /\ IF rsm.applied <= node.snapshotIndex \/ rsm.applied = rsm.lastSnapshot
       THEN /\ snapw' = [SnapIdle EXCEPT !.at = "done"]
            /\ UNCHANGED rsm
       ELSE /\ snapw' = [at |-> "commit", index |-> rsm.applied, initial |-> FALSE]
            /\ rsm' = [rsm EXCEPT !.lastSnapshot = rsm.applied]
    /\ UNCHANGED <<raft, step, commitC, node, commitw, raftMu, disk, occasion>>

\* Commit, and logreader.CreateSnapshot which refuses an outdated snapshot.
CommitSnapshot ==
    /\ snapw.at = "commit"
    /\ disk' = [disk EXCEPT !.snapshots = @ \cup {snapw.index}]
    /\ IF node.reader >= snapw.index
       THEN /\ snapw' = [snapw EXCEPT !.at = "done"]
            /\ UNCHANGED node
       ELSE /\ snapw' = [snapw EXCEPT !.at = "index"]
            /\ node' = [node EXCEPT !.reader = snapw.index]
    /\ UNCHANGED <<raft, step, commitC, ready, rsm, commitw, raftMu, occasion>>

\* setCompactLogTo and setSnapshotIndex; the step worker may have published
\* a newer snapshot in between.
SetSnapshotIndex ==
    /\ snapw.at = "index"
    /\ node' = [node EXCEPT !.snapshotIndex = snapw.index,
                            !.compactLogTo = IF snapw.index > CompactionOverhead
                                             THEN snapw.index - CompactionOverhead ELSE @]
    /\ snapw' = [snapw EXCEPT !.at = "done"]
    /\ UNCHANGED <<raft, step, commitC, ready, rsm, commitw, raftMu, disk, occasion>>

\* saveSnapshotDone, snapshotDone, initialSnapshotDone.
ReportDone ==
    /\ snapw.at = "done"
    /\ ready' = [ready EXCEPT !.done = Record(~node.initialized, snapw.index)]
    /\ snapw' = SnapIdle
    /\ UNCHANGED <<raft, step, commitC, node, rsm, commitw, raftMu, disk, occasion>>

-----------------------------------------------------------------------------
(* The node is stopped (close), or the process dies and starts again: raft  *)
(* may have to learn its commit index anew.                                 *)

StopEngine ==
    /\ ~node.stopped
    /\ node' = [node EXCEPT !.stopped = TRUE]
    /\ UNCHANGED <<raft, step, commitC, ready, rsm, snapw, commitw, raftMu, disk, occasion>>

Crash ==
    /\ disk.crashes < MaxCrashes
    /\ disk' = [disk EXCEPT !.crashes = @ + 1]
    /\ LET m == MostRecent(disk.snapshots)
       IN  /\ \E c \in m .. raft.committed : raft' = NewRaft(c, m, raft.received)
           /\ node' = NewNode(m)
    /\ rsm' = NewRSM /\ step' = StepIdle /\ commitC' = <<>> /\ snapw' = SnapIdle
    /\ commitw' = "idle" /\ raftMu' = "free" /\ ready' = NoneReady
    /\ UNCHANGED occasion

EngineStep == StepNode \/ EnterQuiesce \/ SaveRaftState \/ Publish \/ ProcessRaftUpdate
EngineCommit == Resume \/ CheckInitialSnapshot \/ Handle \/ LockRaft
EngineSnapshot == TakeRecover \/ RecoverSnapshot \/ RestoreRemotes \/ TakeSave
                  \/ CommitSnapshot \/ SetSnapshotIndex \/ ReportDone

EngineNext ==
    \/ RaftCommits \/ \E i \in 1 .. MaxIndex : ReceiveSnapshot(i)
    \/ EngineStep \/ EngineCommit \/ EngineSnapshot
    \/ StopEngine \/ Crash

-----------------------------------------------------------------------------
(* Properties.                                                              *)

EngineTypeOK ==
    /\ raft.committed \in 0 .. MaxIndex /\ raft.processed \in 0 .. raft.committed
    /\ Len(commitC) <= CommitCLength
    /\ step.at \in {"idle", "quiesce", "save", "publish", "process"}
    /\ snapw.at \in {"idle", "recover", "restore", "commit", "index", "done"}
    /\ disk.snapshots \subseteq 1 .. MaxIndex

\* A node is paused exactly while one worker has its snapshot in hand: the
\* request or the answer lies in one of the three records, or the snapshot
\* worker is at it.  setRecord, which panics on a record that is still set,
\* is therefore never called on one (execSMs, snapshotWorkerMain).
OneHandler ==
    Cardinality({k \in DOMAIN ready : ready[k].set}) + (IF snapw.at = "idle" THEN 0 ELSE 1)
        = IF node.paused THEN 1 ELSE 0

\* Where the state machine will be once the snapshot in hand is recovered.
Recovering == Max({rsm.applied, ready.recover.index}
                  \cup (IF snapw.at = "recover" THEN {snapw.index} ELSE {}))

\* The last index published before the k-th record of commitC.
PublishedBefore(k) ==
    Max({Recovering} \cup {commitC[i].last : i \in 1 .. k - 1})

\* What lies in commitC continues the state machine without a hole and
\* without repeating an entry, across snapshots being recovered and taken,
\* restarts included; updateLastApplied panics otherwise, and so does
\* entriesToApply when publishedIndex is not the end of the channel.
NoHoles ==
    node.initialized =>
        /\ \A k \in 1 .. Len(commitC) :
              commitC[k].type = "entries" => commitC[k].first = PublishedBefore(k) + 1
        /\ node.published = PublishedBefore(Len(commitC) + 1)

\* A snapshot about to be published is never older than what the node has
\* published, taken or applied, and a snapshot is never taken of a state
\* older than the last one: the panics of publishSnapshot and SaveSnapshot.
SnapshotsAdvance ==
    /\ step.at \in {"save", "publish"} /\ step.snapshot > 0 /\ ~node.stopped =>
          step.snapshot >= Max({node.published, node.snapshotIndex, node.lastApplied})
    /\ rsm.lastSnapshot <= rsm.applied

\* Whenever the process dies the log can be replayed: no entry after the
\* most recent recorded snapshot has been removed (compactLog).  A snapshot
\* on its way to the state machine is still there when it is looked up
\* (Compaction against getSnapshot).
SnapshotsKept ==
    /\ disk.compacted <= MostRecent(disk.snapshots)
    /\ \A k \in 1 .. Len(commitC) :
          commitC[k].type = "available" => commitC[k].last \in disk.snapshots
    /\ ready.recover.set /\ ~ready.recover.initial => ready.recover.index \in disk.snapshots
    /\ snapw.at = "recover" => snapw.index \in disk.snapshots \cup {0}

\* The step worker, which serves many nodes, is never held up by a full
\* commitC: canHaveMoreEntriesToApply leaves room for a snapshot and for
\* the request to take one.
StepNeverBlocks ==
    ~node.stopped =>
        /\ step.at = "publish" => Free > 0
        /\ step.at = "process" /\ saveSnapshotRequired => Free > 0

\* The panics of the three workers are out of reach, and none of them blocks.
WorkersNeverPanic ==
    EngineTypeOK /\ OneHandler /\ NoHoles /\ SnapshotsAdvance /\ StepNeverBlocks

\* However snapshots, stops and crashes fall, a node that keeps running
\* comes back from every pause and applies all that raft has committed.
EverythingIsApplied ==
    <>[](node.stopped \/ rsm.applied = raft.committed)

=============================================================================
