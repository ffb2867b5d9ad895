------------------------------- MODULE LogDB --------------------------------
(***************************************************************************)
(* What one raft node keeps in the log database, and how it reads it back: *)
(* RDB and its cache (internal/logdb/rdb.go, rdbcache.go, batch.go), the   *)
(* compaction tasks (sharded_rdb.go, compaction.go), the key-value store   *)
(* (kv_rocksdb.go) and the LogReader (logreader.go), driven by execNodes,  *)
(* replayLog and compactLog (execengine.go, node.go).                      *)
(*                                                                         *)
(* Entries are stored in batches of BatchSize indexes, the batch under its *)
(* id.  A write batch is atomic and synchronous.  The node may crash       *)
(* between any two steps and restarts with an empty cache.                 *)
(***************************************************************************)
EXTENDS Integers, Sequences, FiniteSets, SequencesExt, FiniteSetsExt

CONSTANTS BatchSize,   \* settings.Hard.LogDBEntryBatchSize
          LastIndex,   \* indexes are 1 .. LastIndex
          LastTerm,
          Burst,       \* entries in an update
          MaxUpdates,  \* updates saved
          Overhead,    \* CompactionOverhead
          ToKeep       \* snapshotsToKeep

ASSUME LogDBAssumption ==
    /\ BatchSize \in Nat \ {0} /\ LastIndex \in Nat \ {0} /\ LastTerm \in Nat \ {0} /\ Burst \in Nat /\ MaxUpdates \in Nat
    /\ Overhead \in Nat /\ ToKeep \in Nat \ {0}

VARIABLES
    kv,      \* the store: batch, max, state, snaps (index to term); <<>> is "no value"
    cache,   \* rdbcache: batch, max, state
    reader,  \* LogReader: marker, term, length, snap, state
    update,  \* saved by SaveRaftState, not yet processed by the step worker; or <<>>
    taking,  \* the snapshot the node takes of itself: how far it is, index and term
    compactTo, \* node.compactLogTo
    tasks,   \* compactions.pendings of this node; or <<>>
    history, \* what raft was told is durable: base and its term, log, state, number of updates
    panicked

logdbVars == <<kv, cache, reader, update, taking, compactTo, tasks, history, panicked>>

NoState == [term |-> 0, commit |-> 0]
NoSnapshot == [index |-> 0, term |-> 0]
NoUpdate == [state |-> NoState, snap |-> NoSnapshot, entries |-> <<>>]
NotTaking == [at |-> "idle", index |-> 0, term |-> 0]

-----------------------------------------------------------------------------
(* Batches.                                                                 *)

getBatchID(index) == index \div BatchSize
getBatchIDRange(low, high) ==
    <<getBatchID(low), getBatchID(high) + (IF high % BatchSize = 0 THEN 0 ELSE 1)>>

\* The terms and indexes of a batch of one term without gaps are not stored.
compactBatchFields(b) ==
    IF /\ Len(b) > 1
       /\ b[1].term = b[Len(b)].term
       /\ b[1].index + Len(b) - 1 = b[Len(b)].index
    THEN [i \in 1 .. Len(b) |-> IF i = 1 THEN b[1] ELSE [index |-> 0, term |-> 0]]
    ELSE b
restoreBatchFields(b) ==
    IF Len(b) > 1 /\ b[Len(b)].term = 0
    THEN [i \in 1 .. Len(b) |-> [index |-> b[1].index + i - 1, term |-> b[1].term]]
    ELSE b

\* batch.go getMergedFirstBatch: eb goes after what lb has before it.
mergeBatch(eb, lb) ==
    IF getBatchID(eb[1].index) = getBatchID(lb[1].index) /\ eb[1].index > lb[1].index
    THEN SelectSeq(lb, LAMBDA e : e.index < eb[1].index) \o eb
    ELSE eb

getEntryBatchFromDB(id) ==
    IF id \in DOMAIN kv.batch THEN restoreBatchFields(kv.batch[id]) ELSE <<>>

\* The batch the cache has last seen, or the one in the database.
getLastBatch(first) ==
    IF cache.batch = <<>> \/ getBatchID(first) < getBatchID(cache.batch[1].index)
    THEN getEntryBatchFromDB(getBatchID(first))
    ELSE cache.batch

getMergedFirstBatch(eb) ==
    LET lb == getLastBatch(eb[1].index)
    IN  IF eb[1].index % BatchSize = 0 \/ lb = <<>> THEN eb ELSE mergeBatch(eb, lb)

\* The batches recordEntries and recordEntryBatch put for these entries.
recordEntries(entries) ==
    LET first == getBatchID(entries[1].index)
        last == getBatchID(entries[Len(entries)].index)
        part(id) == SelectSeq(entries, LAMBDA e : getBatchID(e.index) = id)
    IN  [id \in first .. last |->
            IF id = first THEN getMergedFirstBatch(part(id)) ELSE part(id)]

-----------------------------------------------------------------------------
(* saveRaftState.                                                           *)

\* recordState: an empty state, and one the cache has, is not written.
stateToRecord(st) == st # NoState /\ cache.state # <<st>>

\* Mutant of maxToRecord: the index of the snapshot is not recorded.
MutEntries_maxToRecord(ud) ==
    IF ud.entries # <<>> THEN <<ud.entries[Len(ud.entries)].index>> ELSE <<>>

\* setMaxIndex, for the snapshot and then for the entries.
maxToRecord(ud) ==
    IF ud.entries # <<>> THEN <<ud.entries[Len(ud.entries)].index>>
    ELSE IF ud.snap # NoSnapshot THEN <<ud.snap.index>> ELSE <<>>

With(f, k, v) == [x \in DOMAIN f \cup {k} |-> IF x = k THEN v ELSE f[x]]

saveRaftState(ud) ==
    LET batches == IF ud.entries = <<>> THEN <<>> ELSE recordEntries(ud.entries)
        max == maxToRecord(ud)
        last == Max(DOMAIN batches)
    IN  /\ kv' = [batch |-> [id \in DOMAIN kv.batch \cup DOMAIN batches |->
                                IF id \in DOMAIN batches THEN compactBatchFields(batches[id])
                                ELSE kv.batch[id]],
                  max |-> IF max = <<>> THEN kv.max ELSE max,
                  state |-> IF stateToRecord(ud.state) THEN <<ud.state>> ELSE kv.state,
                  snaps |-> IF ud.snap = NoSnapshot THEN kv.snaps
                            ELSE With(kv.snaps, ud.snap.index, ud.snap.term)]
        /\ cache' = [batch |-> IF DOMAIN batches = {} THEN cache.batch ELSE batches[last],
                     max |-> IF max = <<>> THEN cache.max ELSE max,
                     state |-> IF stateToRecord(ud.state) THEN <<ud.state>> ELSE cache.state]

-----------------------------------------------------------------------------
(* Reading, with a cache c.                                                 *)

readMaxIndex(c) == IF c.max # <<>> THEN c.max ELSE kv.max

\* iterateEntryBatches: the batches low .. high - 1, up to the first missing.
iterateEntryBatches(low, high) ==
    LET there == {id \in low .. high - 1 : \A i \in low .. id : i \in DOMAIN kv.batch}
    IN  FlattenSeq([i \in 1 .. Cardinality(there) |-> getEntryBatchFromDB(low + i - 1)])

\* Mutant of iterateEntries: the entry that exceeds maxSize is left out, were it
\* the only one.
MutFirst_iterateEntries(low, high, maxSize) ==
    LET max == readMaxIndex(cache)
        top == Min({high, max[1] + 1})
        range == getBatchIDRange(low, top)
        found == SelectSeq(iterateEntryBatches(range[1], range[2]),
                           LAMBDA e : e.index >= low /\ e.index < top)
        n == Cardinality({k \in 1 .. Len(found) :
                 k <= maxSize /\ \A i \in 1 .. k : found[i].index = low + i - 1})
    IN  IF max = <<>> THEN <<>> ELSE SubSeq(found, 1, n)

\* iterateEntries, an entry counting 1 towards maxSize: the entries and their size.
iterateEntries(low, high, maxSize) ==
    LET max == readMaxIndex(cache)
        top == Min({high, max[1] + 1})
        range == getBatchIDRange(low, top)
        found == SelectSeq(iterateEntryBatches(range[1], range[2]),
                           LAMBDA e : e.index >= low /\ e.index < top)
        \* the entries up to the first that does not follow, or exceeds maxSize
        n == Cardinality({k \in 1 .. Len(found) :
                 k <= maxSize + 1 /\ \A i \in 1 .. k : found[i].index = low + i - 1})
    IN  IF max = <<>> THEN <<>> ELSE SubSeq(found, 1, n)

ErrCompacted == [err |-> "compacted", entries |-> <<>>]
ErrUnavailable == [err |-> "unavailable", entries |-> <<>>]

lastIndex(r) == r.marker + r.length - 1

entriesLocked(r, low, high, maxSize) ==
    LET ents == iterateEntries(low, high, maxSize)
    IN  IF low <= r.marker THEN ErrCompacted
        ELSE IF high > lastIndex(r) + 1 THEN ErrUnavailable
        ELSE IF Len(ents) = high - low \/ Len(ents) > maxSize
        THEN [err |-> "", entries |-> ents]
        ELSE IF ents = <<>> \/ lastIndex(r) <= low + Len(ents) THEN ErrUnavailable
        ELSE [err |-> "gap", entries |-> <<>>]

Entries(low, high, maxSize) ==
    LET got == entriesLocked(reader, low, high, maxSize)
        n == Len(got.entries)
    IN  IF got.err = "" /\ n > maxSize /\ n > 1
        THEN [got EXCEPT !.entries = SubSeq(@, 1, IF maxSize > 0 THEN n - 1 ELSE 1)]
        ELSE got

Term(r, index) ==
    LET got == entriesLocked(r, index, index + 1, 0)
    IN  IF index = r.marker THEN [err |-> "", term |-> r.term]
        ELSE [err |-> got.err, term |-> IF got.entries = <<>> THEN 0 ELSE got.entries[1].term]

\* getEntryRange, as read after a restart: first index and number of entries.
getEntryRange(from) ==
    LET range == getBatchIDRange(from, kv.max[1] + 1)
        ids == {id \in DOMAIN kv.batch : id >= range[1] /\ id < range[2]}
        found == SelectSeq(FlattenSeq([i \in 1 .. Cardinality(ids) |->
                     getEntryBatchFromDB(SetToSortSeq(ids, <)[i])]),
                     LAMBDA e : e.index >= from /\ e.index <= kv.max[1])
    IN  IF kv.max = <<>> THEN <<from, 0>>
        ELSE IF found = <<>> THEN <<0, 0>> ELSE <<found[1].index, Len(found)>>

-----------------------------------------------------------------------------
(* LogReader.                                                               *)

NewReader == [marker |-> 0, term |-> 0, length |-> 1, snap |-> NoSnapshot, state |-> NoState]

ApplySnapshot(r, ss) ==
    IF r.snap.index >= ss.index THEN r
    ELSE [r EXCEPT !.snap = ss, !.marker = ss.index, !.term = ss.term, !.length = 1]

\* SetRange: the reader, or <<>> for panic("missing log entry").
SetRange(r, firstIndex, length) ==
    LET first == r.marker + 1
        cut == IF first > firstIndex THEN first - firstIndex ELSE 0
        offset == firstIndex + cut - r.marker
    IN  IF length = 0 \/ firstIndex + length - 1 < first THEN <<r>>
        ELSE IF r.length >= offset THEN <<[r EXCEPT !.length = offset + length - cut]>>
        ELSE <<>>

\* replayLog.
MostRecent ==
    IF DOMAIN kv.snaps = {} THEN NoSnapshot
    ELSE [index |-> Max(DOMAIN kv.snaps), term |-> kv.snaps[Max(DOMAIN kv.snaps)]]
Replayed ==
    LET r == ApplySnapshot(NewReader, MostRecent)
        range == getEntryRange(MostRecent.index)
    IN  IF kv.state = <<>> THEN <<r>>  \* ErrNoSavedLog
        ELSE SetRange([r EXCEPT !.state = kv.state[1]], range[1], range[2])

-----------------------------------------------------------------------------
(* What raft may ask to be saved, given what it has had saved.              *)

lastSaved == history.base.index + Len(history.log)
termSaved(i) == IF i <= history.base.index THEN history.base.term
                ELSE history.log[i - history.base.index]

\* Terms of n entries after an entry of term t.
Terms(t, n) ==
    {s \in [1 .. n -> t .. LastTerm] : \A i \in 1 .. n - 1 : s[i] <= s[i + 1]}

\* Entries after the last one or over uncommitted ones, Burst at most; the
\* commit index stays or comes up to them.
Appends ==
    UNION {UNION {
        {[state |-> [term |-> Max({history.state.term} \cup Range(s)), commit |-> c],
          snap |-> NoSnapshot,
          entries |-> [i \in 1 .. n |-> [index |-> f + i - 1, term |-> s[i]]]] :
             c \in {history.state.commit, f + n - 1}, s \in Terms(Max({termSaved(f - 1), 1}), n)} :
        n \in 0 .. Min({Burst, LastIndex - f + 1})} :
        f \in history.state.commit + 1 .. lastSaved + 1} \ {[NoUpdate EXCEPT !.state = history.state]}

\* A snapshot of the leader, and perhaps the entry after it.
Installs ==
    UNION {
        {[state |-> [term |-> Max({history.state.term, t}), commit |-> i],
          snap |-> [index |-> i, term |-> t],
          entries |-> SubSeq(<<[index |-> i + 1, term |-> t]>>, 1, n)] :
             n \in 0 .. Min({1, LastIndex - i})} :
        t \in Max({termSaved(history.state.commit), 1}) .. LastTerm,
        i \in history.state.commit + 1 .. LastIndex}

Recorded(ud) ==
    LET h == IF ud.snap = NoSnapshot THEN history
             ELSE [history EXCEPT !.base = ud.snap, !.log = <<>>]
        n == IF ud.entries = <<>> THEN 0 ELSE ud.entries[1].index - h.base.index - 1
    IN  [h EXCEPT !.state = ud.state, !.updates = @ + 1,
                  !.log = IF ud.entries = <<>> THEN @
                          ELSE SubSeq(@, 1, n) \o [i \in 1 .. Len(ud.entries) |-> ud.entries[i].term]]

-----------------------------------------------------------------------------
(* Steps.                                                                   *)

LogDBInit ==
    /\ kv = [batch |-> <<>>, max |-> <<>>, state |-> <<>>, snaps |-> <<>>]
    /\ cache = [batch |-> <<>>, max |-> <<>>, state |-> <<>>]
    /\ reader = NewReader
    /\ update = <<>> /\ taking = NotTaking /\ compactTo = 0 /\ tasks = <<>>
    /\ history = [base |-> NoSnapshot, log |-> <<>>, state |-> NoState, updates |-> 0]
    /\ panicked = FALSE

\* execNodes: SaveRaftState.
Persist(ud) ==
    /\ update = <<>> /\ ~panicked /\ history.updates < MaxUpdates
    /\ saveRaftState(ud)
    /\ update' = <<ud>>
    /\ history' = Recorded(ud)
    /\ UNCHANGED <<reader, taking, compactTo, tasks, panicked>>

\* applySnapshot and Append: the reader, or <<>> for a panic.
Appended(ud) ==
    LET r == ApplySnapshot(reader, ud.snap)
    IN  IF ud.entries = <<>> THEN <<r>> ELSE SetRange(r, ud.entries[1].index, Len(ud.entries))

\* LogReader.Compact; an index below the marker is no error for compactLog.
Compacted(r, to) ==
    IF to < r.marker THEN <<r>>
    ELSE IF to > lastIndex(r) \/ Term(r, to).err # "" THEN <<>>
    ELSE <<[r EXCEPT !.marker = to, !.term = Term(r, to).term, !.length = @ - (to - r.marker)]>>

\* rangedEntryOp: the ids below that of the index less 1.
RangeOfRemoval(to) == 0 .. getBatchID(to) - 2

\* snapshotter.Compaction.
DroppedSnapshots(to) ==
    {i \in DOMAIN kv.snaps : i < to /\ Cardinality({j \in DOMAIN kv.snaps : j > i}) >= ToKeep}

\* Compaction of the snapshots and RemoveEntriesTo: of the range, the files
\* that lie in it as a whole go at once, the rest when the task runs.
Removed(to) ==
    /\ \E gone \in SUBSET (DOMAIN kv.batch \cap RangeOfRemoval(to)) :
          kv' = [kv EXCEPT !.batch = [id \in DOMAIN @ \ gone |-> @[id]],
                           !.snaps = [i \in DOMAIN @ \ DroppedSnapshots(to) |-> @[i]]]
    /\ tasks' = <<to>>

\* The rest of the iteration: the reader learns of the update, compactLog runs
\* unless recoverFromSnapshot has the lock, a snapshot may be requested.
ProcessUpdate(locked) ==
    LET r == Appended(update[1])
        compacted == IF compactTo = 0 \/ locked THEN r ELSE Compacted(r[1], compactTo)
    IN  /\ update # <<>> /\ ~panicked
        /\ update' = <<>> /\ compactTo' = 0
        /\ \/ /\ r = <<>> \/ compacted = <<>> \/ (tasks # <<>> /\ compactTo \in 1 .. tasks[1] - 1)
              /\ panicked' = TRUE /\ UNCHANGED <<kv, reader, taking, tasks>>
           \/ /\ r # <<>> /\ compacted # <<>> /\ ~(tasks # <<>> /\ compactTo \in 1 .. tasks[1] - 1)
              /\ reader' = compacted[1]
              /\ IF compactTo = 0 \/ locked THEN UNCHANGED <<kv, tasks>> ELSE Removed(compactTo)
              /\ \/ UNCHANGED taking
                 \/ /\ taking.at = "idle" /\ history.state.commit > reader'.snap.index
                    /\ taking' = [at |-> "asked", index |-> history.state.commit,
                                  term |-> termSaved(history.state.commit)]
              /\ UNCHANGED panicked
        /\ UNCHANGED <<cache, history>>

\* node.saveSnapshot, up to the files.
StartSnapshot ==
    /\ taking.at = "asked"
    /\ taking' = IF taking.index <= reader.snap.index THEN NotTaking
                 ELSE [taking EXCEPT !.at = "written"]
    /\ UNCHANGED <<kv, cache, reader, update, compactTo, tasks, history, panicked>>

\* saveToLogDB.
RecordSnapshot ==
    /\ taking.at = "written"
    /\ kv' = [kv EXCEPT !.snaps = With(@, taking.index, taking.term)]
    /\ taking' = [taking EXCEPT !.at = "recorded"]
    /\ UNCHANGED <<cache, reader, update, compactTo, tasks, history, panicked>>

\* CreateSnapshot and setCompactLogTo.
CreateSnapshot ==
    /\ taking.at = "recorded"
    /\ taking' = NotTaking
    /\ IF reader.snap.index >= taking.index THEN UNCHANGED <<reader, compactTo>>
       ELSE /\ reader' = [reader EXCEPT !.snap = [index |-> taking.index, term |-> taking.term]]
            /\ compactTo' = IF taking.index > Overhead THEN taking.index - Overhead ELSE compactTo
    /\ UNCHANGED <<kv, cache, update, tasks, history, panicked>>

\* The compaction worker.
RunCompaction ==
    /\ tasks # <<>>
    /\ tasks' = <<>>
    /\ kv' = [kv EXCEPT !.batch = [id \in DOMAIN @ \ RangeOfRemoval(tasks[1]) |-> @[id]]]
    /\ UNCHANGED <<cache, reader, update, taking, compactTo, history, panicked>>

\* The process dies, and replayLog starts it again.
Crash ==
    /\ ~panicked
    /\ cache' = [batch |-> <<>>, max |-> <<>>, state |-> <<>>]
    /\ IF Replayed = <<>> THEN panicked' = TRUE /\ UNCHANGED reader
       ELSE reader' = Replayed[1] /\ UNCHANGED panicked
    /\ update' = <<>> /\ taking' = NotTaking /\ compactTo' = 0 /\ tasks' = <<>>
    /\ UNCHANGED <<kv, history>>

LogDBNext ==
    \/ \E ud \in Appends \cup Installs : Persist(ud)
    \/ \E locked \in BOOLEAN : ProcessUpdate(locked)
    \/ StartSnapshot \/ RecordSnapshot \/ CreateSnapshot
    \/ RunCompaction \/ Crash

-----------------------------------------------------------------------------
(* Properties.                                                              *)

\* The log as raft was told it is durable, indexes low .. high - 1.
Told(low, high) == [i \in 1 .. high - low |-> [index |-> low + i - 1, term |-> termSaved(low + i - 1)]]

\* Between two iterations of the step worker the LogReader gives raft exactly
\* the entries that were saved, however they are spread over batches, merged
\* with what was there before, cached or partly removed: all that were asked
\* for, or the first of them that fit maxSize, but at least one.
EntriesAreTrue ==
    update = <<>> /\ ~panicked =>
        /\ lastIndex(reader) = lastSaved
        /\ \A low \in reader.marker + 1 .. lastSaved : \A high \in low + 1 .. lastSaved + 1 :
              \A maxSize \in {0, 1, LastIndex} :
                 Entries(low, high, maxSize) =
                     [err |-> "", entries |-> Told(low, Min({high, low + Max({1, maxSize})}))]
        /\ \A i \in reader.marker .. lastSaved :
              i > 0 => Term(reader, i) = [err |-> "", term |-> termSaved(i)]

\* If the process died now, replayLog would find what raft was told is durable:
\* the state, the log up to its last entry, and a snapshot or the log's start
\* below the commit index, as loadState demands.
RestartsWhereItStopped ==
    LET r == Replayed[1]
    IN  ~panicked /\ history.state # NoState =>
            /\ Replayed # <<>>
            /\ r.state = history.state
            /\ lastIndex(r) = lastSaved
            /\ r.marker >= history.base.index /\ r.marker <= r.state.commit
            /\ \A i \in r.marker + 1 .. lastSaved :
                  \E id \in DOMAIN kv.batch :
                     \E k \in 1 .. Len(kv.batch[id]) :
                        getEntryBatchFromDB(id)[k] = [index |-> i, term |-> termSaved(i)]

\* The panics the database and the LogReader have in store do not happen: no
\* entry is missing, no index to compact to is unknown, no task goes back.
NeverPanics == ~panicked

\* The log of a running node is the one it has saved, and reading it is safe.
ReadsAreTrue == NeverPanics /\ EntriesAreTrue

=============================================================================
