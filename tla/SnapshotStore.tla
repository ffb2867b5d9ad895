---------------------------- MODULE SnapshotStore ---------------------------
(***************************************************************************)
(* The snapshots of one raft node on disk: directories, flag files and the *)
(* records in the log database (snapshotter.go, server/snapshotenv.go,     *)
(* fileutil/flagfile.go), written by the snapshot worker (node.saveSnapshot*)
(* in node.go), by the receiving side of the transport, one chunk at a     *)
(* time (transport/chunks.go), and by the step worker that installs a      *)
(* received one (execNodes).  The process may die between any two steps;   *)
(* ProcessOrphans tidies up when the node starts.                          *)
(*                                                                         *)
(* A snapshot is made in a temporary directory, gets a flag file there, is *)
(* renamed to its final directory, recorded, and loses the flag.           *)
(***************************************************************************)
EXTENDS Integers, Sequences, FiniteSets, FiniteSetsExt

CONSTANTS Senders,     \* the nodes snapshots come from, each on one connection
          MaxSnapshot, \* snapshots have indexes 1 .. MaxSnapshot
          Chunks,      \* chunks of a snapshot
          KeepSnapshots, \* snapshotsToKeep
          CompactionOverhead,
          MaxDeaths

ASSUME SnapshotStoreAssumption ==
    /\ MaxSnapshot \in Nat \ {0} /\ Chunks \in Nat \ {0}
    /\ KeepSnapshots \in Nat \ {0} /\ CompactionOverhead \in Nat /\ MaxDeaths \in Nat

VARIABLES
    dirs,     \* directory name to content
    records,  \* indexes recorded in the log database
    local,    \* the snapshot worker: how far it is, and the index
    tracked,  \* per connection, index to the number of the next chunk
    incoming, \* InstallSnapshot messages for the node, by index
    install,  \* the step worker with a received snapshot: how far, and the index
    logTo,    \* compactLogTo of the node
    dropping, \* what a running Compaction has still to delete
    known,    \* index of the snapshot the log reader knows
    applied,  \* index applied by the state machine
    running,  \* the node is started
    deaths

storeVars == <<dirs, records, local, tracked, incoming, install, logTo, dropping, known, applied, running, deaths>>
indexVars == <<logTo, dropping, known, applied>>
lifeVars == <<running, deaths>>

SnapshotIndexes == 1 .. MaxSnapshot
Gen(i) == <<"gen", i>>
Recv(s, i) == <<"recv", i, s>>
Final(i) == <<"final", i>>

\* A directory: the chunks of the snapshot file it has, in order, and the flag.
WholeFile == [k \in 1 .. Chunks |-> k - 1]
IsThere(d) == d \in DOMAIN dirs
Put(d, content) == [x \in DOMAIN dirs \cup {d} |-> IF x = d THEN content ELSE dirs[x]]
Without(gone) == [x \in DOMAIN dirs \ gone |-> dirs[x]]
Renamed(from, to) ==
    [x \in (DOMAIN dirs \ {from}) \cup {to} |-> IF x = to THEN dirs[from] ELSE dirs[x]]
HasFlag(d) == IsThere(d) /\ dirs[d].flag

Idle == [at |-> "idle", index |-> 0]
NoTracked == [s \in Senders |-> <<>>]
Latest == IF records = {} THEN 0 ELSE Max(records)

StoreInit ==
    /\ dirs = <<>> /\ records = {} /\ local = Idle /\ tracked = NoTracked
    /\ incoming = {} /\ install = Idle
    /\ logTo = 0 /\ dropping = {} /\ known = 0 /\ applied = 0
    /\ running = TRUE /\ deaths = 0

\* The node applies another entry.
Advance ==
    /\ running /\ install.at = "idle" /\ applied < MaxSnapshot
    /\ applied' = applied + 1
    /\ UNCHANGED <<dirs, records, local, tracked, incoming, install, logTo, dropping, known, lifeVars>>

-----------------------------------------------------------------------------
(* The snapshot worker: Save and Commit.                                    *)

\* CreateTempDir.
SaveLocal ==
    /\ running /\ local.at = "idle" /\ applied > known
    /\ dirs' = Put(Gen(applied), [file |-> <<>>, flag |-> FALSE])
    /\ local' = [at |-> "saving", index |-> applied]
    /\ UNCHANGED <<records, tracked, incoming, install, indexVars, lifeVars>>

\* SaveSnapshot of the state machine, and CreateFlagFile.
WriteLocal ==
    /\ local.at = "saving"
    /\ dirs' = Put(Gen(local.index), [file |-> WholeFile, flag |-> TRUE])
    /\ local' = [local EXCEPT !.at = "flagged"]
    /\ UNCHANGED <<records, tracked, incoming, install, indexVars, lifeVars>>

\* IsFinalDirExists and RenameTempDirToFinalDir; errSnapshotOutOfDate makes
\* saveSnapshot remove the temporary directory.
RenameLocal ==
    /\ local.at = "flagged"
    /\ IF IsThere(Final(local.index))
       THEN dirs' = Without({Gen(local.index)}) /\ local' = Idle
       ELSE dirs' = Renamed(Gen(local.index), Final(local.index)) /\ local' = [local EXCEPT !.at = "renamed"]
    /\ UNCHANGED <<records, tracked, incoming, install, indexVars, lifeVars>>

\* saveToLogDB.
RecordLocal ==
    /\ local.at = "renamed"
    /\ records' = records \cup {local.index}
    /\ local' = [local EXCEPT !.at = "recorded"]
    /\ UNCHANGED <<dirs, tracked, incoming, install, indexVars, lifeVars>>

Unflag(d) == IF IsThere(d) THEN [dirs EXCEPT ![d].flag = FALSE] ELSE dirs

\* RemoveFlagFile; then CreateSnapshot of the log reader, which refuses a
\* snapshot that is not newer, and setCompactLogTo.
UnflagLocal ==
    /\ local.at = "recorded"
    /\ dirs' = Unflag(Final(local.index))
    /\ local' = Idle
    /\ known' = Max({known, local.index})
    /\ logTo' = IF local.index > known /\ local.index > CompactionOverhead
                THEN local.index - CompactionOverhead ELSE logTo
    /\ UNCHANGED <<records, tracked, incoming, install, dropping, applied, lifeVars>>

-----------------------------------------------------------------------------
(* Receiving: addChunk, for the chunks of one connection in their order.    *)

\* What onNewChunk and saveChunk leave in the temporary directory.
Saved(s, i, k) ==
    IF k = 0 THEN [file |-> <<0>>, flag |-> FALSE]
    ELSE [dirs[Recv(s, i)] EXCEPT !.file = Append(@, k)]

TrackedTo(s, i, next) ==
    [tracked EXCEPT ![s] = [x \in DOMAIN @ \cup {i} |-> IF x = i THEN next ELSE @[x]]]
NotTracked(s, i) ==
    [tracked EXCEPT ![s] = [x \in DOMAIN @ \ {i} |-> @[x]]]

\* finalizeSnapshotFile, for the last chunk, and what addChunk does after it.
Finalized(s, i) ==
    /\ tracked' = NotTracked(s, i)
    /\ IF IsThere(Final(i))
       THEN /\ dirs' = Without({Recv(s, i)})
            /\ incoming' = IF running /\ HasFlag(Final(i)) THEN incoming \cup {i} ELSE incoming
       ELSE /\ dirs' = [x \in (DOMAIN dirs \ {Recv(s, i)}) \cup {Final(i)} |->
                           IF x = Final(i) THEN [Saved(s, i, Chunks - 1) EXCEPT !.flag = TRUE]
                           ELSE dirs[x]]
            /\ incoming' = IF running THEN incoming \cup {i} ELSE incoming

\* The process is gone, and with it what it knew.
Dead ==
    /\ local' = Idle /\ install' = Idle /\ tracked' = NoTracked
    /\ incoming' = {} /\ logTo' = 0 /\ dropping' = {} /\ known' = Latest
    /\ applied' = Max({applied, Latest})
    /\ running' = FALSE /\ deaths' = deaths + 1

\* A chunk that does not follow is ignored; one whose file is gone panics.
AddChunk(s, i, k) ==
    LET next == IF i \in DOMAIN tracked[s] THEN tracked[s][i] ELSE 0
    IN  /\ k = 0 \/ next = k
        /\ IF k > 0 /\ ~IsThere(Recv(s, i))
           THEN deaths < MaxDeaths /\ Dead /\ UNCHANGED <<dirs, records>>
           ELSE /\ IF k + 1 = Chunks THEN Finalized(s, i)
                   ELSE /\ dirs' = Put(Recv(s, i), Saved(s, i, k))
                        /\ tracked' = TrackedTo(s, i, k + 1)
                        /\ UNCHANGED incoming
                /\ UNCHANGED <<records, local, install, indexVars, lifeVars>>

\* Close, when the connection is lost, and gc, when no chunk has come for long.
CloseConnection(s) ==
    /\ DOMAIN tracked[s] # {}
    /\ dirs' = Without({Recv(s, i) : i \in DOMAIN tracked[s]})
    /\ tracked' = [tracked EXCEPT ![s] = <<>>]
    /\ UNCHANGED <<records, local, incoming, install, indexVars, lifeVars>>

GC(s, i) ==
    /\ i \in DOMAIN tracked[s]
    /\ dirs' = Without({Recv(s, i)})
    /\ tracked' = NotTracked(s, i)
    /\ UNCHANGED <<records, local, incoming, install, indexVars, lifeVars>>

-----------------------------------------------------------------------------
(* The step worker: a snapshot beyond the committed index is installed.     *)

HandleInstall(i) ==
    /\ running /\ i \in incoming /\ install.at = "idle" /\ dropping = {}
    /\ incoming' = incoming \ {i}
    /\ install' = IF i > applied THEN [at |-> "restored", index |-> i] ELSE install
    /\ UNCHANGED <<dirs, records, local, tracked, indexVars, lifeVars>>

\* SaveRaftState.
RecordInstall ==
    /\ install.at = "restored"
    /\ records' = records \cup {install.index}
    /\ install' = [install EXCEPT !.at = "recorded"]
    /\ UNCHANGED <<dirs, local, tracked, incoming, indexVars, lifeVars>>

\* onSnapshotSaved; ApplySnapshot of the log reader and of the state machine.
UnflagInstall ==
    /\ install.at = "recorded"
    /\ dirs' = Unflag(Final(install.index))
    /\ install' = Idle
    /\ known' = install.index /\ applied' = install.index
    /\ UNCHANGED <<records, local, tracked, incoming, logTo, dropping, lifeVars>>

\* What snapshotter.Compaction deletes: older than the KeepSnapshots last ones.
Superseded(upTo) ==
    {i \in records : i < upTo /\ Cardinality({j \in records : j > i}) >= KeepSnapshots}

\* compactLog, in the step worker; snapshotLock is taken while a snapshot is
\* being recovered from, and then nothing is compacted.
CompactSnapshots(locked) ==
    /\ running /\ install.at = "idle" /\ dropping = {} /\ logTo # 0
    /\ logTo' = 0
    /\ dropping' = IF locked THEN {} ELSE Superseded(logTo)
    /\ UNCHANGED <<dirs, records, local, tracked, incoming, install, known, applied, lifeVars>>

\* DeleteSnapshot, then RemoveFinalDir, from the oldest on.
IsNextToDrop(i) == i \in dropping /\ \A j \in dropping : i <= j

DropRecord ==
    /\ \E i \in records : IsNextToDrop(i) /\ records' = records \ {i}
    /\ UNCHANGED <<dirs, local, tracked, incoming, install, indexVars, lifeVars>>

DropDir ==
    /\ \E i \in dropping \ records :
          /\ IsNextToDrop(i)
          /\ dirs' = Without({Final(i)})
          /\ dropping' = dropping \ {i}
    /\ UNCHANGED <<records, local, tracked, incoming, install, logTo, known, applied, lifeVars>>

-----------------------------------------------------------------------------
(* The process dies; the cluster is stopped; the node starts again.         *)

Die ==
    /\ deaths < MaxDeaths
    /\ Dead
    /\ UNCHANGED <<dirs, records>>

StopNode ==
    /\ running /\ local.at = "idle" /\ install.at = "idle" /\ dropping = {}
    /\ deaths < MaxDeaths
    /\ running' = FALSE /\ incoming' = {} /\ logTo' = 0 /\ known' = Latest
    /\ deaths' = deaths + 1
    /\ UNCHANGED <<dirs, records, local, tracked, install, dropping, applied>>

\* Mutant of IsOrphan: a directory with a flag is taken for unfinished.
MutFlag_IsOrphan(d) == d[1] = "final" /\ dirs[d].flag

IsOrphan(d) == d[1] = "final" /\ dirs[d].flag /\ d[2] # Latest
IsZombie(d) == d[1] \in {"gen", "recv"}

ProcessOrphans ==
    /\ ~running
    /\ running' = TRUE
    /\ dirs' = [d \in {x \in DOMAIN dirs : ~IsZombie(x) /\ ~IsOrphan(x)} |->
                   [dirs[d] EXCEPT !.flag = FALSE]]
    /\ UNCHANGED <<records, local, tracked, incoming, install, indexVars, deaths>>

StoreNext ==
    \/ Advance
    \/ SaveLocal \/ WriteLocal \/ RenameLocal \/ RecordLocal \/ UnflagLocal
    \/ \E s \in Senders, i \in SnapshotIndexes, k \in 0 .. Chunks - 1 : AddChunk(s, i, k)
    \/ \E s \in Senders : CloseConnection(s)
    \/ \E s \in Senders, i \in SnapshotIndexes : GC(s, i)
    \/ \E i \in incoming : HandleInstall(i)
    \/ RecordInstall \/ UnflagInstall
    \/ \E locked \in BOOLEAN : CompactSnapshots(locked)
    \/ DropRecord \/ DropDir \/ Die \/ StopNode \/ ProcessOrphans

StoreSpec == StoreInit /\ [][StoreNext]_storeVars

-----------------------------------------------------------------------------
(* Properties.                                                              *)

Complete(d) == IsThere(d) /\ dirs[d].file = WholeFile

\* Whenever the process dies, the most recent snapshot in the log database,
\* from which the node will start, has its directory, with all of its file.
LatestIsUsable == records # {} => Complete(Final(Latest))

\* A directory with a final name holds a whole snapshot: of the snapshot
\* worker and the connections, whoever renames first wins, and what the others
\* are writing never gets into it.
FinalIsWhole == \A d \in DOMAIN dirs : d[1] = "final" => Complete(d)

\* The snapshot raft has restored is on disk until it is recorded, and the
\* flag files that Commit and onSnapshotSaved remove are there: os.Remove of
\* a missing one would stop the process.
FlagsAreThere ==
    /\ install.at # "idle" => Complete(Final(install.index)) /\ HasFlag(Final(install.index))
    /\ local.at \in {"renamed", "recorded"} => HasFlag(Final(local.index))

\* The directories of a node serve it after any death of the process: it can
\* start from the latest snapshot, and no step on the way finds a file missing.
SnapshotsSurvive == LatestIsUsable /\ FinalIsWhole /\ FlagsAreThere

=============================================================================
