------------------------ MODULE SnapshotStoreProofs ------------------------
(***************************************************************************)
(* Proofs about SnapshotStore: for any number of senders, snapshots,       *)
(* chunks and deaths of the process, the directories of a node serve it    *)
(* whenever it starts.                                                     *)
(*                                                                         *)
(* SnapshotsSurvive is not inductive.  What it takes besides is where the  *)
(* indexes of the three writers lie.  A snapshot being saved is at or      *)
(* below what is applied and above what is to be compacted; one being      *)
(* installed, or waiting to be, is above what is applied; what Compaction  *)
(* still has to delete is below the latest record.  So no two of them work *)
(* on the same directory at the wrong moment.                              *)
(***************************************************************************)
EXTENDS SnapshotStore, TLAPS

\* The first k chunks of a snapshot file.
FirstChunks(k) == [j \in 1 .. k |-> j - 1]

DirContents == [file : Seq(Int), flag : BOOLEAN]
LocalStages == {"idle", "saving", "flagged", "renamed", "recorded"}
InstallStages == {"idle", "restored", "recorded"}

Typed ==
    /\ \A d \in DOMAIN dirs : dirs[d] \in DirContents
    /\ records \subseteq Nat /\ incoming \subseteq Nat /\ dropping \subseteq Nat
    /\ local \in [at : LocalStages, index : Nat]
    /\ install \in [at : InstallStages, index : Nat]
    /\ DOMAIN tracked = Senders
    /\ logTo \in Nat /\ known \in Nat /\ applied \in Nat
    /\ running \in BOOLEAN

\* What a connection has been told to expect next is what its file lacks.
TrackedIsSaved ==
    \A s \in Senders : \A i \in DOMAIN tracked[s] :
        /\ tracked[s][i] \in Nat
        /\ IsThere(Recv(s, i)) => dirs[Recv(s, i)].file = FirstChunks(tracked[s][i])

\* The snapshot worker: its snapshot is not newer than what is applied, newer
\* than what is to be compacted, and as far on disk as the worker believes.
LocalInPlace ==
    local.at # "idle" =>
        /\ running
        /\ local.index <= applied /\ logTo < local.index
        /\ \A j \in dropping : j < local.index
        /\ local.at = "flagged" => Complete(Gen(local.index)) /\ HasFlag(Gen(local.index))
        /\ local.at \in {"renamed", "recorded"} => HasFlag(Final(local.index))

\* The step worker: what it installs, or has a message about, is ahead of
\* what is applied and still flagged.
InstallInPlace ==
    /\ install.at # "idle" =>
          running /\ applied < install.index /\ HasFlag(Final(install.index))
    /\ \A i \in incoming : i > applied => HasFlag(Final(i))
    /\ ~running => incoming = {} /\ dropping = {}

\* The indexes of the log reader, of the compaction and of the records.
IndexesInOrder ==
    /\ logTo <= known /\ known <= applied
    /\ \A j \in dropping : j < known
    /\ \A r \in records : r <= applied \/ (install.at = "recorded" /\ r = install.index)

\* One of the records is the latest; it has its directory, and Compaction
\* deletes older ones only.
LatestIsKept ==
    /\ records # {} => \E m \in records : \A r \in records : r <= m
    /\ records # {} => IsThere(Final(Latest))
    /\ \A j \in dropping : records # {} /\ j < Latest

\* The inductive invariant.
StoreInv ==
    /\ Typed /\ TrackedIsSaved /\ FinalIsWhole
    /\ LocalInPlace /\ InstallInPlace /\ IndexesInOrder /\ LatestIsKept

-----------------------------------------------------------------------------
(* Numbers, names and files.                                                *)

\* A set without members has none to count.
LEMMA NoMembers == Cardinality({}) = 0
<1> DEFINE D == SUBSET {}
           Count(f, T) == IF T = {} THEN 0 ELSE 1 + f[T \ {CHOOSE x : x \in T}]
           CS == CHOOSE f : f = [T \in D |-> Count(f, T)]
           g == [T \in D |-> 0]
<1>1. \A T \in D : T = {}
  BY Zenon
<1>2. {} \in D
  BY Zenon
<1>3. g = [T \in D |-> Count(g, T)]
  BY <1>1, Zenon
<1>4. CS = [T \in D |-> Count(CS, T)]
  BY <1>3, Zenon
<1>5. CS[{}] = 0
  BY <1>2, <1>4, Zenon
<1>6. Cardinality({}) = CS[{}]
  BY Zenon DEF Cardinality
<1> QED BY <1>5, <1>6, Zenon

\* A set with a greatest element: Max returns it.
LEMMA MaxIsGreatest ==
    ASSUME NEW S \in SUBSET Nat, NEW m \in S, \A x \in S : x <= m
    PROVE  Max(S) = m
<1>1. \E x \in S : \A y \in S : x >= y
  BY Zenon
<1>2. Max(S) \in S /\ \A y \in S : Max(S) >= y
  BY <1>1, Zenon DEF Max
<1>3. Max(S) >= m
  BY <1>2, Zenon
<1>4. Max(S) <= m
  BY <1>2, Zenon
<1>5. Max(S) \in Nat
  BY <1>2, Zenon
<1> QED BY <1>3, <1>4, <1>5

\* Max of two numbers.
LEMMA MaxOfTwo ==
    ASSUME NEW a \in Nat, NEW b \in Nat
    PROVE  Max({a, b}) = IF a > b THEN a ELSE b
<1> DEFINE m == IF a > b THEN a ELSE b
<1>1. m \in {a, b} /\ \A x \in {a, b} : x <= m
  OBVIOUS
<1> HIDE DEF m
<1>2. Max({a, b}) = m
  BY <1>1, MaxIsGreatest, Zenon
<1> QED BY <1>2, Zenon DEF m

\* Latest is the greatest record.
LEMMA LatestIsGreatest ==
    ASSUME records \subseteq Nat, records # {} => \E m \in records : \A r \in records : r <= m
    PROVE  /\ Latest \in Nat
           /\ records # {} => Latest \in records
           /\ \A r \in records : r <= Latest
<1>1. CASE records = {}
  BY <1>1, Zenon DEF Latest
<1>2. CASE records # {}
  <2>1. PICK m \in records : \A r \in records : r <= m
    BY <1>2, Zenon
  <2>2. Max(records) = m
    BY <2>1, MaxIsGreatest, Zenon
  <2> QED BY <1>2, <2>1, <2>2, Zenon DEF Latest
<1> QED BY <1>1, <1>2, Zenon

\* The names of directories.
LEMMA NamesApart ==
    /\ \A i : Gen(i)[1] = "gen" /\ Final(i)[1] = "final"
    /\ \A i, s : Recv(s, i)[1] = "recv"
    /\ \A i, j : Gen(i) = Gen(j) => i = j
    /\ \A i, j : Final(i) = Final(j) => i = j
    /\ \A i, j, s, t : Recv(s, i) = Recv(t, j) => s = t /\ i = j
    /\ \A i, j : Gen(i) # Final(j)
    /\ \A i, j, s : Gen(i) # Recv(s, j) /\ Final(i) # Recv(s, j)
    /\ \A i : Final(i)[2] = i
BY Zenon DEF Gen, Final, Recv

\* A file grows by the chunk it lacks.
LEMMA OneMoreChunk ==
    ASSUME NEW k \in Nat
    PROVE  FirstChunks(k) \in Seq(Int) /\ Append(FirstChunks(k), k) = FirstChunks(k + 1)
BY DEF FirstChunks

LEMMA FewChunks ==
    FirstChunks(1) = <<0>> /\ FirstChunks(Chunks) = WholeFile
BY SnapshotStoreAssumption DEF FirstChunks, WholeFile

-----------------------------------------------------------------------------
(* Steps that leave the directories alone.                                  *)

LEMMA InvInit == StoreInit => StoreInv
BY DEF StoreInit, StoreInv, Typed, TrackedIsSaved, FinalIsWhole, LocalInPlace, InstallInPlace,
       IndexesInOrder, LatestIsKept, Idle, NoTracked, IsThere, LocalStages, InstallStages

\* Directories and connections as before: nothing new about what they hold.
LEMMA SameDirs ==
    ASSUME StoreInv, UNCHANGED <<dirs, tracked>>
    PROVE  TrackedIsSaved' /\ FinalIsWhole'
BY Zenon DEF StoreInv, TrackedIsSaved, FinalIsWhole, Complete, IsThere

LEMMA InvAdvance == StoreInv /\ Advance => StoreInv'
<1> SUFFICES ASSUME StoreInv, Advance PROVE StoreInv'
  BY Zenon
<1>1. TrackedIsSaved' /\ FinalIsWhole'
  BY SameDirs, Zenon DEF Advance
<1>2. Typed'
  BY DEF StoreInv, Typed, Advance, lifeVars
<1>3. LocalInPlace'
  BY DEF StoreInv, Typed, LocalInPlace, Advance, lifeVars, Complete, HasFlag, IsThere
<1>4. InstallInPlace'
  BY DEF StoreInv, Typed, InstallInPlace, Advance, lifeVars, HasFlag, IsThere
<1>5. IndexesInOrder'
  BY DEF StoreInv, Typed, IndexesInOrder, Advance
<1>6. LatestIsKept'
  BY Zenon DEF StoreInv, LatestIsKept, Advance, IsThere, Latest
<1> QED BY <1>1, <1>2, <1>3, <1>4, <1>5, <1>6, Zenon DEF StoreInv

LEMMA InvHandleInstall ==
    ASSUME NEW i, StoreInv, HandleInstall(i)
    PROVE  StoreInv'
<1>1. TrackedIsSaved' /\ FinalIsWhole'
  BY SameDirs, Zenon DEF HandleInstall
<1>2. Typed'
  BY Zenon DEF StoreInv, Typed, HandleInstall, lifeVars, indexVars, InstallStages
<1>3. LocalInPlace'
  BY Zenon DEF StoreInv, LocalInPlace, HandleInstall, lifeVars, indexVars, Complete, HasFlag, IsThere
<1>4. InstallInPlace'
  BY Zenon DEF StoreInv, Typed, InstallInPlace, HandleInstall, lifeVars, indexVars, HasFlag, IsThere
<1>5. IndexesInOrder'
  BY Zenon DEF StoreInv, IndexesInOrder, HandleInstall, indexVars
<1>6. LatestIsKept'
  BY Zenon DEF StoreInv, LatestIsKept, HandleInstall, indexVars, IsThere, Latest
<1> QED BY <1>1, <1>2, <1>3, <1>4, <1>5, <1>6, Zenon DEF StoreInv

\* Another record, of a snapshot that has its directory.
LEMMA OneMoreRecord ==
    ASSUME StoreInv, NEW i \in Nat, IsThere(Final(i)), records' = records \cup {i}, UNCHANGED <<dirs, dropping>>
    PROVE  LatestIsKept'
<1> DEFINE m == IF records = {} \/ Latest < i THEN i ELSE Latest
<1>1. /\ records \subseteq Nat /\ Latest \in Nat /\ (records # {} => Latest \in records)
      /\ \A r \in records : r <= Latest
  BY LatestIsGreatest, Zenon DEF StoreInv, Typed, LatestIsKept
<1>2. m \in records' /\ records' \subseteq Nat /\ \A r \in records' : r <= m
  BY <1>1
<1>3. (\A j \in dropping : j < m) /\ IsThere(Final(m))
  BY <1>1 DEF StoreInv, Typed, LatestIsKept
<1> HIDE DEF m
<1>4. Latest' = m
  BY <1>2, MaxIsGreatest, Zenon DEF Latest
<1> QED BY <1>2, <1>3, <1>4, Zenon DEF LatestIsKept, IsThere

LEMMA InvRecordLocal == StoreInv /\ RecordLocal => StoreInv'
<1> SUFFICES ASSUME StoreInv, RecordLocal PROVE StoreInv'
  BY Zenon
<1>1. TrackedIsSaved' /\ FinalIsWhole'
  BY SameDirs, Zenon DEF RecordLocal
<1>2. Typed'
  BY Zenon DEF StoreInv, Typed, RecordLocal, lifeVars, indexVars, LocalStages
<1>3. LocalInPlace'
  BY Zenon DEF StoreInv, Typed, LocalInPlace, RecordLocal, lifeVars, indexVars, Complete, HasFlag, IsThere
<1>4. InstallInPlace'
  BY Zenon DEF StoreInv, Typed, InstallInPlace, RecordLocal, lifeVars, indexVars, HasFlag, IsThere
<1>5. IndexesInOrder'
  BY Zenon DEF StoreInv, Typed, IndexesInOrder, LocalInPlace, RecordLocal, indexVars
<1>6. LatestIsKept'
  BY OneMoreRecord, Zenon DEF StoreInv, Typed, LocalInPlace, HasFlag, RecordLocal, indexVars
<1> QED BY <1>1, <1>2, <1>3, <1>4, <1>5, <1>6, Zenon DEF StoreInv

LEMMA InvRecordInstall == StoreInv /\ RecordInstall => StoreInv'
<1> SUFFICES ASSUME StoreInv, RecordInstall PROVE StoreInv'
  BY Zenon
<1>1. TrackedIsSaved' /\ FinalIsWhole'
  BY SameDirs, Zenon DEF RecordInstall
<1>2. Typed'
  BY Zenon DEF StoreInv, Typed, RecordInstall, lifeVars, indexVars, InstallStages
<1>3. LocalInPlace'
  BY Zenon DEF StoreInv, Typed, LocalInPlace, RecordInstall, lifeVars, indexVars, Complete, HasFlag, IsThere
<1>4. InstallInPlace'
  BY Zenon DEF StoreInv, Typed, InstallInPlace, RecordInstall, lifeVars, indexVars, HasFlag, IsThere
<1>5. IndexesInOrder'
  BY Zenon DEF StoreInv, Typed, IndexesInOrder, RecordInstall, indexVars
<1>6. LatestIsKept'
  BY OneMoreRecord, Zenon DEF StoreInv, Typed, InstallInPlace, HasFlag, RecordInstall, indexVars
<1> QED BY <1>1, <1>2, <1>3, <1>4, <1>5, <1>6, Zenon DEF StoreInv

\* What Compaction deletes is older than the latest record.
LEMMA SupersededIsOlder ==
    ASSUME StoreInv, NEW i \in Superseded(logTo)
    PROVE  i \in records /\ i < logTo /\ i < Latest
<1>1. i \in records /\ i < logTo /\ Cardinality({j \in records : j > i}) >= KeepSnapshots
  BY Zenon DEF Superseded
<1>2. {j \in records : j > i} # {}
  <2> SUFFICES ASSUME {j \in records : j > i} = {} PROVE FALSE
    BY Zenon
  <2>1. Cardinality({j \in records : j > i}) = 0
    BY NoMembers, Zenon
  <2> QED BY <1>1, <2>1, SnapshotStoreAssumption
<1>3. PICK j \in records : j > i
  BY <1>2, Zenon
<1>4. /\ records \subseteq Nat /\ Latest \in Nat /\ \A r \in records : r <= Latest
  BY LatestIsGreatest, Zenon DEF StoreInv, Typed, LatestIsKept
<1> QED BY <1>1, <1>3, <1>4

LEMMA InvCompactSnapshots ==
    ASSUME NEW locked \in BOOLEAN, StoreInv, CompactSnapshots(locked)
    PROVE  StoreInv'
<1>1. TrackedIsSaved' /\ FinalIsWhole'
  BY SameDirs, Zenon DEF CompactSnapshots
<1>2. \A j \in dropping' : j \in records /\ j < logTo /\ j < Latest
  BY SupersededIsOlder, Zenon DEF CompactSnapshots
<1>3. Typed'
  BY <1>2, Zenon DEF StoreInv, Typed, CompactSnapshots, lifeVars
<1>4. LocalInPlace'
  <2>1. local.at # "idle" => \A j \in dropping' : j < local.index
    <3>1. local.index \in Nat /\ logTo \in Nat /\ records \subseteq Nat
      BY Zenon DEF StoreInv, Typed
    <3>2. local.at # "idle" => logTo < local.index
      BY Zenon DEF StoreInv, LocalInPlace
    <3> SUFFICES ASSUME local.at # "idle", NEW j \in dropping' PROVE j < local.index
      BY Zenon
    <3>3. j \in Nat /\ j < logTo
      BY <1>2, <3>1, Zenon
    <3> QED BY <3>1, <3>2, <3>3
  <2> QED BY <2>1 DEF StoreInv, LocalInPlace, CompactSnapshots, lifeVars, Complete, HasFlag, IsThere, Typed
<1>5. InstallInPlace'
  BY Zenon DEF StoreInv, Typed, InstallInPlace, CompactSnapshots, lifeVars, HasFlag, IsThere
<1>6. IndexesInOrder'
  <2>1. \A j \in dropping' : j < known
    <3>1. known \in Nat /\ logTo \in Nat /\ records \subseteq Nat /\ logTo <= known
      BY Zenon DEF StoreInv, Typed, IndexesInOrder
    <3> SUFFICES ASSUME NEW j \in dropping' PROVE j < known
      BY Zenon
    <3>2. j \in Nat /\ j < logTo
      BY <1>2, <3>1, Zenon
    <3> QED BY <3>1, <3>2
  <2> QED BY <2>1 DEF StoreInv, Typed, IndexesInOrder, CompactSnapshots
<1>7. LatestIsKept'
  BY <1>2, Zenon DEF StoreInv, LatestIsKept, CompactSnapshots, IsThere, Latest
<1> QED BY <1>1, <1>3, <1>4, <1>5, <1>6, <1>7, Zenon DEF StoreInv

LEMMA InvDropRecord == StoreInv /\ DropRecord => StoreInv'
<1> SUFFICES ASSUME StoreInv, DropRecord PROVE StoreInv'
  BY Zenon
<1>1. TrackedIsSaved' /\ FinalIsWhole'
  BY SameDirs, Zenon DEF DropRecord
<1>2. Typed'
  BY Zenon DEF StoreInv, Typed, DropRecord, lifeVars, indexVars
<1>3. LocalInPlace'
  BY Zenon DEF StoreInv, Typed, LocalInPlace, DropRecord, lifeVars, indexVars, Complete, HasFlag, IsThere
<1>4. InstallInPlace'
  BY Zenon DEF StoreInv, Typed, InstallInPlace, DropRecord, lifeVars, indexVars, HasFlag, IsThere
<1>5. IndexesInOrder'
  BY Zenon DEF StoreInv, Typed, IndexesInOrder, DropRecord, indexVars
<1>6. LatestIsKept'
  <2>1. /\ records \subseteq Nat /\ Latest \in Nat /\ (records # {} => Latest \in records)
        /\ \A r \in records : r <= Latest
    BY LatestIsGreatest, Zenon DEF StoreInv, Typed, LatestIsKept
  <2>2. PICK x \in records : x \in dropping /\ records' = records \ {x}
    BY Zenon DEF DropRecord, IsNextToDrop
  <2>3. x \in Nat /\ x < Latest
    BY <2>1, <2>2, Zenon DEF StoreInv, LatestIsKept
  <2>4. Latest \in records' /\ records' \subseteq Nat /\ \A r \in records' : r <= Latest
    BY <2>1, <2>2, <2>3
  <2>5. Latest' = Latest
    BY <2>4, MaxIsGreatest, Zenon DEF Latest
  <2> QED BY <2>4, <2>5, Zenon DEF StoreInv, LatestIsKept, DropRecord, indexVars, IsThere
<1> QED BY <1>1, <1>2, <1>3, <1>4, <1>5, <1>6, Zenon DEF StoreInv

\* The process dies, in any of its steps.
LEMMA InvDead ==
    ASSUME StoreInv, Dead, UNCHANGED <<dirs, records>>
    PROVE  StoreInv'
<1>1. /\ records \subseteq Nat /\ Latest \in Nat /\ (records # {} => Latest \in records)
      /\ \A r \in records : r <= Latest
  BY LatestIsGreatest, Zenon DEF StoreInv, Typed, LatestIsKept
<1>2. applied' \in Nat /\ applied' >= applied /\ applied' >= Latest
  BY <1>1, MaxOfTwo DEF StoreInv, Typed, Dead
<1>3. TrackedIsSaved' /\ FinalIsWhole'
  BY DEF StoreInv, TrackedIsSaved, FinalIsWhole, Complete, IsThere, Dead, NoTracked
<1>4. Typed'
  BY <1>1, <1>2, Zenon DEF StoreInv, Typed, Dead, Idle, NoTracked, LocalStages, InstallStages
<1>5. LocalInPlace' /\ InstallInPlace'
  BY Zenon DEF LocalInPlace, InstallInPlace, Dead, Idle
<1>6. IndexesInOrder'
  BY <1>1, <1>2 DEF IndexesInOrder, Dead
<1>7. LatestIsKept'
  BY Zenon DEF StoreInv, LatestIsKept, Dead, IsThere, Latest
<1> QED BY <1>3, <1>4, <1>5, <1>6, <1>7, Zenon DEF StoreInv

LEMMA InvStopNode == StoreInv /\ StopNode => StoreInv'
<1> SUFFICES ASSUME StoreInv, StopNode PROVE StoreInv'
  BY Zenon
<1>1. /\ records \subseteq Nat /\ Latest \in Nat /\ (records # {} => Latest \in records)
      /\ \A r \in records : r <= Latest
  BY LatestIsGreatest, Zenon DEF StoreInv, Typed, LatestIsKept
<1>2. TrackedIsSaved' /\ FinalIsWhole'
  BY SameDirs, Zenon DEF StopNode
<1>3. Typed'
  BY <1>1, Zenon DEF StoreInv, Typed, StopNode
<1>4. LocalInPlace' /\ InstallInPlace'
  BY Zenon DEF StoreInv, LocalInPlace, InstallInPlace, StopNode
<1>5. IndexesInOrder'
  <2>1. Latest <= applied
    BY <1>1 DEF StoreInv, Typed, IndexesInOrder, StopNode, Latest
  <2> QED BY <1>1, <2>1 DEF StoreInv, IndexesInOrder, StopNode
<1>6. LatestIsKept'
  BY Zenon DEF StoreInv, LatestIsKept, StopNode, IsThere, Latest
<1> QED BY <1>2, <1>3, <1>4, <1>5, <1>6, Zenon DEF StoreInv

-----------------------------------------------------------------------------
(* Steps that change temporary directories, or make a final one.            *)

FinalsStay ==
    \A i : IsThere(Final(i)) => IsThere(Final(i))' /\ dirs'[Final(i)] = dirs[Final(i)]

SameReceived ==
    \A s, i : /\ IsThere(Recv(s, i))' <=> IsThere(Recv(s, i))
              /\ IsThere(Recv(s, i)) => dirs'[Recv(s, i)] = dirs[Recv(s, i)]

\* Final directories as they were: what is recorded, installed or waiting to
\* be installed is where it was.
LEMMA FinalsKept ==
    ASSUME StoreInv, FinalsStay, UNCHANGED <<records, dropping>>
    PROVE  /\ LatestIsKept'
           /\ UNCHANGED <<install, incoming, applied, running>> => InstallInPlace'
<1>1. LatestIsKept'
  BY Zenon DEF StoreInv, LatestIsKept, FinalsStay, Latest
<1>2. UNCHANGED <<install, incoming, applied, running>> => InstallInPlace'
  BY DEF StoreInv, InstallInPlace, FinalsStay, HasFlag, IsThere
<1> QED BY <1>1, <1>2, Zenon

LEMMA ReceivedKept ==
    ASSUME StoreInv, SameReceived, UNCHANGED tracked
    PROVE  TrackedIsSaved'
BY DEF StoreInv, TrackedIsSaved, SameReceived, IsThere

\* The snapshot worker writes to its temporary directory.
LEMMA PutGen ==
    ASSUME StoreInv, NEW i, NEW c \in DirContents, dirs' = Put(Gen(i), c)
    PROVE  /\ FinalsStay /\ SameReceived /\ FinalIsWhole'
           /\ \A d \in DOMAIN dirs' : dirs'[d] \in DirContents
           /\ Gen(i) \in DOMAIN dirs' /\ dirs'[Gen(i)] = c
<1>1. /\ \A d : d \in DOMAIN dirs' <=> d \in DOMAIN dirs \/ d = Gen(i)
      /\ \A d \in DOMAIN dirs : d # Gen(i) => dirs'[d] = dirs[d]
      /\ Gen(i) \in DOMAIN dirs' /\ dirs'[Gen(i)] = c
  BY Zenon DEF Put
<1>2. FinalsStay /\ SameReceived
  BY <1>1, NamesApart DEF FinalsStay, SameReceived, IsThere
<1>3. FinalIsWhole'
  BY <1>1, NamesApart DEF StoreInv, FinalIsWhole, Complete, IsThere
<1>4. \A d \in DOMAIN dirs' : dirs'[d] \in DirContents
  BY <1>1, Zenon DEF StoreInv, Typed
<1> QED BY <1>1, <1>2, <1>3, <1>4, Zenon DEF IsThere

LEMMA InvSaveLocal == StoreInv /\ SaveLocal => StoreInv'
<1> SUFFICES ASSUME StoreInv, SaveLocal PROVE StoreInv'
  BY Zenon
<1>1. [file |-> <<>>, flag |-> FALSE] \in DirContents
  BY DEF DirContents
<1>2. FinalsStay /\ SameReceived /\ FinalIsWhole' /\ \A d \in DOMAIN dirs' : dirs'[d] \in DirContents
  BY <1>1, PutGen, Zenon DEF SaveLocal
<1>3. TrackedIsSaved' /\ LatestIsKept' /\ InstallInPlace'
  BY <1>2, FinalsKept, ReceivedKept, Zenon DEF SaveLocal, indexVars, lifeVars
<1>4. Typed'
  BY <1>2, Zenon DEF StoreInv, Typed, SaveLocal, indexVars, lifeVars, LocalStages
<1>5. LocalInPlace'
  <2>1. known < applied /\ logTo < applied /\ \A j \in dropping : j < applied
    <3>1. applied \in Nat /\ known \in Nat /\ logTo \in Nat /\ dropping \subseteq Nat /\ known < applied
      BY Zenon DEF StoreInv, Typed, SaveLocal
    <3>2. logTo <= known /\ \A j \in dropping : j < known
      BY Zenon DEF StoreInv, IndexesInOrder
    <3> QED BY <3>1, <3>2
  <2>2. local'.at = "saving" /\ local'.index = applied
    BY Zenon DEF SaveLocal
  <2> QED BY <2>1, <2>2 DEF LocalInPlace, SaveLocal, indexVars, lifeVars, StoreInv, Typed
<1>6. IndexesInOrder'
  BY Zenon DEF StoreInv, IndexesInOrder, SaveLocal, indexVars
<1> QED BY <1>2, <1>3, <1>4, <1>5, <1>6, Zenon DEF StoreInv

LEMMA InvWriteLocal == StoreInv /\ WriteLocal => StoreInv'
<1> SUFFICES ASSUME StoreInv, WriteLocal PROVE StoreInv'
  BY Zenon
<1> DEFINE c == [file |-> WholeFile, flag |-> TRUE]
<1>1. c \in DirContents /\ c.file = WholeFile /\ c.flag
  BY FewChunks, OneMoreChunk, SnapshotStoreAssumption, Zenon DEF DirContents
<1>2. dirs' = Put(Gen(local.index), c)
  BY Zenon DEF WriteLocal
<1> HIDE DEF c
<1>3. /\ FinalsStay /\ SameReceived /\ FinalIsWhole' /\ \A d \in DOMAIN dirs' : dirs'[d] \in DirContents
      /\ Gen(local.index) \in DOMAIN dirs' /\ dirs'[Gen(local.index)] = c
  BY <1>1, <1>2, PutGen, Zenon
<1>4. TrackedIsSaved' /\ LatestIsKept' /\ InstallInPlace'
  BY <1>3, FinalsKept, ReceivedKept, Zenon DEF WriteLocal, indexVars, lifeVars
<1>5. Typed'
  BY <1>3, Zenon DEF StoreInv, Typed, WriteLocal, indexVars, lifeVars, LocalStages
<1>6. LocalInPlace'
  <2>1. local'.at = "flagged" /\ local'.index = local.index
    BY Zenon DEF WriteLocal, StoreInv, Typed
  <2>2. (Complete(Gen(local.index)) /\ HasFlag(Gen(local.index)))'
    BY <1>1, <1>3, <2>1, Zenon DEF Complete, HasFlag, IsThere, WholeFile
  <2> QED BY <2>1, <2>2, Zenon DEF StoreInv, LocalInPlace, WriteLocal, indexVars, lifeVars
<1>7. IndexesInOrder'
  BY Zenon DEF StoreInv, IndexesInOrder, WriteLocal, indexVars
<1> QED BY <1>3, <1>4, <1>5, <1>6, <1>7, Zenon DEF StoreInv

\* Temporary directories of connections are removed or written: what the
\* snapshot worker has made stays as it is.
GeneratedStay ==
    \A i : IsThere(Gen(i)) => IsThere(Gen(i))' /\ dirs'[Gen(i)] = dirs[Gen(i)]

LEMMA LocalKept ==
    ASSUME StoreInv, FinalsStay, GeneratedStay, UNCHANGED <<local, applied, logTo, dropping, running>>
    PROVE  LocalInPlace'
BY Zenon DEF StoreInv, LocalInPlace, FinalsStay, GeneratedStay, HasFlag, Complete, IsThere, WholeFile

\* Removing temporary directories.
LEMMA RemoveTemporary ==
    ASSUME StoreInv, NEW gone, \A d \in gone : d[1] # "final", dirs' = Without(gone)
    PROVE  /\ FinalsStay /\ FinalIsWhole'
           /\ \A d \in DOMAIN dirs' : dirs'[d] \in DirContents
           /\ (\A d \in gone : d[1] # "gen") => GeneratedStay
           /\ (\A d \in gone : d[1] # "recv") => SameReceived
<1>1. /\ \A d : d \in DOMAIN dirs' <=> d \in DOMAIN dirs /\ d \notin gone
      /\ \A d \in DOMAIN dirs' : dirs'[d] = dirs[d]
  BY Zenon DEF Without
<1>2. FinalsStay
  BY <1>1, NamesApart, Zenon DEF FinalsStay, IsThere
<1>3. (\A d \in gone : d[1] # "gen") => GeneratedStay
  BY <1>1, NamesApart, Zenon DEF GeneratedStay, IsThere
<1>4. (\A d \in gone : d[1] # "recv") => SameReceived
  BY <1>1, NamesApart, Zenon DEF SameReceived, IsThere
<1>5. FinalIsWhole'
  BY <1>1, Zenon DEF StoreInv, FinalIsWhole, Complete, IsThere, WholeFile
<1>6. \A d \in DOMAIN dirs' : dirs'[d] \in DirContents
  BY <1>1, Zenon DEF StoreInv, Typed
<1> QED BY <1>2, <1>3, <1>4, <1>5, <1>6, Zenon

LEMMA InvCloseConnection ==
    ASSUME NEW s \in Senders, StoreInv, CloseConnection(s)
    PROVE  StoreInv'
<1> DEFINE gone == {Recv(s, i) : i \in DOMAIN tracked[s]}
<1>1. \A d \in gone : d[1] = "recv"
  BY NamesApart
<1>2. dirs' = Without(gone)
  BY Zenon DEF CloseConnection
<1>3. TrackedIsSaved'
  <2> SUFFICES ASSUME NEW t \in Senders, NEW i \in DOMAIN tracked'[t]
               PROVE  /\ tracked'[t][i] \in Nat
                      /\ Recv(t, i) \in DOMAIN dirs' =>
                            dirs'[Recv(t, i)].file = FirstChunks(tracked'[t][i])
    BY Zenon DEF TrackedIsSaved, IsThere
  <2>1. t # s /\ tracked'[t] = tracked[t]
    BY DEF CloseConnection, StoreInv, Typed
  <2>2. Recv(t, i) \in DOMAIN dirs' =>
            Recv(t, i) \in DOMAIN dirs /\ dirs'[Recv(t, i)] = dirs[Recv(t, i)]
    BY <1>2, Zenon DEF Without
  <2> QED BY <2>1, <2>2, Zenon DEF StoreInv, TrackedIsSaved, IsThere
<1> HIDE DEF gone
<1>4. /\ FinalsStay /\ FinalIsWhole' /\ GeneratedStay
      /\ \A d \in DOMAIN dirs' : dirs'[d] \in DirContents
  BY <1>1, <1>2, RemoveTemporary, Zenon
<1>5. LocalInPlace' /\ LatestIsKept' /\ InstallInPlace'
  BY <1>4, LocalKept, FinalsKept, Zenon DEF CloseConnection, indexVars, lifeVars
<1>6. Typed'
  BY <1>4, Zenon DEF StoreInv, Typed, CloseConnection, indexVars, lifeVars
<1>7. IndexesInOrder'
  BY Zenon DEF StoreInv, IndexesInOrder, CloseConnection, indexVars
<1> QED BY <1>3, <1>4, <1>5, <1>6, <1>7, Zenon DEF StoreInv

\* A connection forgets one snapshot.
LEMMA ForgetOne ==
    ASSUME NEW s \in Senders, NEW i, StoreInv, tracked' = NotTracked(s, i),
           \A d : d[1] = "recv" /\ d \in DOMAIN dirs' => d \in DOMAIN dirs /\ dirs'[d] = dirs[d]
    PROVE  TrackedIsSaved' /\ DOMAIN tracked' = Senders
<1>1. DOMAIN tracked' = Senders
  BY Zenon DEF NotTracked, StoreInv, Typed
<1>2. TrackedIsSaved'
  <2> SUFFICES ASSUME NEW t \in Senders, NEW j \in DOMAIN tracked'[t]
               PROVE  /\ tracked'[t][j] \in Nat
                      /\ Recv(t, j) \in DOMAIN dirs' =>
                            dirs'[Recv(t, j)].file = FirstChunks(tracked'[t][j])
    BY Zenon DEF TrackedIsSaved, IsThere
  <2>1. j \in DOMAIN tracked[t] /\ tracked'[t][j] = tracked[t][j]
    BY Zenon DEF NotTracked, StoreInv, Typed
  <2>2. Recv(t, j) \in DOMAIN dirs' =>
            Recv(t, j) \in DOMAIN dirs /\ dirs'[Recv(t, j)] = dirs[Recv(t, j)]
    BY NamesApart, Zenon
  <2> QED BY <2>1, <2>2, Zenon DEF StoreInv, TrackedIsSaved, IsThere
<1> QED BY <1>1, <1>2, Zenon

LEMMA InvGC ==
    ASSUME NEW s \in Senders, NEW i, StoreInv, GC(s, i)
    PROVE  StoreInv'
<1> DEFINE gone == {Recv(s, i)}
<1>1. \A d \in gone : d[1] = "recv"
  BY NamesApart, Zenon
<1>2. dirs' = Without(gone)
  BY Zenon DEF GC
<1> HIDE DEF gone
<1>3. TrackedIsSaved' /\ DOMAIN tracked' = Senders
  BY <1>2, ForgetOne, Zenon DEF GC, Without
<1>4. /\ FinalsStay /\ FinalIsWhole' /\ GeneratedStay
      /\ \A d \in DOMAIN dirs' : dirs'[d] \in DirContents
  BY <1>1, <1>2, RemoveTemporary, Zenon
<1>5. LocalInPlace' /\ LatestIsKept' /\ InstallInPlace'
  BY <1>4, LocalKept, FinalsKept, Zenon DEF GC, indexVars, lifeVars
<1>6. Typed'
  BY <1>3, <1>4, Zenon DEF StoreInv, Typed, GC, indexVars, lifeVars
<1>7. IndexesInOrder'
  BY Zenon DEF StoreInv, IndexesInOrder, GC, indexVars
<1> QED BY <1>3, <1>4, <1>5, <1>6, <1>7, Zenon DEF StoreInv

\* What onNewChunk and saveChunk leave: the chunks up to the one received.
LEMMA SavedIsPrefix ==
    ASSUME StoreInv, NEW s \in Senders, NEW i, NEW k \in Nat,
           k = 0 \/ (i \in DOMAIN tracked[s] /\ tracked[s][i] = k /\ IsThere(Recv(s, i)))
    PROVE  Saved(s, i, k) \in DirContents /\ Saved(s, i, k).file = FirstChunks(k + 1)
<1>1. CASE k = 0
  BY <1>1, FewChunks DEF Saved, DirContents
<1>2. CASE k # 0
  <2> DEFINE old == dirs[Recv(s, i)]
  <2>1. old \in DirContents /\ old.file = FirstChunks(k)
    BY <1>2, Zenon DEF StoreInv, Typed, TrackedIsSaved, IsThere
  <2>2. Append(FirstChunks(k), k) = FirstChunks(k + 1) /\ FirstChunks(k + 1) \in Seq(Int)
    <3>1. k + 1 \in Nat
      OBVIOUS
    <3>2. FirstChunks(k + 1) \in Seq(Int)
      BY <3>1, OneMoreChunk, Zenon
    <3> QED BY <3>2, OneMoreChunk, Zenon
  <2>3. Saved(s, i, k) = [old EXCEPT !.file = Append(@, k)]
    BY <1>2, Zenon DEF Saved
  <2> HIDE DEF old
  <2>4. Saved(s, i, k) = [old EXCEPT !.file = FirstChunks(k + 1)]
    BY <2>1, <2>2, <2>3, Zenon DEF DirContents
  <2> QED BY <2>1, <2>2, <2>4, Zenon DEF DirContents
<1> QED BY <1>1, <1>2, Zenon

\* A chunk that is not the last one.
LEMMA InvSaveChunk ==
    ASSUME NEW s \in Senders, NEW i, NEW k \in Nat, StoreInv,
           k = 0 \/ (i \in DOMAIN tracked[s] /\ tracked[s][i] = k /\ IsThere(Recv(s, i))),
           dirs' = Put(Recv(s, i), Saved(s, i, k)), tracked' = TrackedTo(s, i, k + 1),
           UNCHANGED <<incoming, records, local, install, indexVars, lifeVars>>
    PROVE  StoreInv'
<1> DEFINE c == Saved(s, i, k)
<1>1. c \in DirContents /\ c.file = FirstChunks(k + 1)
  BY SavedIsPrefix, Zenon
<1>2. dirs' = Put(Recv(s, i), c)
  BY Zenon
<1> HIDE DEF c
<1>3. /\ \A d : d \in DOMAIN dirs' <=> d \in DOMAIN dirs \/ d = Recv(s, i)
      /\ \A d \in DOMAIN dirs : d # Recv(s, i) => dirs'[d] = dirs[d]
      /\ Recv(s, i) \in DOMAIN dirs' /\ dirs'[Recv(s, i)] = c
  BY <1>2, Zenon DEF Put
<1>4. FinalsStay /\ GeneratedStay
  BY <1>3, NamesApart DEF FinalsStay, GeneratedStay, IsThere
<1>5. FinalIsWhole'
  BY <1>3, NamesApart DEF StoreInv, FinalIsWhole, Complete, IsThere, WholeFile
<1>6. DOMAIN tracked' = Senders
  BY Zenon DEF TrackedTo, StoreInv, Typed
<1>7. TrackedIsSaved'
  <2> SUFFICES ASSUME NEW t \in Senders, NEW j \in DOMAIN tracked'[t]
               PROVE  /\ tracked'[t][j] \in Nat
                      /\ Recv(t, j) \in DOMAIN dirs' =>
                            dirs'[Recv(t, j)].file = FirstChunks(tracked'[t][j])
    BY Zenon DEF TrackedIsSaved, IsThere
  <2>1. CASE t = s /\ j = i
    <3>1. tracked'[t][j] = k + 1
      BY <2>1, Zenon DEF TrackedTo, StoreInv, Typed
    <3> QED BY <1>1, <1>3, <2>1, <3>1
  <2>2. CASE ~(t = s /\ j = i)
    <3>1. j \in DOMAIN tracked[t] /\ tracked'[t][j] = tracked[t][j]
      BY <2>2, Zenon DEF TrackedTo, StoreInv, Typed
    <3>2. Recv(t, j) # Recv(s, i)
      BY <2>2, NamesApart
    <3> QED BY <1>3, <3>1, <3>2, Zenon DEF StoreInv, TrackedIsSaved, IsThere
  <2> QED BY <2>1, <2>2, Zenon
<1>8. LocalInPlace' /\ LatestIsKept' /\ InstallInPlace'
  BY <1>4, LocalKept, FinalsKept, Zenon DEF indexVars, lifeVars
<1>9. \A d \in DOMAIN dirs' : dirs'[d] \in DirContents
  BY <1>1, <1>3, Zenon DEF StoreInv, Typed
<1>10. Typed'
  BY <1>6, <1>9, Zenon DEF StoreInv, Typed, indexVars, lifeVars
<1>11. IndexesInOrder'
  BY Zenon DEF StoreInv, IndexesInOrder, indexVars
<1> QED BY <1>5, <1>7, <1>8, <1>10, <1>11, Zenon DEF StoreInv

\* A temporary directory becomes the final one of its index.
LEMMA NewFinal ==
    ASSUME StoreInv, NEW i, NEW from, from[1] # "final", ~IsThere(Final(i)),
           NEW c \in DirContents, c.file = WholeFile, c.flag,
           dirs' = [x \in (DOMAIN dirs \ {from}) \cup {Final(i)} |-> IF x = Final(i) THEN c ELSE dirs[x]]
    PROVE  /\ FinalsStay /\ FinalIsWhole'
           /\ \A d \in DOMAIN dirs' : dirs'[d] \in DirContents
           /\ Final(i) \in DOMAIN dirs' /\ dirs'[Final(i)].flag
           /\ from[1] # "gen" => GeneratedStay
           /\ from[1] # "recv" => SameReceived
<1>1. /\ \A d : d \in DOMAIN dirs' <=> (d \in DOMAIN dirs /\ d # from) \/ d = Final(i)
      /\ \A d \in DOMAIN dirs : d # from /\ d # Final(i) => dirs'[d] = dirs[d]
      /\ Final(i) \in DOMAIN dirs' /\ dirs'[Final(i)] = c
  BY Zenon
<1>2. FinalsStay
  BY <1>1, NamesApart DEF FinalsStay, IsThere
<1>3. from[1] # "gen" => GeneratedStay
  BY <1>1, NamesApart DEF GeneratedStay, IsThere
<1>4. from[1] # "recv" => SameReceived
  BY <1>1, NamesApart DEF SameReceived, IsThere
<1>5. FinalIsWhole'
  BY <1>1, Zenon DEF StoreInv, FinalIsWhole, Complete, IsThere, WholeFile
<1>6. \A d \in DOMAIN dirs' : dirs'[d] \in DirContents
  BY <1>1, Zenon DEF StoreInv, Typed
<1> QED BY <1>1, <1>2, <1>3, <1>4, <1>5, <1>6, Zenon

\* The last chunk: finalizeSnapshotFile, whoever has renamed first.
LEMMA InvFinalized ==
    ASSUME NEW s \in Senders, NEW i \in Nat, StoreInv,
           Chunks = 1 \/ (i \in DOMAIN tracked[s] /\ tracked[s][i] = Chunks - 1 /\ IsThere(Recv(s, i))),
           Finalized(s, i), UNCHANGED <<records, local, install, indexVars, lifeVars>>
    PROVE  StoreInv'
<1>1. IndexesInOrder'
  BY Zenon DEF StoreInv, IndexesInOrder, indexVars
<1>2. Recv(s, i)[1] = "recv"
  BY NamesApart, Zenon
<1>3. CASE IsThere(Final(i))
  <2> DEFINE gone == {Recv(s, i)}
  <2>1. (\A d \in gone : d[1] = "recv") /\ dirs' = Without(gone)
    BY <1>2, <1>3, Zenon DEF Finalized
  <2> HIDE DEF gone
  <2>2. /\ FinalsStay /\ FinalIsWhole' /\ GeneratedStay
        /\ \A d \in DOMAIN dirs' : dirs'[d] \in DirContents
    BY <2>1, RemoveTemporary, Zenon
  <2>3. TrackedIsSaved' /\ DOMAIN tracked' = Senders
    BY <2>1, ForgetOne, Zenon DEF Finalized, Without
  <2>4. LocalInPlace' /\ LatestIsKept'
    BY <2>2, LocalKept, FinalsKept, Zenon DEF indexVars, lifeVars
  <2>5. InstallInPlace'
    BY <1>3, <2>2, Zenon DEF Finalized, StoreInv, InstallInPlace, FinalsStay, HasFlag, IsThere, indexVars, lifeVars
  <2>6. Typed'
    BY <1>3, <2>2, <2>3, Zenon DEF Finalized, StoreInv, Typed, indexVars, lifeVars
  <2> QED BY <1>1, <2>2, <2>3, <2>4, <2>5, <2>6, Zenon DEF StoreInv
<1>4. CASE ~IsThere(Final(i))
  <2> DEFINE c == [Saved(s, i, Chunks - 1) EXCEPT !.flag = TRUE]
  <2>1. c \in DirContents /\ c.file = WholeFile /\ c.flag
    <3>1. Chunks - 1 \in Nat /\ (Chunks - 1) + 1 = Chunks
      BY SnapshotStoreAssumption
    <3>2. Saved(s, i, Chunks - 1) \in DirContents /\ Saved(s, i, Chunks - 1).file = FirstChunks((Chunks - 1) + 1)
      BY <3>1, SavedIsPrefix
    <3>3. Saved(s, i, Chunks - 1).file = WholeFile
      BY <3>1, <3>2, FewChunks, Zenon
    <3> QED BY <3>2, <3>3, Zenon DEF DirContents
  <2>2. dirs' = [x \in (DOMAIN dirs \ {Recv(s, i)}) \cup {Final(i)} |-> IF x = Final(i) THEN c ELSE dirs[x]]
    BY <1>4, Zenon DEF Finalized
  <2> HIDE DEF c
  <2>3. /\ FinalsStay /\ FinalIsWhole' /\ GeneratedStay
        /\ \A d \in DOMAIN dirs' : dirs'[d] \in DirContents
        /\ Final(i) \in DOMAIN dirs' /\ dirs'[Final(i)].flag
    BY <1>2, <1>4, <2>1, <2>2, NewFinal, Zenon
  <2>4. TrackedIsSaved' /\ DOMAIN tracked' = Senders
    <3>1. \A d : d[1] = "recv" /\ d \in DOMAIN dirs' => d \in DOMAIN dirs /\ dirs'[d] = dirs[d]
      BY <2>2, NamesApart, Zenon
    <3> QED BY <3>1, ForgetOne, Zenon DEF Finalized
  <2>5. LocalInPlace' /\ LatestIsKept'
    BY <2>3, LocalKept, FinalsKept, Zenon DEF indexVars, lifeVars
  <2>6. InstallInPlace'
    BY <1>4, <2>3, ZenonT(60) DEF Finalized, StoreInv, InstallInPlace, FinalsStay, HasFlag, IsThere, indexVars, lifeVars
  <2>7. Typed'
    BY <1>4, <2>3, <2>4, Zenon DEF Finalized, StoreInv, Typed, indexVars, lifeVars
  <2> QED BY <1>1, <2>3, <2>4, <2>5, <2>6, <2>7, Zenon DEF StoreInv
<1> QED BY <1>3, <1>4, Zenon

LEMMA InvAddChunk ==
    ASSUME NEW s \in Senders, NEW i \in SnapshotIndexes, NEW k \in 0 .. Chunks - 1,
           StoreInv, AddChunk(s, i, k)
    PROVE  StoreInv'
<1>1. i \in Nat /\ k \in Nat /\ Chunks \in Nat
  BY SnapshotStoreAssumption DEF SnapshotIndexes
<1>2. k = 0 \/ (i \in DOMAIN tracked[s] /\ tracked[s][i] = k)
  BY Zenon DEF AddChunk
<1>3. CASE k > 0 /\ ~IsThere(Recv(s, i))
  BY <1>3, InvDead, Zenon DEF AddChunk
<1>4. CASE ~(k > 0 /\ ~IsThere(Recv(s, i))) /\ k + 1 = Chunks
  <2>1. Chunks = 1 \/ (i \in DOMAIN tracked[s] /\ tracked[s][i] = Chunks - 1 /\ IsThere(Recv(s, i)))
    BY <1>1, <1>2, <1>4
  <2>2. Finalized(s, i) /\ UNCHANGED <<records, local, install, indexVars, lifeVars>>
    BY <1>4, Zenon DEF AddChunk
  <2> QED BY <1>1, <2>1, <2>2, InvFinalized, Zenon
<1>5. CASE ~(k > 0 /\ ~IsThere(Recv(s, i))) /\ k + 1 # Chunks
  <2>1. k = 0 \/ (i \in DOMAIN tracked[s] /\ tracked[s][i] = k /\ IsThere(Recv(s, i)))
    BY <1>1, <1>2, <1>5
  <2>2. /\ dirs' = Put(Recv(s, i), Saved(s, i, k)) /\ tracked' = TrackedTo(s, i, k + 1)
        /\ UNCHANGED <<incoming, records, local, install, indexVars, lifeVars>>
    BY <1>5, Zenon DEF AddChunk
  <2> QED BY <1>1, <2>1, <2>2, InvSaveChunk, Zenon
<1> QED BY <1>3, <1>4, <1>5, Zenon

LEMMA InvRenameLocal == StoreInv /\ RenameLocal => StoreInv'
<1> SUFFICES ASSUME StoreInv, RenameLocal PROVE StoreInv'
  BY Zenon
<1>1. IndexesInOrder'
  BY Zenon DEF StoreInv, IndexesInOrder, RenameLocal, indexVars
<1>2. Gen(local.index)[1] = "gen" /\ local.index \in Nat /\ local.at = "flagged"
  BY NamesApart, Zenon DEF StoreInv, Typed, RenameLocal
<1>3. CASE IsThere(Final(local.index))
  <2> DEFINE gone == {Gen(local.index)}
  <2>1. (\A d \in gone : d[1] = "gen") /\ dirs' = Without(gone)
    BY <1>2, <1>3, Zenon DEF RenameLocal
  <2> HIDE DEF gone
  <2>2. /\ FinalsStay /\ FinalIsWhole' /\ SameReceived
        /\ \A d \in DOMAIN dirs' : dirs'[d] \in DirContents
    BY <2>1, RemoveTemporary, Zenon
  <2>3. TrackedIsSaved' /\ LatestIsKept' /\ InstallInPlace'
    BY <2>2, ReceivedKept, FinalsKept, Zenon DEF RenameLocal, indexVars, lifeVars
  <2>4. LocalInPlace'
    BY <1>3 DEF RenameLocal, LocalInPlace, Idle
  <2>5. Typed'
    BY <1>3, <2>2, SMTT(30) DEF RenameLocal, StoreInv, Typed, Idle, LocalStages, indexVars, lifeVars
  <2> QED BY <1>1, <2>2, <2>3, <2>4, <2>5, Zenon DEF StoreInv
<1>4. CASE ~IsThere(Final(local.index))
  <2> DEFINE c == dirs[Gen(local.index)]
  <2>1. c \in DirContents /\ c.file = WholeFile /\ c.flag
    BY <1>2, Zenon DEF StoreInv, Typed, LocalInPlace, Complete, HasFlag, IsThere
  <2>2. dirs' = [x \in (DOMAIN dirs \ {Gen(local.index)}) \cup {Final(local.index)} |->
                    IF x = Final(local.index) THEN c ELSE dirs[x]]
    BY <1>4, Zenon DEF RenameLocal, Renamed
  <2> HIDE DEF c
  <2>3. /\ FinalsStay /\ FinalIsWhole' /\ SameReceived
        /\ \A d \in DOMAIN dirs' : dirs'[d] \in DirContents
        /\ Final(local.index) \in DOMAIN dirs' /\ dirs'[Final(local.index)].flag
    BY <1>2, <1>4, <2>1, <2>2, NewFinal, Zenon
  <2>4. TrackedIsSaved' /\ LatestIsKept' /\ InstallInPlace'
    BY <2>3, ReceivedKept, FinalsKept, Zenon DEF RenameLocal, indexVars, lifeVars
  <2>5. local'.at = "renamed" /\ local'.index = local.index /\ local' \in [at : LocalStages, index : Nat]
    BY <1>4, Zenon DEF RenameLocal, StoreInv, Typed, LocalStages
  <2>6. LocalInPlace'
    BY <1>2, <2>3, <2>5, Zenon DEF RenameLocal, StoreInv, LocalInPlace, HasFlag, IsThere, indexVars, lifeVars
  <2>7. Typed'
    BY <2>3, <2>5, Zenon DEF RenameLocal, StoreInv, Typed, indexVars, lifeVars
  <2> QED BY <1>1, <2>3, <2>4, <2>6, <2>7, Zenon DEF StoreInv
<1> QED BY <1>3, <1>4, Zenon

-----------------------------------------------------------------------------
(* Steps that change final directories.                                     *)

\* RemoveFlagFile takes the flag of one directory and nothing else.
LEMMA UnflagOne ==
    ASSUME StoreInv, NEW i, dirs' = Unflag(Final(i))
    PROVE  /\ DOMAIN dirs' = DOMAIN dirs
           /\ \A d \in DOMAIN dirs : dirs'[d] \in DirContents /\ dirs'[d].file = dirs[d].file
           /\ \A d \in DOMAIN dirs : d # Final(i) => dirs'[d] = dirs[d]
BY Zenon DEF Unflag, StoreInv, Typed, IsThere, DirContents

LEMMA UnflagKeeps ==
    ASSUME StoreInv, NEW i, dirs' = Unflag(Final(i)), UNCHANGED <<records, dropping, tracked>>
    PROVE  /\ TrackedIsSaved' /\ FinalIsWhole' /\ LatestIsKept'
           /\ \A d \in DOMAIN dirs' : dirs'[d] \in DirContents
           /\ \A j : j # i /\ HasFlag(Final(j)) => HasFlag(Final(j))'
           /\ GeneratedStay
<1>1. /\ DOMAIN dirs' = DOMAIN dirs
      /\ \A d \in DOMAIN dirs : dirs'[d] \in DirContents /\ dirs'[d].file = dirs[d].file
      /\ \A d \in DOMAIN dirs : d # Final(i) => dirs'[d] = dirs[d]
  BY UnflagOne, Zenon
<1>2. TrackedIsSaved'
  BY <1>1, Zenon DEF StoreInv, TrackedIsSaved, IsThere
<1>3. FinalIsWhole'
  BY <1>1, Zenon DEF StoreInv, FinalIsWhole, Complete, IsThere, WholeFile
<1>4. LatestIsKept'
  BY <1>1, Zenon DEF StoreInv, LatestIsKept, IsThere, Latest
<1>5. \A j : j # i /\ HasFlag(Final(j)) => HasFlag(Final(j))'
  BY <1>1, NamesApart DEF HasFlag, IsThere
<1>6. GeneratedStay
  BY <1>1, NamesApart, Zenon DEF GeneratedStay, IsThere
<1> QED BY <1>1, <1>2, <1>3, <1>4, <1>5, <1>6, Zenon

LEMMA InvUnflagLocal == StoreInv /\ UnflagLocal => StoreInv'
<1> SUFFICES ASSUME StoreInv, UnflagLocal PROVE StoreInv'
  BY Zenon
<1>1. /\ TrackedIsSaved' /\ FinalIsWhole' /\ LatestIsKept'
      /\ \A d \in DOMAIN dirs' : dirs'[d] \in DirContents
      /\ \A j : j # local.index /\ HasFlag(Final(j)) => Final(j) \in DOMAIN dirs' /\ dirs'[Final(j)].flag
  BY UnflagKeeps, Zenon DEF UnflagLocal, HasFlag, IsThere
<1>2. /\ local.index \in Nat /\ known \in Nat /\ logTo \in Nat /\ applied \in Nat /\ dropping \subseteq Nat
      /\ incoming \subseteq Nat /\ install.index \in Nat
      /\ local.index <= applied /\ known <= applied /\ logTo <= known /\ \A j \in dropping : j < known
  BY Zenon DEF UnflagLocal, StoreInv, Typed, LocalInPlace, IndexesInOrder
<1>3. known' = IF known > local.index THEN known ELSE local.index
  BY <1>2, MaxOfTwo, Zenon DEF UnflagLocal
<1>4. known' \in Nat /\ logTo' \in Nat /\ known' >= known /\ known' <= applied /\ logTo' <= known'
  <2>1. known' \in Nat /\ known' >= known /\ known' >= local.index /\ known' <= applied
    BY <1>2, <1>3
  <2>2. \/ logTo' = logTo
        \/ local.index > CompactionOverhead /\ logTo' = local.index - CompactionOverhead
    BY Zenon DEF UnflagLocal
  <2>3. CompactionOverhead \in Nat
    BY SnapshotStoreAssumption, Zenon
  <2> QED BY <1>2, <2>1, <2>2, <2>3
<1>5. Typed'
  BY <1>1, <1>4, Zenon DEF StoreInv, Typed, UnflagLocal, Idle, LocalStages, lifeVars
<1>6. LocalInPlace'
  BY Zenon DEF LocalInPlace, UnflagLocal, Idle
<1>7. InstallInPlace'
  BY <1>1, <1>2 DEF StoreInv, InstallInPlace, UnflagLocal, HasFlag, IsThere, lifeVars
<1>8. IndexesInOrder'
  <2>1. \A j \in dropping : j < known'
    BY <1>2, <1>4
  <2> QED BY <1>4, <2>1, Zenon DEF StoreInv, IndexesInOrder, UnflagLocal
<1> QED BY <1>1, <1>5, <1>6, <1>7, <1>8, Zenon DEF StoreInv

LEMMA InvUnflagInstall == StoreInv /\ UnflagInstall => StoreInv'
<1> SUFFICES ASSUME StoreInv, UnflagInstall PROVE StoreInv'
  BY Zenon
<1>1. /\ TrackedIsSaved' /\ FinalIsWhole' /\ LatestIsKept' /\ GeneratedStay
      /\ \A d \in DOMAIN dirs' : dirs'[d] \in DirContents
      /\ \A j : j # install.index /\ HasFlag(Final(j)) => Final(j) \in DOMAIN dirs' /\ dirs'[Final(j)].flag
  BY UnflagKeeps, Zenon DEF UnflagInstall, HasFlag, IsThere
<1>2. /\ local.index \in Nat /\ known \in Nat /\ logTo \in Nat /\ applied \in Nat /\ dropping \subseteq Nat
      /\ incoming \subseteq Nat /\ install.index \in Nat /\ records \subseteq Nat
      /\ applied < install.index /\ known <= applied /\ logTo <= known /\ \A j \in dropping : j < known
      /\ running /\ known' = install.index /\ applied' = install.index
  BY Zenon DEF UnflagInstall, StoreInv, Typed, InstallInPlace, IndexesInOrder
<1>3. Typed'
  BY <1>1, <1>2, Zenon DEF StoreInv, Typed, UnflagInstall, Idle, InstallStages, lifeVars
<1>4. LocalInPlace'
  <2>1. local.at # "idle" => local.index # install.index /\ local.index <= applied'
    BY <1>2 DEF StoreInv, LocalInPlace
  <2>2. local.at = "flagged" => (Complete(Gen(local.index)) /\ HasFlag(Gen(local.index)))'
    BY <1>1, Zenon DEF StoreInv, LocalInPlace, GeneratedStay, UnflagInstall, Complete, HasFlag, IsThere, WholeFile
  <2>3. local.at \in {"renamed", "recorded"} => HasFlag(Final(local.index))'
    BY <1>1, <2>1, Zenon DEF StoreInv, LocalInPlace, UnflagInstall, HasFlag, IsThere
  <2> QED BY <2>1, <2>2, <2>3, Zenon DEF StoreInv, LocalInPlace, UnflagInstall, lifeVars
<1>5. InstallInPlace'
  <2>1. \A i \in incoming : i > applied' => HasFlag(Final(i)) /\ i # install.index
    BY <1>2 DEF StoreInv, InstallInPlace
  <2>2. \A i \in incoming' : i > applied' => HasFlag(Final(i))'
    BY <1>1, <2>1, Zenon DEF UnflagInstall, HasFlag, IsThere
  <2>3. install'.at = "idle" /\ running'
    BY <1>2, Zenon DEF UnflagInstall, Idle, lifeVars
  <2> QED BY <2>2, <2>3, Zenon DEF InstallInPlace
<1>6. IndexesInOrder'
  <2>1. \A j \in dropping : j < known'
    BY <1>2
  <2>2. \A r \in records : r <= applied'
    BY <1>2 DEF StoreInv, IndexesInOrder
  <2> QED BY <1>2, <2>1, <2>2 DEF IndexesInOrder, UnflagInstall
<1> QED BY <1>1, <1>3, <1>4, <1>5, <1>6, Zenon DEF StoreInv

LEMMA InvDropDir == StoreInv /\ DropDir => StoreInv'
<1> SUFFICES ASSUME StoreInv, DropDir PROVE StoreInv'
  BY Zenon
<1>1. PICK m \in dropping : /\ m \notin records /\ dirs' = Without({Final(m)})
                            /\ dropping' = dropping \ {m}
  BY Zenon DEF DropDir, IsNextToDrop
<1>2. /\ \A d : d \in DOMAIN dirs' <=> d \in DOMAIN dirs /\ d # Final(m)
      /\ \A d \in DOMAIN dirs' : dirs'[d] = dirs[d]
  BY <1>1, Zenon DEF Without
<1>3. m \in Nat /\ m < applied /\ (local.at # "idle" => m < local.index)
  BY DEF StoreInv, Typed, IndexesInOrder, LocalInPlace
<1>4. TrackedIsSaved'
  BY <1>2, Zenon DEF StoreInv, TrackedIsSaved, DropDir, IsThere
<1>5. FinalIsWhole'
  BY <1>2, Zenon DEF StoreInv, FinalIsWhole, Complete, IsThere, WholeFile
<1>6. Typed'
  BY <1>1, <1>2, Zenon DEF StoreInv, Typed, DropDir, lifeVars
<1>7. \A j : j # m /\ HasFlag(Final(j)) => HasFlag(Final(j))'
  BY <1>2, NamesApart DEF HasFlag, IsThere
<1>8. LocalInPlace'
  <2>1. local.at = "flagged" => (Complete(Gen(local.index)) /\ HasFlag(Gen(local.index)))'
    <3>1. GeneratedStay
      BY <1>2, NamesApart, Zenon DEF GeneratedStay, IsThere
    <3> QED BY <3>1, Zenon DEF StoreInv, LocalInPlace, GeneratedStay, DropDir, Complete, HasFlag, IsThere, WholeFile
  <2>2. local.at \in {"renamed", "recorded"} => HasFlag(Final(local.index))'
    <3>1. local.at # "idle" => local.index # m
      BY <1>3 DEF StoreInv, Typed
    <3>2. local.at \in {"renamed", "recorded"} => local.at # "idle" /\ HasFlag(Final(local.index))
      BY Zenon DEF StoreInv, LocalInPlace
    <3>3. local.at \in {"renamed", "recorded"} =>
             Final(local.index) \in DOMAIN dirs' /\ dirs'[Final(local.index)].flag
      BY <1>7, <3>1, <3>2, Zenon DEF HasFlag, IsThere, Final
    <3>4. local' = local
      BY Zenon DEF DropDir
    <3> QED BY <3>3, <3>4, Zenon DEF HasFlag, IsThere, Final
  <2> QED BY <1>1, <2>1, <2>2, Zenon DEF StoreInv, LocalInPlace, DropDir, lifeVars
<1>9. InstallInPlace'
  <2>1. install.at # "idle" => install.index # m
    BY <1>3 DEF StoreInv, Typed, InstallInPlace
  <2>2. \A i \in incoming : i > applied => i # m
    BY <1>3 DEF StoreInv, Typed
  <2> QED BY <1>1, <1>2, <1>7, <2>1, <2>2, NamesApart, Zenon
          DEF StoreInv, InstallInPlace, DropDir, HasFlag, IsThere, lifeVars
<1>10. IndexesInOrder'
  BY <1>1, Zenon DEF StoreInv, IndexesInOrder, DropDir
<1>11. LatestIsKept'
  <2>1. records # {} => Latest \in records
    BY LatestIsGreatest, Zenon DEF StoreInv, Typed, LatestIsKept
  <2>2. records # {} => Final(Latest) \in DOMAIN dirs'
    BY <1>1, <1>2, <2>1, NamesApart, Zenon DEF StoreInv, LatestIsKept, IsThere
  <2>3. Latest' = Latest
    BY Zenon DEF DropDir, Latest
  <2> QED BY <1>1, <2>2, <2>3, Zenon DEF StoreInv, LatestIsKept, DropDir, IsThere
<1> QED BY <1>4, <1>5, <1>6, <1>8, <1>9, <1>10, <1>11, Zenon DEF StoreInv

\* A start: temporary directories go, and flagged ones that are not recorded
\* as the latest.
LEMMA InvProcessOrphans == StoreInv /\ ProcessOrphans => StoreInv'
<1> SUFFICES ASSUME StoreInv, ProcessOrphans PROVE StoreInv'
  BY Zenon
<1>1. /\ DOMAIN dirs' = {x \in DOMAIN dirs : ~IsZombie(x) /\ ~IsOrphan(x)}
      /\ \A d \in DOMAIN dirs' : dirs'[d] = [dirs[d] EXCEPT !.flag = FALSE]
  BY Zenon DEF ProcessOrphans
<1>2. \A d \in DOMAIN dirs' : d \in DOMAIN dirs /\ dirs'[d] \in DirContents /\ dirs'[d].file = dirs[d].file
  BY <1>1, Zenon DEF StoreInv, Typed, DirContents
<1>3. TrackedIsSaved'
  BY <1>2, Zenon DEF StoreInv, TrackedIsSaved, ProcessOrphans, IsThere
<1>4. FinalIsWhole'
  BY <1>2, Zenon DEF StoreInv, FinalIsWhole, Complete, IsThere, WholeFile
<1>5. Typed'
  BY <1>2, Zenon DEF StoreInv, Typed, ProcessOrphans, indexVars
<1>6. local.at = "idle" /\ install.at = "idle" /\ incoming = {} /\ dropping = {}
  BY Zenon DEF StoreInv, LocalInPlace, InstallInPlace, ProcessOrphans
<1>7. LocalInPlace' /\ InstallInPlace'
  BY <1>6, Zenon DEF LocalInPlace, InstallInPlace, ProcessOrphans, indexVars
<1>8. IndexesInOrder'
  BY Zenon DEF StoreInv, IndexesInOrder, ProcessOrphans, indexVars
<1>9. LatestIsKept'
  <2>1. records # {} => Final(Latest) \in DOMAIN dirs'
    BY <1>1, NamesApart, Zenon DEF StoreInv, LatestIsKept, IsThere, IsZombie, IsOrphan
  <2>2. Latest' = Latest
    BY Zenon DEF ProcessOrphans, Latest
  <2> QED BY <2>1, <2>2, Zenon DEF StoreInv, LatestIsKept, ProcessOrphans, IsThere, indexVars
<1> QED BY <1>3, <1>4, <1>5, <1>7, <1>8, <1>9, Zenon DEF StoreInv

-----------------------------------------------------------------------------
(* The theorem.                                                             *)

LEMMA InvNext == StoreInv /\ [StoreNext]_storeVars => StoreInv'
<1> SUFFICES ASSUME StoreInv, [StoreNext]_storeVars PROVE StoreInv'
  BY Zenon
<1>1. CASE UNCHANGED storeVars
  BY <1>1 DEF storeVars, StoreInv, Typed, TrackedIsSaved, FinalIsWhole, LocalInPlace, InstallInPlace,
              IndexesInOrder, LatestIsKept, Complete, HasFlag, IsThere, Latest, WholeFile
<1>2. CASE StoreNext
  <2>1. ASSUME NEW s \in Senders, NEW i \in SnapshotIndexes, NEW k \in 0 .. Chunks - 1, AddChunk(s, i, k)
        PROVE  StoreInv'
    BY <2>1, InvAddChunk, Zenon
  <2>2. ASSUME NEW s \in Senders, CloseConnection(s) PROVE StoreInv'
    BY <2>2, InvCloseConnection, Zenon
  <2>3. ASSUME NEW s \in Senders, NEW i \in SnapshotIndexes, GC(s, i) PROVE StoreInv'
    BY <2>3, InvGC, Zenon
  <2>4. ASSUME NEW i \in incoming, HandleInstall(i) PROVE StoreInv'
    BY <2>4, InvHandleInstall, Zenon
  <2>5. ASSUME NEW locked \in BOOLEAN, CompactSnapshots(locked) PROVE StoreInv'
    BY <2>5, InvCompactSnapshots, Zenon
  <2>6. CASE Die
    BY <2>6, InvDead, Zenon DEF Die
  <2> QED BY <1>2, <2>1, <2>2, <2>3, <2>4, <2>5, <2>6, InvAdvance, InvSaveLocal, InvWriteLocal,
             InvRenameLocal, InvRecordLocal, InvUnflagLocal, InvRecordInstall, InvUnflagInstall,
             InvDropRecord, InvDropDir, InvStopNode, InvProcessOrphans, Zenon
          DEF StoreNext
<1> QED BY <1>1, <1>2, Zenon

\* Whatever the order of the snapshot worker, of the connections and of the
\* step worker, and wherever the process dies: the latest recorded snapshot
\* has its directory with the whole file, no final directory holds part of a
\* snapshot, and the flag files Commit and onSnapshotSaved remove are there.
THEOREM SnapshotsAlwaysSurvive == StoreSpec => []SnapshotsSurvive
<1>1. StoreInv => SnapshotsSurvive
  <2> SUFFICES ASSUME StoreInv PROVE SnapshotsSurvive
    BY Zenon
  <2>1. \A i : IsThere(Final(i)) => Complete(Final(i))
    BY NamesApart, Zenon DEF StoreInv, FinalIsWhole, IsThere
  <2>2. LatestIsUsable
    BY <2>1, Zenon DEF StoreInv, LatestIsKept, LatestIsUsable
  <2>3. FlagsAreThere
    BY <2>1, Zenon DEF StoreInv, InstallInPlace, LocalInPlace, FlagsAreThere, HasFlag
  <2> QED BY <2>2, <2>3, Zenon DEF StoreInv, SnapshotsSurvive
<1> QED BY <1>1, InvInit, InvNext, PTL DEF StoreSpec

=============================================================================
