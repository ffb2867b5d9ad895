---------------------------- MODULE SnapshotLane ----------------------------
(***************************************************************************)
(* Snapshots on their way out: ASyncSendSnapshot of transport/snapshot.go  *)
(* for one target address.  A snapshot is split into chunks that go, all   *)
(* or none, into the channel of the target; a worker per channel connects, *)
(* pulls them and sends them, and the raft node behind a snapshot is told  *)
(* how it went.  The channel goes away with its worker, while others may   *)
(* be about to put chunks into it.                                         *)
(***************************************************************************)
EXTENDS Integers, Sequences, FiniteSets, FiniteSetsExt, SequencesExt

CONSTANTS Images,          \* the snapshots, each sent once
          FileSizes,       \* image to the sizes of its files
          SnapChunkSize, SnapSendBufSize, MaxSnapshotCount,
          MaxChannels

ASSUME SnapshotLaneAssumption ==
    /\ {SnapChunkSize, SnapSendBufSize, MaxSnapshotCount, MaxChannels} \subseteq Nat \ {0}
    /\ \A m \in Images : FileSizes[m] # <<>> /\ \A f \in DOMAIN FileSizes[m] : FileSizes[m][f] > 0

VARIABLES
    sending,  \* image to where ASyncSendSnapshot is, and the channel it has
    channels, \* all channels ever made, with their workers
    current,  \* t.mu.chunks: the channel of the target, 0 for none
    count,    \* snapshotCount
    told,     \* image to the statuses HandleSnapshotStatus was called with
    arrived,  \* image to the chunks the target has received
    stopping  \* the transport is being stopped

laneVars == <<sending, channels, current, count, told, arrived, stopping>>

-----------------------------------------------------------------------------
(* Splitting an image, and putting it together again.                       *)

splitBySnapshotFile(m, f, start) ==
    LET size == FileSizes[m][f]
        chunkCount == (size - 1) \div SnapChunkSize + 1
    IN  [i \in 1 .. chunkCount |->
            [image |-> m, file |-> f, fileChunk |-> i - 1, id |-> start + i - 1,
             size |-> IF i = chunkCount THEN size - (chunkCount - 1) * SnapChunkSize
                      ELSE SnapChunkSize]]

splitSnapshotMessage(m) ==
    FoldLeft(LAMBDA chunks, f : chunks \o splitBySnapshotFile(m, f, Len(chunks)),
             <<>>, [f \in DOMAIN FileSizes[m] |-> f])

IsLast(chunk) == chunk.id + 1 = Len(splitSnapshotMessage(chunk.image))

\* The bytes of a file are numbered from 1.
loadSnapshotChunkData(chunk) ==
    [k \in 1 .. chunk.size |-> chunk.fileChunk * SnapChunkSize + k]

\* saveChunk at the target: chunk 0 of a file creates it, the others append.
Rebuilt(chunks, f) ==
    FoldLeft(LAMBDA file, c : IF c.file # f THEN file
                              ELSE IF c.fileChunk = 0 THEN loadSnapshotChunkData(c)
                              ELSE file \o loadSnapshotChunkData(c),
             <<>>, chunks)

-----------------------------------------------------------------------------
LaneInit ==
    /\ sending = [m \in Images |-> [at |-> "new", ch |-> 0]]
    /\ channels = <<>> /\ current = 0 /\ count = 0
    /\ told = [m \in Images |-> {}] /\ arrived = [m \in Images |-> <<>>]
    /\ stopping = FALSE

\* sendSnapshotNotification, for several images, with decreaseSnapshotCount.
Notify(images, status) ==
    /\ count' = Max({0, count - Cardinality(images)})
    /\ told' = [m \in Images |-> IF m \in images THEN told[m] \cup {status} ELSE told[m]]

\* increaseSnapshotCount.
Begin(m) ==
    /\ sending[m].at = "new" /\ ~stopping
    /\ count' = count + 1
    /\ sending' = [sending EXCEPT ![m].at = IF count + 1 > MaxSnapshotCount THEN "refused" ELSE "counted"]
    /\ UNCHANGED <<channels, current, told, arrived, stopping>>

\* The target has no address, or its circuit breaker is not ready.
NotReady(m) ==
    /\ sending[m].at = "counted"
    /\ sending' = [sending EXCEPT ![m].at = "refused"]
    /\ UNCHANGED <<channels, current, count, told, arrived, stopping>>

NewChannel(m) ==
    [owner |-> m, queue |-> <<>>, held |-> <<>>, closed |-> FALSE, worker |-> "connecting"]

\* The channel of the target is taken, or made and its worker started.
TakeChannel(m) ==
    /\ sending[m].at = "counted"
    /\ IF current # 0 THEN UNCHANGED <<channels, current>>
       ELSE /\ Len(channels) < MaxChannels
            /\ channels' = Append(channels, NewChannel(m))
            /\ current' = Len(channels) + 1
    /\ sending' = [sending EXCEPT ![m] = [at |-> "holding", ch |-> current']]
    /\ UNCHANGED <<count, told, arrived, stopping>>

\* Mutant of Enqueue: as many chunks as there is room for.
MutSome_Enqueue(m) ==
    LET c == sending[m].ch
        room == SnapSendBufSize - Len(channels[c].queue)
        chunks == SelectSeq(splitSnapshotMessage(m), LAMBDA k : k.id < room)
    IN  /\ sending[m].at = "holding"
        /\ sending' = [sending EXCEPT ![m].at = IF channels[c].closed THEN "refused" ELSE "accepted"]
        /\ channels' = IF channels[c].closed THEN channels
                       ELSE [channels EXCEPT ![c].queue = @ \o chunks]
        /\ UNCHANGED <<current, count, told, arrived, stopping>>

\* Under snapshotQueueMu: there is room for all the chunks and the channel is
\* not closed, or the snapshot is refused.
Enqueue(m) ==
    LET c == sending[m].ch
        chunks == splitSnapshotMessage(m)
        ok == /\ SnapSendBufSize - Len(channels[c].queue) >= Len(chunks)
              /\ ~channels[c].closed
    IN  /\ sending[m].at = "holding"
        /\ sending' = [sending EXCEPT ![m].at = IF ok THEN "accepted" ELSE "refused"]
        /\ channels' = IF ok THEN [channels EXCEPT ![c].queue = @ \o chunks] ELSE channels
        /\ UNCHANGED <<current, count, told, arrived, stopping>>

\* ASyncSendSnapshot when asyncSendSnapshot has returned false.
Refuse(m) ==
    /\ sending[m].at = "refused"
    /\ sending' = [sending EXCEPT ![m].at = "done"]
    /\ Notify({m}, "failed")
    /\ UNCHANGED <<channels, current, arrived, stopping>>

-----------------------------------------------------------------------------
(* The worker of a channel: connectAndProcessSnapshot.                      *)

Connected(c) ==
    /\ channels[c].worker = "connecting"
    /\ channels' = [channels EXCEPT ![c].worker = "running"]
    /\ UNCHANGED <<sending, current, count, told, arrived, stopping>>

NotConnected(c) ==
    /\ channels[c].worker = "connecting"
    /\ channels' = [channels EXCEPT ![c].worker = "leaving"]
    /\ Notify({channels[c].owner}, "failed")
    /\ UNCHANGED <<sending, current, arrived, stopping>>

\* processSnapshotQueue: a chunk is pulled.
Pull(c) ==
    /\ channels[c].worker = "running" /\ channels[c].queue # <<>>
    /\ ~IsLast(Head(channels[c].queue))
    /\ channels' = [channels EXCEPT ![c].queue = Tail(@), ![c].held = Append(@, Head(channels[c].queue))]
    /\ UNCHANGED <<sending, current, count, told, arrived, stopping>>

\* The last one: the first n of the chunks held are sent.  Then all were, or
\* the next one could not be read, or could not be sent.
SendChunk(c, n, how) ==
    LET image == Append(channels[c].held, Head(channels[c].queue))
        m == Head(channels[c].queue).image
    IN  /\ channels[c].worker = "running" /\ channels[c].queue # <<>>
        /\ IsLast(Head(channels[c].queue))
        /\ IF how = "ok" THEN n = Len(image) ELSE n < Len(image)
        /\ channels' = [channels EXCEPT ![c].queue = Tail(@), ![c].held = <<>>,
                                        ![c].worker = IF how = "broken" THEN "leaving" ELSE @]
        /\ arrived' = [arrived EXCEPT ![m] = SubSeq(image, 1, n)]
        /\ Notify({m}, IF how = "ok" THEN "ok" ELSE "failed")
        /\ UNCHANGED <<sending, current, stopping>>

StopWorker(c) ==
    /\ channels[c].worker = "running" /\ stopping
    /\ channels' = [channels EXCEPT ![c].worker = "leaving"]
    /\ UNCHANGED <<sending, current, count, told, arrived, stopping>>

\* shutdownQueue and cleanup, under both locks.
ShutdownQueue(c) ==
    LET queue == channels[c].queue
    IN  /\ channels[c].worker = "leaving"
        /\ channels' = [channels EXCEPT ![c].worker = "gone", ![c].closed = TRUE, ![c].queue = <<>>]
        /\ current' = 0
        /\ Notify({queue[i].image : i \in {j \in DOMAIN queue : queue[j].id = 0}}, "failed")
        /\ UNCHANGED <<sending, arrived, stopping>>

StopTransport ==
    /\ ~stopping /\ stopping' = TRUE
    /\ UNCHANGED <<sending, channels, current, count, told, arrived>>

LaneNext ==
    \/ \E m \in Images :
          Begin(m) \/ NotReady(m) \/ TakeChannel(m) \/ Enqueue(m) \/ Refuse(m)
    \/ \E c \in DOMAIN channels :
          \/ Connected(c) \/ NotConnected(c) \/ Pull(c) \/ StopWorker(c) \/ ShutdownQueue(c)
          \/ \E n \in 0 .. SnapSendBufSize, how \in {"ok", "unread", "broken"} : SendChunk(c, n, how)
    \/ StopTransport

-----------------------------------------------------------------------------
(* Properties.                                                              *)

InLane(c) == channels[c].held \o channels[c].queue

\* What a worker holds and will pull is made of whole images, one after the
\* other, whoever puts them in and whenever: "chunk alignment error" does not
\* happen, and a cut one does not hide among the others.
ImagesAreAligned ==
    \A c \in DOMAIN channels :
        LET lane == InLane(c)
        IN  /\ channels[c].worker # "gone" /\ lane # <<>> => lane[1].id = 0 /\ IsLast(Last(lane))
            /\ channels[c].worker # "gone" =>
                 \A i \in 2 .. Len(lane) :
                     IF lane[i].id = 0 THEN IsLast(lane[i - 1])
                     ELSE lane[i - 1].image = lane[i].image /\ lane[i - 1].id + 1 = lane[i].id

\* A raft node whose snapshot was accepted hears of it, as long as the
\* transport runs: its remote would stay in the Snapshot state for good.  Until
\* then the image is in a channel whose worker has not left it.
AcceptedIsTold ==
    ~stopping =>
        \A m \in Images :
            sending[m].at = "accepted" /\ told[m] = {} =>
                \E c \in DOMAIN channels :
                    /\ channels[c].worker # "gone"
                    /\ \E i \in DOMAIN InLane(c) : InLane(c)[i].image = m

\* A snapshot reported as sent was received with every file byte for byte.
OkIsWhole ==
    \A m \in Images : "ok" \in told[m] =>
        \A f \in DOMAIN FileSizes[m] :
            Rebuilt(arrived[m], f) = [k \in 1 .. FileSizes[m][f] |-> k]

\* snapshotCount is not above the number of images under way: a count that
\* leaks would in the end refuse every snapshot.
CountComesBack ==
    count <= Cardinality({m \in Images :
                 /\ sending[m].at \notin {"new", "done"}
                 /\ sending[m].at = "accepted" => told[m] = {}})

\* A snapshot handed to the transport arrives whole or is given up, and the
\* raft node hears which.
SnapshotsAreAnswered == ImagesAreAligned /\ AcceptedIsTold /\ OkIsWhole /\ CountComesBack

=============================================================================
