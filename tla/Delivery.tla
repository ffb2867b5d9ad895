------------------------------ MODULE Delivery ------------------------------
(***************************************************************************)
(* How a message reaches the step worker: the receiving threads put it     *)
(* into the node's MessageQueue (internal/server/message.go), mark the     *)
(* cluster in the worker's readyCluster (queue.go) and poke the worker's   *)
(* channel (workReady of execengine.go); the worker takes the marks, then  *)
(* the messages.  Queue and marks are double buffered, so that the worker  *)
(* reads without a lock.  entryQueue and readIndexQueue of queue.go work   *)
(* like MessageQueue.                                                      *)
(*                                                                         *)
(* One cluster and one worker.  The reports about snapshots sent           *)
(* (feedback.go) are held back for a while and then go the same way.       *)
(***************************************************************************)
EXTENDS Integers, Sequences

CONSTANTS Senders,      \* threads that deliver messages
          QueueLength,  \* RaftNodeReceiveQueueLength
          MaxMessages,  \* bound on the messages sent
          MaxReports,   \* bound on the reports about snapshots sent
          MaxAge        \* ticks a report is held back

ASSUME QueueLengthAssumption == QueueLength \in Nat

VARIABLES buffer,   \* the slots of left and right
          write,    \* which of the two is written
          idx, oldIdx,
          snapshot, \* the InstallSnapshot messages
          marked,   \* the two maps of readyCluster, and which one is ready
          readyCh,  \* does the channel hold a token?
          sender,   \* of each thread: what it has still to do
          reader,   \* the worker: at; what Get returned and how far it has read
          sent,     \* messages sent
          added,    \* what the queue took, in order: messages and snapshots
          handled,  \* what was handled of it, in order
          feedback  \* held: the reports kept; made, taken: how many there were

deliveryVars == <<buffer, write, idx, oldIdx, snapshot, marked, readyCh, sender, reader,
                  sent, added, handled, feedback>>

Sides == {"left", "right"}
Other(side) == CHOOSE s \in Sides : s # side
Empty == 0
\* Messages are numbered; the number of a report is above 100.
Report(k) == 100 + k
Held(age, k) == [age |-> age, k |-> k]
NoReport == Held(0, 0)
Nothing == [messages |-> <<>>, snapshots |-> <<>>]

DeliveryInit ==
    /\ buffer = [s \in Sides |-> [i \in 1 .. QueueLength |-> Empty]]
    /\ write = "right" /\ idx = 0 /\ oldIdx = 0 /\ snapshot = <<>>
    /\ marked = [ready |-> 0, maps |-> [m \in 0 .. 1 |-> FALSE]]
    /\ readyCh = FALSE
    /\ sender = [t \in Senders |-> "idle"]
    /\ reader = [at |-> "idle", side |-> "left", size |-> 0, first |-> <<>>, next |-> 1]
    /\ sent = 0 /\ added = Nothing /\ handled = Nothing
    /\ feedback = [held |-> NoReport, pushing |-> NoReport, made |-> 0]

-----------------------------------------------------------------------------
(* MessageQueue.                                                            *)

CanTake == idx < QueueLength

Add(m) ==
    /\ buffer' = [buffer EXCEPT ![write][idx + 1] = m]
    /\ idx' = idx + 1
    /\ added' = [added EXCEPT !.messages = Append(@, m)]

Flip(side) == Other(side)

\* gc with a lazyFreeCycle of 1, on the buffer that is to be written next.
Freed(b, side, old) ==
    [b EXCEPT ![side] = [i \in DOMAIN @ |-> IF i <= old THEN Empty ELSE @[i]]]

\* Get; snapshots come first.
Get ==
    /\ reader' = [at |-> "read", side |-> write, size |-> idx, first |-> snapshot, next |-> 1]
    /\ write' = Flip(write)
    /\ buffer' = Freed(buffer, Flip(write), oldIdx)
    /\ oldIdx' = idx /\ idx' = 0
    /\ snapshot' = <<>>

-----------------------------------------------------------------------------
(* The threads that deliver (HandleMessageBatch, sendTickMessage).          *)

\* A message the queue has no room for is dropped, and the worker is poked
\* all the same.
Deliver(t) ==
    /\ sender[t] = "idle" /\ sent < MaxMessages
    /\ sent' = sent + 1
    /\ \/ CanTake /\ Add(sent') /\ UNCHANGED snapshot
       \/ ~CanTake /\ UNCHANGED <<buffer, idx, added, snapshot>>
       \/ /\ snapshot' = Append(snapshot, sent')
          /\ added' = [added EXCEPT !.snapshots = Append(@, sent')]
          /\ UNCHANGED <<buffer, idx>>
    /\ sender' = [sender EXCEPT ![t] = "mark"]
    /\ UNCHANGED <<write, oldIdx, marked, readyCh, reader, handled, feedback>>

\* Mutant of Marked: the map the worker holds is marked.
MutOther_Marked == [marked EXCEPT !.maps[1 - marked.ready] = TRUE]

\* setClusterReady.
Marked == [marked EXCEPT !.maps[marked.ready] = TRUE]

SetClusterReady(t) ==
    /\ sender[t] = "mark"
    /\ marked' = Marked
    /\ sender' = [sender EXCEPT ![t] = "poke"]
    /\ UNCHANGED <<buffer, write, idx, oldIdx, snapshot, readyCh, reader, sent, added,
                   handled, feedback>>

\* The rest of clusterReady: a send that does not wait.
Poke(t) ==
    /\ sender[t] = "poke"
    /\ readyCh' = TRUE
    /\ sender' = [sender EXCEPT ![t] = "idle"]
    /\ UNCHANGED <<buffer, write, idx, oldIdx, snapshot, marked, reader, sent, added,
                   handled, feedback>>

-----------------------------------------------------------------------------
(* snapshotFeedback.  The clock is the age of the report held.              *)

\* addStatus and confirm replace the report that is held.
AddStatus(age) ==
    /\ feedback.made < MaxReports
    /\ feedback' = [feedback EXCEPT !.made = @ + 1, !.held = Held(age, feedback.made + 1)]
    /\ UNCHANGED <<buffer, write, idx, oldIdx, snapshot, marked, readyCh, sender, reader,
                   sent, added, handled>>

\* getReady, on the tick thread.
GetReadyReports ==
    /\ feedback.held # NoReport /\ feedback.pushing = NoReport
    /\ feedback' = IF feedback.held.age > 0 THEN [feedback EXCEPT !.held.age = @ - 1]
                   ELSE [feedback EXCEPT !.held = NoReport, !.pushing = feedback.held]
    /\ UNCHANGED <<buffer, write, idx, oldIdx, snapshot, marked, readyCh, sender, reader,
                   sent, added, handled>>

\* Mutant of Retry: what could not be delivered is given up.
MutGiveUp_Retry(f) == f

\* addRetry replaces what has been reported since.
Retry(f) == [f EXCEPT !.held = Held(1, f.pushing.k)]

\* pushSnapshotStatus, by the tick thread, and addRetry.
PushReport(t) ==
    LET f == [feedback EXCEPT !.pushing = NoReport]
    IN  /\ feedback.pushing # NoReport /\ sender[t] = "idle"
        /\ IF CanTake
           THEN /\ Add(Report(feedback.pushing.k))
                /\ sender' = [sender EXCEPT ![t] = "mark"]
                /\ feedback' = f
           ELSE /\ feedback' = [Retry(feedback) EXCEPT !.pushing = NoReport]
                /\ UNCHANGED <<buffer, idx, added, sender>>
        /\ UNCHANGED <<write, oldIdx, snapshot, marked, readyCh, reader, sent, handled>>

-----------------------------------------------------------------------------
(* The step worker.                                                         *)

\* nodeWorkerMain is woken by the channel.
Wake ==
    /\ reader.at = "idle" /\ readyCh
    /\ readyCh' = FALSE
    /\ reader' = [reader EXCEPT !.at = "woken"]
    /\ UNCHANGED <<buffer, write, idx, oldIdx, snapshot, marked, sender, sent, added,
                   handled, feedback>>

\* getReadyClusters; an empty map makes execNodes step every node it has.
GetReadyClusters ==
    /\ reader.at = "woken"
    /\ LET other == 1 - marked.ready
       IN  marked' = [ready |-> other, maps |-> [marked.maps EXCEPT ![other] = FALSE]]
    /\ reader' = [reader EXCEPT !.at = "step"]
    /\ UNCHANGED <<buffer, write, idx, oldIdx, snapshot, readyCh, sender, sent, added,
                   handled, feedback>>

\* stepNode takes the messages.
TakeMessages ==
    /\ reader.at = "step"
    /\ Get
    /\ UNCHANGED <<marked, readyCh, sender, sent, added, handled, feedback>>

\* handleReceivedMessages goes through them.
HandleNext ==
    /\ reader.at = "read"
    /\ LET k == reader.next - Len(reader.first)
       IN  IF k > reader.size
           THEN /\ reader' = [reader EXCEPT !.at = "idle"]
                /\ UNCHANGED handled
           ELSE /\ handled' = IF k <= 0
                              THEN [handled EXCEPT !.snapshots = Append(@, reader.first[reader.next])]
                              ELSE [handled EXCEPT !.messages = Append(@, buffer[reader.side][k])]
                /\ reader' = [reader EXCEPT !.next = @ + 1]
    /\ UNCHANGED <<buffer, write, idx, oldIdx, snapshot, marked, readyCh, sender, sent,
                   added, feedback>>

DeliverySteps(t) == SetClusterReady(t) \/ Poke(t)
DeliveryReads == Wake \/ GetReadyClusters \/ TakeMessages \/ HandleNext
DeliveryPushes == GetReadyReports \/ \E t \in Senders : PushReport(t)

DeliveryNext ==
    \/ \E t \in Senders : Deliver(t) \/ DeliverySteps(t)
    \/ \E age \in 0 .. MaxAge : AddStatus(age)
    \/ DeliveryPushes
    \/ DeliveryReads

DeliverySpec == DeliveryInit /\ [][DeliveryNext]_deliveryVars

-----------------------------------------------------------------------------
(* Properties.                                                              *)

DeliveryTypeOK ==
    /\ idx \in 0 .. QueueLength /\ oldIdx \in 0 .. QueueLength
    /\ reader.at \in {"idle", "woken", "step", "read"}
    /\ reader.size <= QueueLength

BeginsWith(s, t) == Len(t) <= Len(s) /\ t = SubSeq(s, 1, Len(t))

\* The worker reads the messages and the snapshots that were put in, each once
\* and in their order, although others are written into the queue meanwhile and
\* old ones are freed.
HandledAsSent ==
    /\ BeginsWith(added.messages, handled.messages)
    /\ BeginsWith(added.snapshots, handled.snapshots)

\* A node with messages is not forgotten: its cluster is marked and the
\* worker poked, or a thread is about to do so, or the worker is on its way
\* to the queue.
NoLostWakeup ==
    LET pending == idx > 0 \/ snapshot # <<>>
        marking == \E t \in Senders : sender[t] = "mark"
        poking == \E t \in Senders : sender[t] = "poke"
    IN  /\ pending => marking \/ marked.maps[marked.ready] \/ reader.at = "step"
        /\ marked.maps[marked.ready] => poking \/ readyCh \/ reader.at = "woken"

\* What was put into the queue is read as it was put in, and never forgotten.
DeliverySafe == DeliveryTypeOK /\ HandledAsSent /\ NoLostWakeup

\* Every message taken by the queue is handled in the end without the help of
\* the worker's ticker, and the last report about a snapshot, which frees the
\* leader's record of the member, or the one it was replaced by, arrives.
MessagesAreHandled ==
    <>[]( /\ handled = added
          /\ feedback.made > 0 => \E k \in DOMAIN handled.messages : handled.messages[k] > 100)

=============================================================================
