---------------------------- MODULE MessageLane -----------------------------
(***************************************************************************)
(* Raft messages on their way to one target address: ASyncSend,            *)
(* connectAndProcess and processQueue of transport/transport.go.  Messages *)
(* go into the channel of the target; its worker pulls them, packs them    *)
(* into batches of limited size and sends those.  The worker leaves when   *)
(* the connection breaks or has been idle, and with it the channel.        *)
(***************************************************************************)
EXTENDS Integers, Sequences, FiniteSets, SequencesExt

CONSTANTS Traffic,        \* the sizes of the messages, in the order they are sent
          SizeSlack,      \* SizeUpperLimit of a message minus its Size
          RpcMaxMsgSize, RpcSendBufSize,
          MaxQueues

ASSUME MessageLaneAssumption ==
    /\ {RpcMaxMsgSize, RpcSendBufSize, MaxQueues} \subseteq Nat \ {0}
    /\ SizeSlack \in Nat

VARIABLES
    next,   \* the message to send next
    taken,  \* the channel ASyncSend has taken for it, or 0
    queues, \* all channels ever made, with their workers
    queue,  \* t.mu.queues: the channel of the target, 0 for none
    wire    \* the batches sent

messageLaneVars == <<next, taken, queues, queue, wire>>

Weight(messages) == FoldLeft(LAMBDA sum, i : sum + Traffic[i], 0, messages)

MessageLaneInit ==
    /\ next = 1 /\ taken = 0 /\ queues = <<>> /\ queue = 0 /\ wire = <<>>

\* No address, or the circuit breaker is not ready: the message is dropped.
DropMessage ==
    /\ next <= Len(Traffic) /\ taken = 0
    /\ next' = next + 1
    /\ UNCHANGED <<taken, queues, queue, wire>>

TakeQueue ==
    /\ next <= Len(Traffic) /\ taken = 0
    /\ IF queue # 0 THEN UNCHANGED <<queues, queue>>
       ELSE /\ Len(queues) < MaxQueues
            /\ queues' = Append(queues, [waiting |-> <<>>, requests |-> <<>>, sz |-> 0, worker |-> "connecting"])
            /\ queue' = Len(queues) + 1
    /\ taken' = queue'
    /\ UNCHANGED <<next, wire>>

\* The message goes in, or is dropped when the channel is full.  The channel
\* may have lost its worker by now.
PutMessage ==
    /\ taken # 0
    /\ queues' = IF Len(queues[taken].waiting) < RpcSendBufSize
                 THEN [queues EXCEPT ![taken].waiting = Append(@, next)] ELSE queues
    /\ next' = next + 1 /\ taken' = 0
    /\ UNCHANGED <<queue, wire>>

-----------------------------------------------------------------------------
ConnectLane(q, ok) ==
    /\ queues[q].worker = "connecting"
    /\ queues' = [queues EXCEPT ![q].worker = IF ok THEN "running" ELSE "leaving"]
    /\ UNCHANGED <<next, taken, queue, wire>>

\* The first message of a batch counts with its SizeUpperLimit, the others,
\* pulled while the size stays below the limit, with their Size.
PullMessage(q) ==
    LET first == queues[q].requests = <<>>
        m == Head(queues[q].waiting)
    IN  /\ queues[q].worker = "running" /\ queues[q].waiting # <<>>
        /\ first \/ queues[q].sz < RpcMaxMsgSize
        /\ queues' = [queues EXCEPT ![q].waiting = Tail(@), ![q].requests = Append(@, m),
                                    ![q].sz = @ + Traffic[m] + (IF first THEN SizeSlack ELSE 0)]
        /\ UNCHANGED <<next, taken, queue, wire>>

\* Mutant of Batches: the last message stays in the first batch.
MutTwice_Batches(requests, sz) ==
    IF sz < RpcMaxMsgSize \/ Len(requests) = 1 THEN <<requests>>
    ELSE <<requests, <<Last(requests)>>>>

\* The message that made it too large goes into a batch of its own.
Batches(requests, sz) ==
    IF sz < RpcMaxMsgSize \/ Len(requests) = 1 THEN <<requests>>
    ELSE <<Front(requests), <<Last(requests)>>>>

\* sendMessageBatch: n batches are sent, and then the connection breaks if
\* these are not all.
SendBatches(q, n) ==
    LET batches == Batches(queues[q].requests, queues[q].sz)
    IN  /\ queues[q].worker = "running" /\ queues[q].requests # <<>>
        /\ queues[q].waiting = <<>> \/ queues[q].sz >= RpcMaxMsgSize
        /\ n <= Len(batches)
        /\ wire' = wire \o SubSeq(batches, 1, n)
        /\ queues' = [queues EXCEPT ![q].requests = <<>>, ![q].sz = 0,
                                    ![q].worker = IF n = Len(batches) THEN @ ELSE "leaving"]
        /\ UNCHANGED <<next, taken, queue>>

\* The stopper or the idle timer, when no batch is being made.
LeaveLane(q) ==
    /\ queues[q].worker = "running" /\ queues[q].requests = <<>>
    /\ queues' = [queues EXCEPT ![q].worker = "leaving"]
    /\ UNCHANGED <<next, taken, queue, wire>>

CloseLane(q) ==
    /\ queues[q].worker = "leaving"
    /\ queues' = [queues EXCEPT ![q].worker = "gone"]
    /\ queue' = 0
    /\ UNCHANGED <<next, taken, wire>>

MessageLaneNext ==
    \/ DropMessage \/ TakeQueue \/ PutMessage
    \/ \E q \in DOMAIN queues :
          \/ \E ok \in BOOLEAN : ConnectLane(q, ok)
          \/ PullMessage(q) \/ LeaveLane(q) \/ CloseLane(q)
          \/ \E n \in 0 .. 2 : SendBatches(q, n)

-----------------------------------------------------------------------------
(* Properties.                                                              *)

\* Messages may be dropped, but what goes out is in the order of ASyncSend
\* and nothing goes out twice, over all the connections and batches: the
\* leader's optimistic progress relies on it.
OrderIsKept ==
    LET sent == FlattenSeq(wire)
    IN  \A i \in 2 .. Len(sent) : sent[i - 1] < sent[i]

\* A batch of several messages stays below MaxMessageSize, although messages
\* are pulled until the limit is passed.
BatchesFit ==
    \A i \in DOMAIN wire : Len(wire[i]) > 1 => Weight(wire[i]) < RpcMaxMsgSize

\* What a lane sends is in order and in batches the other side accepts.
SentInOrder == OrderIsKept /\ BatchesFit

=============================================================================
