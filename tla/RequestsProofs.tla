--------------------------- MODULE RequestsProofs ---------------------------
(***************************************************************************)
(* Proofs about Requests: for any requests, shards, queue sizes and        *)
(* timeouts, a request is told one outcome, one that is earned, and a read *)
(* is told to go ahead only when what was committed before it is applied.  *)
(*                                                                         *)
(* The heart of the inductive invariant is NotToldYet: a request on any of *)
(* the lists that answers are given from has not been answered, unless the *)
(* close of that list has done so and marked it stopped.                   *)
(***************************************************************************)
EXTENDS Requests, FiniteSetTheorems, TLAPS

Codes == {"completed", "timeout", "terminated"}
Outcomes == {<<>>} \cup {<<c>> : c \in Codes}
Stages == {"idle", "reads", "messages", "gc"}

Typed ==
    /\ result \in [Requests -> Outcomes]
    /\ call \in [Requests -> {"none", "registered", "accepted", "refused"}]
    /\ left \in [Requests -> TooLate .. Timeout]
    /\ asked \in [Reads -> Nat] /\ mapping \in [Reads -> Nat]
    /\ pending \subseteq Requests
    /\ readQ \subseteq Reads /\ IsFiniteSet(readQ) /\ Cardinality(readQ) <= ReadQueueSize
    /\ proposalQ \in Seq(Proposals) /\ Len(proposalQ) <= QueueSize
    /\ changeC \in Seq(Changes) /\ Len(changeC) <= 1
    /\ stoppedShards \subseteq Shards /\ readStopped \in BOOLEAN
    /\ stepper \in [at : Stages, reads : SUBSET Reads, seen : Nat]
    /\ raftLog \in Seq(Requests \cup {Noop})
    /\ applied \in Nat /\ batched \in Nat
    /\ stepper.seen <= batched /\ batched <= applied /\ applied <= Len(raftLog)
    /\ applying \in [on : BOOLEAN, age : 0 .. 1]

\* Whoever is on a list has no result, or the list is stopped.
NotToldYet ==
    /\ \A r \in Requests : call[r] = "none" =>
          result[r] = <<>> /\ r \notin pending /\ r \notin readQ /\ r \notin stepper.reads
    /\ \A r \in pending \cap Proposals : ShardOf[r] \notin stoppedShards => result[r] = <<>>
    /\ \A r \in pending \cap Reads : ~readStopped => result[r] = <<>>
    /\ \A r \in pending \cap Changes : result[r] = <<>>
    /\ \A r \in readQ \cup stepper.reads : result[r] = <<>> /\ r \notin pending
    /\ readQ \cap stepper.reads = {}
    /\ stepper.at # "reads" => stepper.reads = {}

\* A proposal between the two halves of propose is pending.
RegisteredIsPending ==
    \A r \in Requests : call[r] = "registered" /\ result[r] = <<>> => r \in pending

\* A read waits for a context that raft confirms after the read was made.
ContextsInOrder ==
    /\ ctx \in Nat
    /\ \A c \in readsInRaft : c \in Nat /\ c < ctx
    /\ \A c \in DOMAIN batches : c \in Nat /\ c < ctx /\ batches[c] \in Nat
    /\ \A r \in Reads : asked[r] <= Len(raftLog)
    /\ \A r \in pending \cap Reads :
          /\ mapping[r] <= ctx
          /\ mapping[r] \in DOMAIN batches => asked[r] <= batches[mapping[r]]

\* The commit worker has a proposal in hand.
ProposalInHand == applying.on => applied > 0 /\ raftLog[applied] \in Proposals

\* The inductive invariant.
RequestsInv ==
    /\ Typed /\ NotToldYet /\ RegisteredIsPending /\ NothingForgotten
    /\ ContextsInOrder /\ ProposalInHand /\ ReadsAreFresh /\ AnswersAreEarned

-----------------------------------------------------------------------------
(* Answers.                                                                 *)

\* The step tells each of `told` its outcome, and nobody else.
Tells(told) ==
    /\ told \subseteq Requests /\ \A r \in told : result[r] = <<>>
    /\ result' \in [Requests -> Outcomes]
    /\ \A r \in Requests : r \notin told => result'[r] = result[r]
    /\ \A r \in told : result'[r] # <<>>

\* What they are told is true.
Truly(told) ==
    \A r \in told :
        /\ result'[r] = <<"completed">> /\ r \in Reads => asked[r] <= applied'
        /\ result'[r] = <<"completed">> /\ r \in Proposals \cup Changes =>
              \E i \in 1 .. applied' : raftLog[i] = r
        /\ result'[r] = <<"timeout">> => left[r] <= 0

\* The first result of a channel.
LEMMA FirstResult ==
    ASSUME NEW c \in Codes
    PROVE  Append(<<>>, c) = <<c>> /\ <<c>> \in Outcomes /\ <<c>> # <<>>
BY DEF Codes, Outcomes

\* Three different codes.
LEMMA CodesApart ==
    /\ <<"completed">> # <<"timeout">> /\ <<"completed">> # <<"terminated">>
    /\ <<"timeout">> # <<"terminated">>
<1>1. /\ <<"completed">>[1] = "completed" /\ <<"timeout">>[1] = "timeout"
      /\ <<"terminated">>[1] = "terminated"
  BY Zenon
<1> QED BY <1>1, Zenon

\* Requests are of one kind.
LEMMA Kinds ==
    ASSUME NEW r \in Requests
    PROVE  /\ r \in Proposals \/ r \in Reads \/ r \in Changes
           /\ r \in Proposals => r \notin Reads /\ r \notin Changes
           /\ r \in Reads => r \notin Changes
BY RequestsAssumption, Zenon DEF Requests

\* Some of the pending requests are told and unregistered.
LEMMA Unregister ==
    ASSUME RequestsInv, NEW told \in SUBSET pending, Tells(told), pending' = pending \ told,
           UNCHANGED <<call, readQ, stoppedShards, readStopped>>,
           stepper'.reads = stepper.reads, stepper'.at # "reads" => stepper'.reads = {}
    PROVE  NotToldYet' /\ RegisteredIsPending' /\ NothingForgotten'
<1>1. \A r \in Requests : r \notin told => result'[r] = result[r]
  BY Zenon DEF Tells
<1>2. pending \subseteq Requests /\ readQ \subseteq Requests /\ stepper.reads \subseteq Requests
  BY Zenon DEF RequestsInv, Typed, Requests
<1>3. NotToldYet'
  BY <1>1, <1>2, Zenon DEF RequestsInv, NotToldYet
<1>4. RegisteredIsPending'
  BY <1>1, Zenon DEF Tells, RequestsInv, RegisteredIsPending
<1>5. NothingForgotten'
  BY <1>1, Zenon DEF Tells, RequestsInv, NothingForgotten
<1> QED BY <1>3, <1>4, <1>5, Zenon

\* True answers keep what is claimed of all answers.
LEMMA TrueAnswers ==
    ASSUME RequestsInv, NEW told, Tells(told), Truly(told), UNCHANGED <<left, asked, raftLog>>,
           applied' \in Nat, applied <= applied'
    PROVE  ReadsAreFresh' /\ AnswersAreEarned'
<1>1. \A r \in Requests : r \notin told => result'[r] = result[r]
  BY Zenon DEF Tells
<1>2. applied \in Nat /\ asked \in [Reads -> Nat]
  BY Zenon DEF RequestsInv, Typed
<1>3. ReadsAreFresh'
  <2> SUFFICES ASSUME NEW r \in Reads, result'[r] = <<"completed">> PROVE asked[r] <= applied'
    BY Zenon DEF ReadsAreFresh
  <2>1. CASE r \in told
    BY <2>1, Zenon DEF Truly
  <2>2. CASE r \notin told
    BY <1>1, <1>2, <2>2 DEF RequestsInv, ReadsAreFresh, Requests
  <2> QED BY <2>1, <2>2, Zenon
<1>4. ASSUME NEW r \in Proposals \cup Changes, result'[r] = <<"completed">>
      PROVE  \E i \in 1 .. applied' : raftLog[i] = r
  <2>1. CASE r \in told
    BY <1>4, <2>1, Zenon DEF Truly
  <2>2. CASE r \notin told
    <3>1. result[r] = <<"completed">>
      BY <1>1, <1>4, <2>2, Zenon DEF Requests
    <3>2. PICK i \in 1 .. applied : raftLog[i] = r
      BY <3>1, Zenon DEF RequestsInv, AnswersAreEarned
    <3>3. i \in 1 .. applied'
      BY <1>2
    <3> QED BY <3>2, <3>3, Zenon
  <2> QED BY <2>1, <2>2, Zenon
<1>5. ASSUME NEW r \in Requests, result'[r] = <<"timeout">> PROVE left[r] <= 0
  BY <1>1, <1>5, Zenon DEF Truly, RequestsInv, AnswersAreEarned
<1>6. AnswersAreEarned'
  BY <1>4, <1>5, Zenon DEF AnswersAreEarned
<1> QED BY <1>3, <1>6, Zenon

\* Nobody is told anything.
LEMMA NoAnswers ==
    ASSUME RequestsInv, UNCHANGED <<result, left, asked, raftLog, applied>>
    PROVE  ReadsAreFresh' /\ AnswersAreEarned'
BY Zenon DEF RequestsInv, ReadsAreFresh, AnswersAreEarned

-----------------------------------------------------------------------------
(* Steps that answer nobody.                                                *)

LEMMA InvInit == RequestsInit => RequestsInv
<1> SUFFICES ASSUME RequestsInit PROVE RequestsInv
  BY Zenon
<1>1. Typed
  <2>1. IsFiniteSet(readQ) /\ Cardinality(readQ) = 0
    BY FS_EmptySet, Zenon DEF RequestsInit
  <2>2. Cardinality(readQ) <= ReadQueueSize
    BY <2>1, RequestsAssumption
  <2>3. left \in [Requests -> TooLate .. Timeout] /\ result \in [Requests -> Outcomes]
    BY RequestsAssumption DEF RequestsInit, TooLate, Outcomes
  <2>4. stepper \in [at : Stages, reads : SUBSET Reads, seen : Nat] /\ stepper.seen = 0
    BY Zenon DEF RequestsInit, StepperIdle, Stages
  <2>5. applying \in [on : BOOLEAN, age : 0 .. 1]
    BY DEF RequestsInit
  <2>6. /\ proposalQ \in Seq(Proposals) /\ Len(proposalQ) = 0
        /\ changeC \in Seq(Changes) /\ Len(changeC) = 0
        /\ raftLog \in Seq(Requests \cup {Noop}) /\ Len(raftLog) = 0
    BY DEF RequestsInit
  <2>7. /\ call \in [Requests -> {"none", "registered", "accepted", "refused"}]
        /\ asked \in [Reads -> Nat] /\ mapping \in [Reads -> Nat]
    BY Zenon DEF RequestsInit
  <2>8. QueueSize \in Nat /\ applied = 0 /\ batched = 0
    BY RequestsAssumption, Zenon DEF RequestsInit
  <2>9. stepper.seen <= batched /\ batched <= applied /\ applied <= Len(raftLog)
        /\ Len(proposalQ) <= QueueSize /\ Len(changeC) <= 1
    BY <2>4, <2>6, <2>8
  <2>10. /\ pending \subseteq Requests /\ readQ \subseteq Reads /\ stoppedShards \subseteq Shards
         /\ readStopped \in BOOLEAN
    BY Zenon DEF RequestsInit
  <2> QED BY <2>1, <2>2, <2>3, <2>4, <2>5, <2>6, <2>7, <2>8, <2>9, <2>10, Zenon DEF Typed
<1>2. NotToldYet /\ RegisteredIsPending /\ NothingForgotten /\ ProposalInHand
  BY Zenon DEF RequestsInit, NotToldYet, RegisteredIsPending, NothingForgotten, ProposalInHand, StepperIdle
<1>3. ContextsInOrder
  BY DEF RequestsInit, ContextsInOrder
<1>4. ReadsAreFresh /\ AnswersAreEarned
  BY Zenon DEF RequestsInit, ReadsAreFresh, AnswersAreEarned, Requests
<1> QED BY <1>1, <1>2, <1>3, <1>4, Zenon DEF RequestsInv

LEMMA InvPropose ==
    ASSUME NEW r \in Requests, RequestsInv, Propose(r)
    PROVE  RequestsInv'
<1>1. r \in Proposals /\ result[r] = <<>>
  BY Zenon DEF Propose, RequestsInv, NotToldYet
<1>2. Typed'
  BY RequestsAssumption DEF Propose, RequestsInv, Typed, TooLate, queueVars, stopVars, readVars, raftVars, applyVars
<1>3. NotToldYet'
  BY <1>1, Kinds, Zenon DEF Propose, RequestsInv, Typed, NotToldYet, queueVars, stopVars
<1>4. RegisteredIsPending'
  BY Zenon DEF Propose, RequestsInv, Typed, RegisteredIsPending
<1>5. NothingForgotten'
  BY Zenon DEF Propose, RequestsInv, Typed, NothingForgotten, queueVars, stopVars
<1>6. ContextsInOrder'
  BY <1>1, Kinds, Zenon DEF Propose, RequestsInv, ContextsInOrder, readVars, raftVars
<1>7. ProposalInHand'
  BY Zenon DEF Propose, RequestsInv, ProposalInHand, raftVars, applyVars
<1>8. ReadsAreFresh'
  BY Zenon DEF Propose, RequestsInv, ReadsAreFresh, applyVars
<1>9. AnswersAreEarned'
  <2>1. \A q \in Requests : result[q] = <<"timeout">> => q # r
    BY <1>1
  <2> QED BY <2>1, Zenon DEF Propose, RequestsInv, Typed, AnswersAreEarned, applyVars, raftVars
<1> QED BY <1>2, <1>3, <1>4, <1>5, <1>6, <1>7, <1>8, <1>9, Zenon DEF RequestsInv

LEMMA InvEnqueue ==
    ASSUME NEW r \in Requests, RequestsInv, Enqueue(r)
    PROVE  RequestsInv'
<1>1. r \in Proposals /\ call[r] = "registered" /\ pending' \subseteq pending
  BY Zenon DEF Enqueue
<1>2. call' \in [Requests -> {"none", "registered", "accepted", "refused"}]
  BY Zenon DEF Enqueue, RequestsInv, Typed
<1>3. proposalQ' \in Seq(Proposals) /\ Len(proposalQ') <= QueueSize
  <2>1. proposalQ \in Seq(Proposals) /\ Len(proposalQ) <= QueueSize /\ QueueSize \in Nat
    BY RequestsAssumption, Zenon DEF RequestsInv, Typed
  <2>2. proposalQ' = proposalQ \/ (Len(proposalQ) < QueueSize /\ proposalQ' = Append(proposalQ, r))
    BY Zenon DEF Enqueue, CanAdd
  <2> QED BY <1>1, <2>1, <2>2
<1>4. Typed'
  BY <1>1, <1>2, <1>3, Zenon DEF Enqueue, RequestsInv, Typed, stopVars, readVars, raftVars, applyVars
<1>5. NotToldYet'
  BY <1>1, Zenon DEF Enqueue, RequestsInv, Typed, NotToldYet, stopVars
<1>6. RegisteredIsPending'
  BY Zenon DEF Enqueue, RequestsInv, Typed, RegisteredIsPending
<1>7. NothingForgotten'
  BY <1>1, Zenon DEF Enqueue, RequestsInv, Typed, RegisteredIsPending, NothingForgotten, stopVars
<1>8. ContextsInOrder'
  BY <1>1, Zenon DEF Enqueue, RequestsInv, ContextsInOrder, readVars, raftVars
<1>9. ProposalInHand'
  BY Zenon DEF Enqueue, RequestsInv, ProposalInHand, raftVars, applyVars
<1>10. ReadsAreFresh' /\ AnswersAreEarned'
  BY NoAnswers, Zenon DEF Enqueue, raftVars, applyVars
<1> QED BY <1>4, <1>5, <1>6, <1>7, <1>8, <1>9, <1>10, Zenon DEF RequestsInv

LEMMA InvRead ==
    ASSUME NEW r \in Requests, RequestsInv, Read(r)
    PROVE  RequestsInv'
<1>1. /\ r \in Reads /\ call[r] = "none" /\ result[r] = <<>>
      /\ r \notin pending /\ r \notin readQ /\ r \notin stepper.reads
  BY Zenon DEF Read, RequestsInv, NotToldYet
<1>2. readQ' \subseteq Reads /\ IsFiniteSet(readQ') /\ Cardinality(readQ') <= ReadQueueSize
  <2>1. IsFiniteSet(readQ \cup {r}) /\ Cardinality(readQ \cup {r}) = Cardinality(readQ) + 1
        /\ Cardinality(readQ) \in Nat
    BY <1>1, FS_AddElement, FS_CardinalityType, Zenon DEF RequestsInv, Typed
  <2>2. \/ readQ' = readQ
        \/ Cardinality(readQ) < ReadQueueSize /\ readQ' = readQ \cup {r}
    BY Zenon DEF Read
  <2>3. readQ \subseteq Reads /\ IsFiniteSet(readQ) /\ Cardinality(readQ) <= ReadQueueSize
    BY Zenon DEF RequestsInv, Typed
  <2>4. CASE readQ' = readQ
    BY <2>3, <2>4, Zenon
  <2>5. CASE Cardinality(readQ) < ReadQueueSize /\ readQ' = readQ \cup {r}
    <3>1. ReadQueueSize \in Nat
      BY RequestsAssumption, Zenon
    <3>2. Cardinality(readQ) + 1 <= ReadQueueSize
      BY <2>1, <2>5, <3>1
    <3> QED BY <1>1, <2>1, <2>3, <2>5, <3>2, Zenon
  <2> QED BY <2>2, <2>4, <2>5, Zenon
<1>3. left' \in [Requests -> TooLate .. Timeout]
  BY RequestsAssumption DEF Read, RequestsInv, Typed, TooLate
<1>4. Len(raftLog) \in Nat
  BY DEF RequestsInv, Typed
<1>5. call' \in [Requests -> {"none", "registered", "accepted", "refused"}] /\ asked' \in [Reads -> Nat]
  BY <1>4, Zenon DEF Read, RequestsInv, Typed
<1>6. Typed'
  BY <1>2, <1>3, <1>5, Zenon DEF Read, RequestsInv, Typed, stopVars, readVars, raftVars, applyVars
<1>7. NotToldYet'
  BY <1>1 DEF Read, RequestsInv, Typed, NotToldYet, stopVars
<1>8. RegisteredIsPending'
  BY Zenon DEF Read, RequestsInv, Typed, RegisteredIsPending
<1>9. NothingForgotten'
  BY <1>1, Zenon DEF Read, RequestsInv, Typed, NothingForgotten, stopVars
<1>10. ContextsInOrder'
  BY <1>1, <1>4 DEF Read, RequestsInv, Typed, ContextsInOrder, readVars, raftVars
<1>11. ProposalInHand'
  BY Zenon DEF Read, RequestsInv, ProposalInHand, raftVars, applyVars
<1>12. ReadsAreFresh'
  <2>1. \A q \in Reads : q # r => asked'[q] = asked[q]
    BY Zenon DEF Read, RequestsInv, Typed
  <2>2. result[r] # <<"completed">>
    BY <1>1
  <2> QED BY <2>1, <2>2, Zenon DEF Read, RequestsInv, ReadsAreFresh, applyVars
<1>13. AnswersAreEarned'
  <2>1. \A q \in Requests : result[q] = <<"timeout">> => q # r
    BY <1>1
  <2> QED BY <2>1, Zenon DEF Read, RequestsInv, Typed, AnswersAreEarned, applyVars, raftVars
<1> QED BY <1>6, <1>7, <1>8, <1>9, <1>10, <1>11, <1>12, <1>13, Zenon DEF RequestsInv

LEMMA InvRequestChange ==
    ASSUME NEW r \in Requests, RequestsInv, RequestChange(r)
    PROVE  RequestsInv'
<1>1. /\ r \in Changes /\ call[r] = "none" /\ result[r] = <<>>
      /\ r \notin pending /\ r \notin readQ /\ r \notin stepper.reads
  BY Zenon DEF RequestChange, RequestsInv, NotToldYet
<1>2. changeC' \in Seq(Changes) /\ Len(changeC') <= 1
  <2>1. changeC' = changeC \/ changeC' = <<r>>
    BY Zenon DEF RequestChange
  <2>2. <<r>> \in Seq(Changes) /\ Len(<<r>>) = 1
    BY <1>1
  <2>3. CASE changeC' = changeC
    BY <2>3, Zenon DEF RequestsInv, Typed
  <2>4. CASE changeC' = <<r>>
    BY <2>2, <2>4
  <2> QED BY <2>1, <2>3, <2>4, Zenon
<1>3. left' \in [Requests -> TooLate .. Timeout] /\ \A q \in Requests : q # r => left'[q] = left[q]
  <2>1. left' = left \/ left' = [left EXCEPT ![r] = Timeout]
    BY Zenon DEF RequestChange
  <2>2. left \in [Requests -> TooLate .. Timeout] /\ Timeout \in TooLate .. Timeout
    BY RequestsAssumption DEF RequestsInv, Typed, TooLate
  <2> QED BY <2>1, <2>2, Zenon
<1>4. Typed'
  BY <1>2, <1>3, ZenonT(60) DEF RequestChange, RequestsInv, Typed, stopVars, readVars, raftVars, applyVars
<1>5. NotToldYet'
  BY <1>1, Kinds DEF RequestChange, RequestsInv, Typed, NotToldYet, stopVars
<1>6. RegisteredIsPending'
  BY Zenon DEF RequestChange, RequestsInv, Typed, RegisteredIsPending
<1>7. NothingForgotten'
  BY <1>1, Zenon DEF RequestChange, RequestsInv, Typed, NothingForgotten, stopVars
<1>8. ContextsInOrder'
  <2>1. pending' \cap Reads \subseteq pending
    BY <1>1, Kinds DEF RequestChange
  <2> QED BY <2>1, Zenon DEF RequestChange, RequestsInv, ContextsInOrder, readVars, raftVars
<1>9. ProposalInHand'
  BY Zenon DEF RequestChange, RequestsInv, ProposalInHand, raftVars, applyVars
<1>10. ReadsAreFresh'
  BY Zenon DEF RequestChange, RequestsInv, ReadsAreFresh, applyVars
<1>11. AnswersAreEarned'
  <2>1. \A q \in Requests : result[q] = <<"timeout">> => left'[q] = left[q]
    BY <1>1, <1>3
  <2> QED BY <2>1, Zenon DEF RequestChange, RequestsInv, AnswersAreEarned, applyVars, raftVars
<1> QED BY <1>4, <1>5, <1>6, <1>7, <1>8, <1>9, <1>10, <1>11, Zenon DEF RequestsInv

LEMMA InvTakeReads == RequestsInv /\ TakeReads => RequestsInv'
<1> SUFFICES ASSUME RequestsInv, TakeReads PROVE RequestsInv'
  BY Zenon
<1>1. stepper.reads = {} /\ stepper'.reads = readQ /\ readQ' = {} /\ stepper'.seen = batched
      /\ stepper' \in [at : Stages, reads : SUBSET Reads, seen : Nat]
      /\ (stepper'.at # "reads" => stepper'.reads = {})
  BY Zenon DEF TakeReads, RequestsInv, Typed, NotToldYet, Stages
<1>2. IsFiniteSet(readQ') /\ Cardinality(readQ') <= ReadQueueSize
  <2>1. IsFiniteSet(readQ') /\ Cardinality(readQ') = 0
    BY <1>1, FS_EmptySet, Zenon
  <2> QED BY <2>1, RequestsAssumption
<1>3. Typed'
  BY <1>1, <1>2 DEF TakeReads, RequestsInv, Typed, clientVars, stopVars, readVars, raftVars, applyVars
<1>4. NotToldYet'
  BY <1>1, Zenon DEF TakeReads, RequestsInv, NotToldYet, clientVars, stopVars
<1>5. RegisteredIsPending'
  BY Zenon DEF TakeReads, RequestsInv, RegisteredIsPending, clientVars
<1>6. NothingForgotten'
  BY <1>1, Zenon DEF TakeReads, RequestsInv, NothingForgotten, clientVars, stopVars
<1>7. ContextsInOrder'
  BY Zenon DEF TakeReads, RequestsInv, ContextsInOrder, clientVars, readVars, raftVars
<1>8. ProposalInHand'
  BY Zenon DEF TakeReads, RequestsInv, ProposalInHand, raftVars, applyVars
<1>9. ReadsAreFresh' /\ AnswersAreEarned'
  BY NoAnswers, Zenon DEF TakeReads, clientVars, raftVars, applyVars
<1> QED BY <1>3, <1>4, <1>5, <1>6, <1>7, <1>8, <1>9, Zenon DEF RequestsInv

\* The reads taken are registered under a context raft has not seen.
LEMMA InvAddPendingRead == RequestsInv /\ AddPendingRead => RequestsInv'
<1> SUFFICES ASSUME RequestsInv, AddPendingRead PROVE RequestsInv'
  BY Zenon
<1> DEFINE kept == Kept(stepper.reads)
<1>1. /\ kept \subseteq Reads /\ kept \subseteq stepper.reads
      /\ (~readStopped => kept = stepper.reads) /\ (readStopped => kept = {})
  BY Zenon DEF Kept, RequestsInv, Typed
<1>2. /\ pending' = pending \cup kept
      /\ mapping' = [r \in Reads |-> IF r \in kept THEN ctx ELSE mapping[r]]
  BY Zenon DEF AddPendingRead
<1> HIDE DEF kept
<1>3. /\ stepper' \in [at : Stages, reads : SUBSET Reads, seen : Nat]
      /\ stepper'.seen = stepper.seen /\ stepper'.reads = {}
  BY Zenon DEF AddPendingRead, RequestsInv, Typed, Stages
<1>4. mapping' \in [Reads -> Nat] /\ pending' \subseteq Requests
  BY <1>1, <1>2, Zenon DEF RequestsInv, Typed, ContextsInOrder, Requests
<1>5. Typed'
  BY <1>3, <1>4, Zenon DEF AddPendingRead, RequestsInv, Typed, clientVars, queueVars, stopVars, raftVars, applyVars
<1>6. NotToldYet'
  BY <1>1, <1>2, <1>3, Kinds, Zenon DEF AddPendingRead, RequestsInv, Typed, NotToldYet, clientVars, queueVars, stopVars
<1>7. RegisteredIsPending'
  BY <1>2, Zenon DEF AddPendingRead, RequestsInv, RegisteredIsPending, clientVars
<1>8. NothingForgotten'
  BY <1>1, <1>2, <1>3, Zenon DEF AddPendingRead, RequestsInv, Typed, NothingForgotten, clientVars, queueVars, stopVars
<1>9. ContextsInOrder'
  <2>1. ASSUME NEW r \in pending' \cap Reads
        PROVE  mapping'[r] <= ctx /\ (mapping'[r] \in DOMAIN batches => asked[r] <= batches[mapping'[r]])
    <3>1. CASE r \in kept
      <4>1. mapping'[r] = ctx /\ ctx \in Nat /\ ctx \notin DOMAIN batches
        BY <1>2, <3>1 DEF RequestsInv, ContextsInOrder
      <4> QED BY <4>1
    <3>2. CASE r \notin kept
      <4>1. mapping'[r] = mapping[r] /\ r \in pending \cap Reads
        BY <1>2, <3>2, Zenon
      <4> QED BY <4>1, Zenon DEF RequestsInv, ContextsInOrder
    <3> QED BY <3>1, <3>2, Zenon
  <2> QED BY <2>1, Zenon DEF AddPendingRead, RequestsInv, ContextsInOrder, clientVars, raftVars
<1>10. ProposalInHand'
  BY Zenon DEF AddPendingRead, RequestsInv, ProposalInHand, raftVars, applyVars
<1>11. ReadsAreFresh' /\ AnswersAreEarned'
  BY NoAnswers, Zenon DEF AddPendingRead, clientVars, raftVars, applyVars
<1> QED BY <1>5, <1>6, <1>7, <1>8, <1>9, <1>10, <1>11, Zenon DEF RequestsInv

\* A tick moves deadlines, but not those of requests that have been answered.
LEMMA TickKeeps ==
    ASSUME RequestsInv, NEW ticks \in 0 .. 1, Tick(ticks)
    PROVE  /\ left' \in [Requests -> TooLate .. Timeout]
           /\ \A r \in Requests : result[r] # <<>> => left'[r] = left[r]
           /\ applying' \in [on : BOOLEAN, age : 0 .. 1] /\ applying'.on = applying.on
<1>1. \A r \in Requests : left[r] \in TooLate .. Timeout
  BY Zenon DEF RequestsInv, Typed
<1>2. \A t \in TooLate .. Timeout : Ticked(t, ticks) \in TooLate .. Timeout
  BY RequestsAssumption DEF Ticked, TooLate
<1>3. left' = [r \in Requests |-> IF Waiting(r) THEN Ticked(left[r], ticks) ELSE left[r]]
  BY Zenon DEF Tick
<1>4. left' \in [Requests -> TooLate .. Timeout]
  BY <1>1, <1>2, <1>3, Zenon
<1>5. \A r \in Requests : result[r] # <<>> => left'[r] = left[r]
  BY <1>3, Zenon DEF Waiting
<1>6. applying' \in [on : BOOLEAN, age : 0 .. 1] /\ applying'.on = applying.on
  <2>1. applying \in [on : BOOLEAN, age : 0 .. 1] /\ applying.age + ticks <= 1
    BY Zenon DEF RequestsInv, Typed, Tick
  <2>2. applying' = [applying EXCEPT !.age = IF applying.on THEN applying.age + ticks ELSE 0]
    BY <2>1, Zenon DEF Tick
  <2>3. applying.age + ticks \in 0 .. 1
    BY <2>1
  <2> QED BY <2>1, <2>2, <2>3
<1> QED BY <1>4, <1>5, <1>6, Zenon

LEMMA InvMessages ==
    ASSUME NEW ticks \in 0 .. 1, RequestsInv, Messages(ticks)
    PROVE  RequestsInv'
<1>1. /\ left' \in [Requests -> TooLate .. Timeout]
      /\ \A r \in Requests : result[r] # <<>> => left'[r] = left[r]
      /\ applying' \in [on : BOOLEAN, age : 0 .. 1] /\ applying'.on = applying.on
  BY TickKeeps, Zenon DEF Messages
<1>2. /\ stepper' \in [at : Stages, reads : SUBSET Reads, seen : Nat]
      /\ stepper'.seen = stepper.seen /\ stepper'.reads = stepper.reads
      /\ stepper.reads = {}
  BY Zenon DEF Messages, RequestsInv, Typed, NotToldYet, Stages
<1>3. changeC' = <<>> /\ proposalQ' = <<>>
  BY Zenon DEF Messages
<1>4. /\ changeC' \in Seq(Changes) /\ Len(changeC') <= 1
      /\ proposalQ' \in Seq(Proposals) /\ Len(proposalQ') <= QueueSize
  BY <1>3, RequestsAssumption
<1>5. UNCHANGED <<clientVars, result, pending, readQ, stopVars, mapping, batches, raftLog, applied, batched>>
  BY Zenon DEF Messages
<1>6. Typed'
  BY <1>1, <1>2, <1>4, <1>5, Zenon DEF RequestsInv, Typed, clientVars, stopVars
<1>7. NotToldYet'
  BY <1>2, <1>5, Zenon DEF RequestsInv, NotToldYet, clientVars, stopVars
<1>8. RegisteredIsPending' /\ NothingForgotten'
  BY <1>2, <1>5, Zenon DEF RequestsInv, RegisteredIsPending, NothingForgotten, clientVars, stopVars
<1>9. ContextsInOrder'
  <2>1. /\ ctx' \in Nat /\ ctx <= ctx'
        /\ \A c \in readsInRaft' : c \in Nat /\ c < ctx'
    <3>1. \/ readsInRaft' = readsInRaft /\ ctx' = ctx
          \/ readsInRaft' = readsInRaft \cup {ctx} /\ ctx' = ctx + 1
      BY Zenon DEF Messages
    <3>2. ctx \in Nat /\ \A c \in readsInRaft : c \in Nat /\ c < ctx
      BY Zenon DEF RequestsInv, ContextsInOrder
    <3> QED BY <3>1, <3>2
  <2>2. \A c \in DOMAIN batches : c \in Nat /\ c < ctx' /\ batches[c] \in Nat
    BY <2>1 DEF RequestsInv, ContextsInOrder
  <2>3. \A r \in pending \cap Reads : mapping[r] <= ctx'
    BY <2>1 DEF RequestsInv, Typed, ContextsInOrder
  <2> QED BY <1>5, <2>1, <2>2, <2>3, Zenon DEF RequestsInv, ContextsInOrder, clientVars
<1>10. ProposalInHand'
  BY <1>1, <1>5, Zenon DEF RequestsInv, ProposalInHand
<1>11. ReadsAreFresh'
  BY <1>5, Zenon DEF RequestsInv, ReadsAreFresh, clientVars
<1>12. AnswersAreEarned'
  <2>1. \A r \in Requests : result[r] = <<"timeout">> => left'[r] = left[r]
    BY <1>1
  <2> QED BY <1>5, <2>1, Zenon DEF RequestsInv, AnswersAreEarned
<1> QED BY <1>6, <1>7, <1>8, <1>9, <1>10, <1>11, <1>12, Zenon DEF RequestsInv

LEMMA InvRaftCommit ==
    ASSUME NEW e \in Requests \cup {Noop}, RequestsInv, RaftCommit(e)
    PROVE  RequestsInv'
<1>1. raftLog' = Append(raftLog, e) /\ raftLog \in Seq(Requests \cup {Noop})
  BY Zenon DEF RaftCommit, RequestsInv, Typed
<1>2. /\ raftLog' \in Seq(Requests \cup {Noop}) /\ Len(raftLog) \in Nat /\ Len(raftLog') = Len(raftLog) + 1
      /\ \A i \in 1 .. Len(raftLog) : raftLog'[i] = raftLog[i]
  BY <1>1
<1>3. applied \in Nat /\ applied <= Len(raftLog)
  BY Zenon DEF RequestsInv, Typed
<1>4. applied <= Len(raftLog') /\ \A i \in 1 .. applied : raftLog'[i] = raftLog[i]
  BY <1>2, <1>3
<1>5. Typed'
  BY <1>2, <1>4, Zenon DEF RaftCommit, RequestsInv, Typed, clientVars, queueVars, stopVars, readVars, applyVars
<1>6. NotToldYet'
  BY Zenon DEF RaftCommit, RequestsInv, NotToldYet, clientVars, queueVars, stopVars
<1>7. RegisteredIsPending' /\ NothingForgotten'
  BY Zenon DEF RaftCommit, RequestsInv, RegisteredIsPending, NothingForgotten, clientVars, queueVars, stopVars
<1>8. ContextsInOrder'
  <2>1. \A r \in Reads : asked[r] <= Len(raftLog')
    <3>1. \A r \in Reads : asked[r] \in Nat /\ asked[r] <= Len(raftLog)
      BY Zenon DEF RequestsInv, Typed, ContextsInOrder
    <3> QED BY <1>2, <3>1
  <2> QED BY <2>1, Zenon DEF RaftCommit, RequestsInv, ContextsInOrder, clientVars, readVars
<1>9. ProposalInHand'
  <2>1. UNCHANGED applyVars /\ ProposalInHand
    BY Zenon DEF RaftCommit, RequestsInv
  <2> QED BY <1>3, <1>4, <2>1 DEF ProposalInHand, applyVars
<1>10. ReadsAreFresh'
  BY Zenon DEF RaftCommit, RequestsInv, ReadsAreFresh, clientVars, applyVars
<1>11. AnswersAreEarned'
  BY <1>4, Zenon DEF RaftCommit, RequestsInv, AnswersAreEarned, applyVars
<1> QED BY <1>5, <1>6, <1>7, <1>8, <1>9, <1>10, <1>11, Zenon DEF RequestsInv

-----------------------------------------------------------------------------
(* Steps that answer.                                                       *)

\* Who may be told by a collection or by an entry: pending, and not yet told.
Untold ==
    {r \in pending : /\ r \in Proposals => ShardOf[r] \notin stoppedShards
                     /\ r \in Reads => ~readStopped}

LEMMA UntoldIsUntold ==
    ASSUME RequestsInv
    PROVE  Untold \subseteq Requests /\ \A r \in Untold : result[r] = <<>>
BY Kinds, Zenon DEF Untold, RequestsInv, Typed, NotToldYet

\* Two ways of telling: completed or timeout, by disjoint or nested sets.
LEMMA TellTwo ==
    ASSUME RequestsInv, NEW done \in SUBSET Untold, NEW late \in SUBSET Untold,
           result' = [r \in Requests |-> IF r \in late THEN Append(result[r], "timeout")
                                         ELSE IF r \in done THEN Append(result[r], "completed")
                                         ELSE result[r]]
    PROVE  /\ Tells(done \cup late)
           /\ \A r \in late : result'[r] = <<"timeout">>
           /\ \A r \in done : r \notin late => result'[r] = <<"completed">>
<1>1. /\ Append(<<>>, "timeout") = <<"timeout">> /\ <<"timeout">> \in Outcomes /\ <<"timeout">> # <<>>
      /\ Append(<<>>, "completed") = <<"completed">> /\ <<"completed">> \in Outcomes
      /\ <<"completed">> # <<>>
  BY FirstResult, Zenon DEF Codes
<1>2. done \cup late \subseteq Requests /\ \A r \in done \cup late : result[r] = <<>>
  BY UntoldIsUntold, Zenon
<1>3. \A r \in late : result'[r] = <<"timeout">>
  BY <1>1, <1>2, Zenon
<1>4. \A r \in done : r \notin late => result'[r] = <<"completed">>
  BY <1>1, <1>2, Zenon
<1>5. \A r \in Requests : r \notin done \cup late => result'[r] = result[r]
  BY Zenon
<1>6. result' \in [Requests -> Outcomes]
  <2>1. \A r \in Requests : result'[r] \in Outcomes
    BY <1>1, <1>3, <1>4, <1>5, Zenon DEF RequestsInv, Typed
  <2> HIDE DEF Outcomes
  <2> QED BY <2>1, Zenon
<1> QED BY <1>1, <1>2, <1>3, <1>4, <1>5, <1>6, Zenon DEF Tells

\* pendingReadIndex.applied: what it is given besides the reads is untold and
\* overdue; what is completed has waited for its index.
LEMMA ReadsAppliedTells ==
    ASSUME RequestsInv, NEW index \in Nat, NEW known, NEW others \in SUBSET Untold, NEW collected,
           \A r \in others : r \notin Reads /\ left[r] <= 0,
           \A c \in DOMAIN known : known[c] \in Nat,
           \A r \in pending \cap Reads : mapping[r] \in DOMAIN known => asked[r] <= known[mapping[r]],
           ReadsApplied(index, known, others, collected)
    PROVE  \E told \in SUBSET Untold :
              /\ Tells(told) /\ pending' = pending \ told
              /\ \A r \in told :
                    /\ result'[r] = <<"completed">> => r \in Reads /\ asked[r] <= index
                    /\ result'[r] = <<"timeout">> => left[r] <= 0
              /\ \A c \in DOMAIN batches' : c \in DOMAIN known /\ batches'[c] = known[c]
<1> DEFINE live == ~readStopped /\ pending \cap Reads # {}
           done == IF live THEN Completable(index, known) ELSE {}
           due == live /\ Due(sinceGc[ReadTimer])
           lateReads == IF due THEN Overdue(Reads \ done, 0) ELSE {}
           late == others \cup lateReads \cup {r \in done : left[r] <= 0}
           forget == IF due THEN {g[1] : g \in {h \in Range(ctxGc) : h[2] < 0}} ELSE {}
<1>1. /\ done \subseteq Untold /\ done \subseteq Reads
      /\ \A r \in done : asked[r] <= index
  <2>1. \A r \in done : r \in pending \cap Reads /\ ~readStopped
                        /\ mapping[r] \in DOMAIN known /\ known[mapping[r]] <= index
    BY Zenon DEF Completable
  <2> HIDE DEF done
  <2>2. \A r \in done : asked[r] \in Nat /\ known[mapping[r]] \in Nat /\ asked[r] <= known[mapping[r]]
    BY <2>1, Zenon DEF RequestsInv, Typed
  <2>3. \A r \in done : asked[r] <= index
    BY <2>1, <2>2
  <2>4. done \subseteq Untold /\ done \subseteq Reads
    BY <2>1, Kinds, Zenon DEF Untold, RequestsInv, Typed
  <2> QED BY <2>3, <2>4, Zenon
<1>2. /\ lateReads \subseteq Untold /\ \A r \in lateReads : left[r] <= 0
  <2>1. \A r \in lateReads : r \in pending \cap Reads /\ ~readStopped /\ left[r] + 0 < 0
    BY Zenon DEF Overdue
  <2> HIDE DEF lateReads
  <2>2. \A r \in lateReads : left[r] \in Int
    <3>1. \A r \in Requests : left[r] \in Int
      BY DEF RequestsInv, Typed, TooLate
    <3>2. pending \subseteq Requests
      BY Zenon DEF RequestsInv, Typed
    <3> QED BY <2>1, <3>1, <3>2, Zenon
  <2>3. \A r \in lateReads : left[r] <= 0
    BY <2>1, <2>2
  <2> QED BY <2>1, <2>3, Kinds, Zenon DEF Untold, RequestsInv, Typed
<1>3. result' = [r \in Requests |-> IF r \in late THEN Append(result[r], "timeout")
                                    ELSE IF r \in done THEN Append(result[r], "completed")
                                    ELSE result[r]]
  BY Zenon DEF ReadsApplied
<1>4. pending' = pending \ (done \cup late)
  BY Zenon DEF ReadsApplied
<1>5. batches' = [c \in DOMAIN known \ forget |-> known[c]]
  BY Zenon DEF ReadsApplied
<1>6. late \subseteq Untold /\ \A r \in late : left[r] <= 0
  BY <1>1, <1>2, Zenon
<1> HIDE DEF live, done, due, lateReads, late, forget
<1>7. /\ Tells(done \cup late)
      /\ \A r \in late : result'[r] = <<"timeout">>
      /\ \A r \in done : r \notin late => result'[r] = <<"completed">>
  BY <1>1, <1>3, <1>6, TellTwo, Zenon
<1>8. ASSUME NEW r \in done \cup late
      PROVE  /\ result'[r] = <<"completed">> => r \in Reads /\ asked[r] <= index
             /\ result'[r] = <<"timeout">> => left[r] <= 0
  BY <1>1, <1>6, <1>7, CodesApart, Zenon
<1>9. \A c \in DOMAIN batches' : c \in DOMAIN known /\ batches'[c] = known[c]
  BY <1>5, Zenon
<1> QED BY <1>1, <1>4, <1>6, <1>7, <1>8, <1>9, Zenon

LEMMA AtMost == \A a, b, c \in Nat : a <= b /\ b <= c => a <= c
OBVIOUS

\* A step that is, for the requests, pendingReadIndex.applied(index).
LEMMA AppliedStep ==
    ASSUME RequestsInv, NEW index \in Nat, NEW known, NEW others \in SUBSET Untold, NEW collected,
           \A r \in others : r \notin Reads /\ left[r] <= 0,
           \A c \in DOMAIN known : c \in Nat /\ c < ctx /\ known[c] \in Nat,
           \A r \in pending \cap Reads : mapping[r] \in DOMAIN known => asked[r] <= known[mapping[r]],
           ReadsApplied(index, known, others, collected),
           applied' \in Nat, applied <= applied', index <= applied',
           readsInRaft' \subseteq readsInRaft,
           UNCHANGED <<clientVars, left, queueVars, stopVars, ctx, mapping, raftLog>>,
           stepper'.reads = stepper.reads, stepper'.at # "reads" => stepper'.reads = {}
    PROVE  /\ NotToldYet' /\ RegisteredIsPending' /\ NothingForgotten' /\ ReadsAreFresh'
           /\ AnswersAreEarned' /\ ContextsInOrder'
           /\ result' \in [Requests -> Outcomes] /\ pending' \subseteq pending
<1>1. PICK told \in SUBSET Untold :
              /\ Tells(told) /\ pending' = pending \ told
              /\ \A r \in told :
                    /\ result'[r] = <<"completed">> => r \in Reads /\ asked[r] <= index
                    /\ result'[r] = <<"timeout">> => left[r] <= 0
              /\ \A c \in DOMAIN batches' : c \in DOMAIN known /\ batches'[c] = known[c]
  BY ReadsAppliedTells, Zenon
<1>2. told \subseteq pending /\ told \subseteq Requests
  BY <1>1, UntoldIsUntold, Zenon DEF Untold
<1>3. NotToldYet' /\ RegisteredIsPending' /\ NothingForgotten'
  BY <1>1, <1>2, Unregister, Zenon DEF clientVars, queueVars, stopVars
<1>4. Truly(told)
  <2> SUFFICES ASSUME NEW r \in told
               PROVE  /\ result'[r] = <<"completed">> => r \in Reads /\ asked[r] <= applied'
                      /\ result'[r] = <<"timeout">> => left[r] <= 0
    BY <1>2, Kinds, Zenon DEF Truly
  <2>1. r \in Reads => asked[r] \in Nat
    BY Zenon DEF RequestsInv, Typed
  <2> QED BY <1>1, <2>1, AtMost, Zenon
<1>5. ReadsAreFresh' /\ AnswersAreEarned'
  BY <1>1, <1>4, TrueAnswers, Zenon DEF clientVars
<1>6. ContextsInOrder'
  <2>1. \A c \in DOMAIN batches' : c \in Nat /\ c < ctx /\ batches'[c] \in Nat
    BY <1>1, Zenon
  <2>2. \A r \in pending' \cap Reads :
           /\ mapping[r] <= ctx
           /\ mapping[r] \in DOMAIN batches' => asked[r] <= batches'[mapping[r]]
    BY <1>1, Zenon DEF RequestsInv, ContextsInOrder
  <2> QED BY <2>1, <2>2, Zenon DEF RequestsInv, ContextsInOrder, clientVars
<1> QED BY <1>1, <1>3, <1>5, <1>6, Zenon DEF Tells

LEMMA InvCollect == RequestsInv /\ Collect => RequestsInv'
<1> SUFFICES ASSUME RequestsInv, Collect PROVE RequestsInv'
  BY Zenon
<1> DEFINE due == {s \in Shards \ stoppedShards : Due(sinceGc[s]) /\ ~ expired[NodeClock]}
           dueChange == /\ pending \cap Changes # {} /\ ~ expired[NodeClock]
                        /\ Due(sinceGc[ChangeTimer])
           late == Overdue({r \in Proposals : ShardOf[r] \in due}, 0)
                   \cup (IF dueChange THEN Overdue(Changes, 0) ELSE {})
           fresh == due \cup (IF dueChange THEN {ChangeTimer} ELSE {})
<1>1. ReadsApplied(stepper.seen, batches, late, fresh)
  BY Zenon DEF Collect
<1>2. late \subseteq Untold /\ \A r \in late : r \notin Reads /\ left[r] <= 0
  <2>1. \A r \in late : /\ r \in pending /\ left[r] + 0 < 0
                        /\ (r \in Proposals /\ ShardOf[r] \notin stoppedShards) \/ r \in Changes
    BY Zenon DEF Overdue
  <2> HIDE DEF late
  <2>2. \A r \in late : r \in Requests
    BY <2>1, Zenon DEF RequestsInv, Typed
  <2>3. \A r \in late : left[r] \in Int
    <3>1. \A r \in Requests : left[r] \in Int
      BY DEF RequestsInv, Typed, TooLate
    <3> QED BY <2>2, <3>1, Zenon
  <2>4. \A r \in late : left[r] <= 0
    BY <2>1, <2>3
  <2>5. \A r \in late : r \notin Reads
    BY <2>1, <2>2, Kinds, Zenon
  <2>6. \A r \in late : r \in Proposals => ShardOf[r] \notin stoppedShards
    BY <2>1, <2>2, Kinds, Zenon
  <2> QED BY <2>1, <2>4, <2>5, <2>6, Zenon DEF Untold
<1> HIDE DEF late, fresh
<1>3. /\ stepper' \in [at : Stages, reads : SUBSET Reads, seen : Nat]
      /\ stepper'.seen = stepper.seen /\ stepper'.reads = stepper.reads /\ stepper.reads = {}
      /\ stepper.seen \in Nat
  BY Zenon DEF Collect, RequestsInv, Typed, NotToldYet, Stages
<1>4. applied' = applied /\ applied \in Nat /\ stepper.seen <= applied
  BY DEF Collect, applyVars, RequestsInv, Typed
<1>5. /\ \A c \in DOMAIN batches : c \in Nat /\ c < ctx /\ batches[c] \in Nat
      /\ \A r \in pending \cap Reads : mapping[r] \in DOMAIN batches => asked[r] <= batches[mapping[r]]
  BY Zenon DEF RequestsInv, ContextsInOrder
<1>6. UNCHANGED <<clientVars, left, queueVars, stopVars, ctx, mapping, raftLog, readsInRaft>>
  BY Zenon DEF Collect, raftVars
<1>7. /\ NotToldYet' /\ RegisteredIsPending' /\ NothingForgotten' /\ ReadsAreFresh'
      /\ AnswersAreEarned' /\ ContextsInOrder'
      /\ result' \in [Requests -> Outcomes] /\ pending' \subseteq pending
  BY <1>1, <1>2, <1>3, <1>4, <1>5, <1>6, AppliedStep
<1>8. Typed'
  BY <1>3, <1>7, Zenon DEF Collect, RequestsInv, Typed, clientVars, queueVars, stopVars, raftVars, applyVars
<1>9. ProposalInHand'
  BY Zenon DEF Collect, RequestsInv, ProposalInHand, raftVars, applyVars
<1> QED BY <1>7, <1>8, <1>9, Zenon DEF RequestsInv

LEMMA InvReadyToRead ==
    ASSUME NEW c \in readsInRaft, RequestsInv, ReadyToRead(c)
    PROVE  RequestsInv'
<1> DEFINE known == Confirmed(c)
<1>1. ReadsApplied(stepper.seen, known, {}, {})
  BY Zenon DEF ReadyToRead
<1>2. /\ DOMAIN known = DOMAIN batches \cup {c} /\ known[c] = Len(raftLog)
      /\ \A d \in DOMAIN batches : d # c => known[d] = batches[d]
  BY Zenon DEF Confirmed
<1> HIDE DEF known
<1>3. c \in Nat /\ c < ctx /\ Len(raftLog) \in Nat
  BY DEF RequestsInv, Typed, ContextsInOrder
<1>4. \A d \in DOMAIN known : d \in Nat /\ d < ctx /\ known[d] \in Nat
  BY <1>2, <1>3, Zenon DEF RequestsInv, ContextsInOrder
<1>5. \A r \in pending \cap Reads : mapping[r] \in DOMAIN known => asked[r] <= known[mapping[r]]
  BY <1>2, Zenon DEF RequestsInv, ContextsInOrder
<1>6. /\ stepper' = stepper /\ stepper.seen \in Nat /\ (stepper.at # "reads" => stepper.reads = {})
      /\ applied' = applied /\ applied \in Nat /\ stepper.seen <= applied
  <2>1. stepper' = stepper /\ applied' = applied
    BY Zenon DEF ReadyToRead, applyVars
  <2>2. stepper.seen \in Nat /\ applied \in Nat /\ stepper.seen <= applied
    BY DEF RequestsInv, Typed
  <2> QED BY <2>1, <2>2, Zenon DEF RequestsInv, NotToldYet
<1>7. /\ UNCHANGED <<clientVars, left, queueVars, stopVars, ctx, mapping, raftLog>>
      /\ readsInRaft' \subseteq readsInRaft
  BY Zenon DEF ReadyToRead
<1>8. /\ NotToldYet' /\ RegisteredIsPending' /\ NothingForgotten' /\ ReadsAreFresh'
      /\ AnswersAreEarned' /\ ContextsInOrder'
      /\ result' \in [Requests -> Outcomes] /\ pending' \subseteq pending
  <2>1. {} \in SUBSET Untold /\ \A r \in {} : r \notin Reads /\ left[r] <= 0
    BY Zenon
  <2> QED BY <1>1, <1>4, <1>5, <1>6, <1>7, <2>1, AppliedStep
<1>9. Typed'
  BY <1>6, <1>8, Zenon DEF ReadyToRead, RequestsInv, Typed, clientVars, queueVars, stopVars, applyVars
<1>10. ProposalInHand'
  BY Zenon DEF ReadyToRead, RequestsInv, ProposalInHand, applyVars
<1> QED BY <1>8, <1>9, <1>10, Zenon DEF RequestsInv

LEMMA InvApply ==
    ASSUME NEW last \in BOOLEAN, NEW outcome \in {"completed", "ignored"}, RequestsInv, Apply(last, outcome)
    PROVE  RequestsInv'
<1> DEFINE e == raftLog[applied + 1]
           mine == ChangeAnswered(e)
<1>1. /\ applied \in Nat /\ applied' = applied + 1 /\ applied' <= Len(raftLog)
      /\ UNCHANGED <<clientVars, left, queueVars, stopVars, expired, ctx, mapping, readCount, stepper, raftVars>>
  BY Zenon DEF Apply, RequestsInv, Typed
<1>2. batched' \in Nat /\ stepper.seen <= batched' /\ batched' <= applied'
  <2>1. batched' = batched \/ batched' = applied + 1
    BY Zenon DEF Apply
  <2>2. batched \in Nat /\ stepper.seen \in Nat /\ stepper.seen <= batched /\ batched <= applied
    BY Zenon DEF RequestsInv, Typed
  <2> QED BY <1>1, <2>1, <2>2
<1>3. applying' \in [on : BOOLEAN, age : 0 .. 1] /\ ProposalInHand'
  <2>1. \/ applying' = applying /\ ~applying.on
        \/ e \in Proposals /\ applying' = [on |-> TRUE, age |-> 0]
    BY Zenon DEF Apply
  <2>2. raftLog'[applied'] = e
    BY <1>1, Zenon DEF raftVars
  <2>3. applied' > 0
    BY <1>1
  <2> HIDE DEF e
  <2>4. CASE applying' = applying /\ ~applying.on
    BY <2>4, Zenon DEF RequestsInv, Typed, ProposalInHand
  <2>5. CASE e \in Proposals /\ applying' = [on |-> TRUE, age |-> 0]
    BY <2>2, <2>3, <2>5 DEF ProposalInHand
  <2> QED BY <2>1, <2>4, <2>5, Zenon
<1>4. /\ NotToldYet' /\ RegisteredIsPending' /\ NothingForgotten' /\ ReadsAreFresh'
      /\ AnswersAreEarned' /\ ContextsInOrder'
      /\ result' \in [Requests -> Outcomes] /\ pending' \subseteq pending
  <2>1. CASE e \in Changes
    <3>1. /\ mine \subseteq {e} /\ mine \subseteq pending /\ mine \subseteq Requests
          /\ \A r \in mine : result[r] = <<>>
      BY <2>1, Zenon DEF ChangeAnswered, RequestsInv, Typed, NotToldYet
    <3>2. outcome = "completed"
      <4>1. e \notin Proposals
        BY <2>1, RequestsAssumption, Zenon
      <4> QED BY <4>1, Zenon DEF Apply
    <3>3. /\ result' = [r \in Requests |-> IF r \in mine THEN Append(result[r], "completed") ELSE result[r]]
          /\ pending' = pending \ mine /\ UNCHANGED batches
      BY <2>1, <3>2, Zenon DEF Apply, Notify
    <3>4. raftLog[applied'] = e
      BY <1>1, Zenon
    <3> HIDE DEF mine, e
    <3>5. \A r \in mine : result'[r] = <<"completed">>
      BY <3>1, <3>3, FirstResult, Zenon DEF Codes
    <3>6. \A r \in Requests : result'[r] \in Outcomes
      BY <3>3, <3>5, FirstResult, Zenon DEF Codes, RequestsInv, Typed
    <3>7. result' \in [Requests -> Outcomes]
      BY <3>3, <3>6, Zenon
    <3>8. Tells(mine)
      BY <3>1, <3>3, <3>5, <3>7, FirstResult, Zenon DEF Codes, Tells
    <3>9. Truly(mine)
      <4> SUFFICES ASSUME NEW r \in mine PROVE
              /\ r \notin Reads /\ (\E i \in 1 .. applied' : raftLog[i] = r)
              /\ result'[r] # <<"timeout">>
        BY Zenon DEF Truly
      <4>1. r = e /\ r \notin Reads
        BY <2>1, <3>1, RequestsAssumption, Zenon
      <4>2. applied' \in 1 .. applied' /\ raftLog[applied'] = r
        BY <1>1, <3>4, <4>1
      <4> QED BY <3>5, <4>1, <4>2, CodesApart, Zenon
    <3>10. NotToldYet' /\ RegisteredIsPending' /\ NothingForgotten'
      <4>1. stepper.at # "reads" => stepper.reads = {}
        BY Zenon DEF RequestsInv, NotToldYet
      <4> QED BY <1>1, <3>1, <3>3, <3>8, <4>1, Unregister, Zenon DEF clientVars, queueVars, stopVars
    <3>11. ReadsAreFresh' /\ AnswersAreEarned'
      BY <1>1, <3>8, <3>9, TrueAnswers DEF clientVars, raftVars
    <3>12. ContextsInOrder'
      BY <1>1, <3>3, Zenon DEF RequestsInv, ContextsInOrder, clientVars, raftVars
    <3> QED BY <3>3, <3>7, <3>10, <3>11, <3>12, Zenon
  <2>2. CASE e \notin Changes /\ last /\ outcome # "ignored"
    <3>1. ReadsApplied(applied + 1, batches, {}, {})
      BY <2>2, Zenon DEF Apply
    <3>2. {} \in SUBSET Untold /\ \A r \in {} : r \notin Reads /\ left[r] <= 0
      BY Zenon
    <3>3. /\ \A c \in DOMAIN batches : c \in Nat /\ c < ctx /\ batches[c] \in Nat
          /\ \A r \in pending \cap Reads : mapping[r] \in DOMAIN batches => asked[r] <= batches[mapping[r]]
      BY Zenon DEF RequestsInv, ContextsInOrder
    <3>4. stepper.at # "reads" => stepper.reads = {}
      BY Zenon DEF RequestsInv, NotToldYet
    <3>5. applied + 1 \in Nat /\ applied' \in Nat /\ applied <= applied' /\ applied + 1 <= applied'
      BY <1>1
    <3> QED BY <1>1, <3>1, <3>2, <3>3, <3>4, <3>5, AppliedStep, Zenon DEF raftVars
  <2>3. CASE e \notin Changes /\ ~(last /\ outcome # "ignored")
    <3>1. UNCHANGED <<result, pending, batches>>
      BY <2>3, Zenon DEF Apply
    <3>2. NotToldYet' /\ RegisteredIsPending' /\ NothingForgotten' /\ ContextsInOrder'
      BY <1>1, <3>1, Zenon DEF RequestsInv, NotToldYet, RegisteredIsPending, NothingForgotten, ContextsInOrder,
                        clientVars, queueVars, stopVars, raftVars
    <3>3. Tells({}) /\ Truly({})
      BY <3>1, Zenon DEF Tells, Truly, RequestsInv, Typed
    <3>4. ReadsAreFresh' /\ AnswersAreEarned'
      BY <1>1, <3>3, TrueAnswers DEF clientVars, raftVars
    <3> QED BY <3>1, <3>2, <3>4, Zenon DEF RequestsInv, Typed
  <2> QED BY <2>1, <2>2, <2>3, Zenon
<1>5. Typed'
  BY <1>1, <1>2, <1>3, <1>4 DEF RequestsInv, Typed, clientVars, queueVars, stopVars, raftVars
<1> QED BY <1>3, <1>4, <1>5, Zenon DEF RequestsInv

LEMMA InvApplyNotify == RequestsInv /\ ApplyNotify => RequestsInv'
<1> SUFFICES ASSUME RequestsInv, ApplyNotify PROVE RequestsInv'
  BY Zenon
<1> DEFINE e == raftLog[applied]
           s == ShardOf[e]
           mine == GetProposal(e)
           due == /\ ~ expired[s] /\ s \notin stoppedShards
                  /\ Due(sinceGc[s] - applying.age)
           late == IF due THEN Overdue({r \in Proposals \ mine : ShardOf[r] = s}, applying.age)
                   ELSE {}
<1>1. e \in Proposals /\ applied > 0 /\ applied \in Nat /\ applying.age \in 0 .. 1
  BY Zenon DEF ApplyNotify, RequestsInv, Typed, ProposalInHand
<1>2. mine \subseteq {e} /\ mine \subseteq Untold /\ mine \cap late = {}
  BY <1>1, RequestsAssumption, Zenon DEF GetProposal, Untold, Overdue
<1>3. late \subseteq Untold /\ \A r \in late : left[r] <= 0
  <2>1. \A r \in late : /\ r \in Proposals /\ r \in pending /\ ShardOf[r] \notin stoppedShards
                        /\ left[r] + applying.age < 0
    BY Zenon DEF Overdue
  <2> HIDE DEF late
  <2>2. \A r \in Requests : left[r] \in Int
    BY DEF RequestsInv, Typed, TooLate
  <2>3. \A r \in late : left[r] <= 0
    BY <1>1, <2>1, <2>2 DEF Requests
  <2> QED BY <2>1, <2>3, RequestsAssumption, Zenon DEF Untold
<1>4. /\ result' = [r \in Requests |->
             IF r \in mine THEN Append(result[r], "completed")
             ELSE IF r \in late THEN Append(result[r], "timeout") ELSE result[r]]
      /\ pending' = pending \ (mine \cup late)
      /\ applying' = [on |-> FALSE, age |-> 0]
      /\ UNCHANGED <<clientVars, left, queueVars, stopVars, readVars, stepper, raftVars, applied, batched>>
  BY Zenon DEF ApplyNotify
<1>5. \A r \in mine : \E i \in 1 .. applied : raftLog[i] = r
  <2>1. applied \in 1 .. applied
    BY <1>1
  <2> QED BY <1>2, <2>1, Zenon
<1> HIDE DEF e, s, mine, due, late
<1>6. result' = [r \in Requests |-> IF r \in late THEN Append(result[r], "timeout")
                                    ELSE IF r \in mine THEN Append(result[r], "completed")
                                    ELSE result[r]]
  BY <1>2, <1>4, Zenon
<1>7. /\ Tells(mine \cup late)
      /\ \A r \in late : result'[r] = <<"timeout">>
      /\ \A r \in mine : r \notin late => result'[r] = <<"completed">>
  BY <1>2, <1>3, <1>6, TellTwo, Zenon
<1>8. Truly(mine \cup late)
  <2> SUFFICES ASSUME NEW r \in mine \cup late
               PROVE  /\ result'[r] = <<"completed">> =>
                            r \notin Reads /\ \E i \in 1 .. applied : raftLog[i] = r
                      /\ result'[r] = <<"timeout">> => left[r] <= 0
    BY <1>4, Zenon DEF Truly
  <2>1. CASE r \in late
    BY <1>3, <1>7, <2>1, CodesApart, Zenon
  <2>2. CASE r \in mine
    <3>1. r = e /\ result'[r] = <<"completed">>
      BY <1>2, <1>7, <2>2, Zenon
    <3>2. r \notin Reads
      BY <1>1, <3>1, RequestsAssumption, Zenon
    <3> QED BY <1>5, <2>2, <3>1, <3>2, CodesApart, Zenon
  <2> QED BY <2>1, <2>2, Zenon
<1>9. NotToldYet' /\ RegisteredIsPending' /\ NothingForgotten'
  <2>1. mine \cup late \in SUBSET pending
    BY <1>2, <1>3, Zenon DEF Untold
  <2>2. stepper.at # "reads" => stepper.reads = {}
    BY Zenon DEF RequestsInv, NotToldYet
  <2> QED BY <1>4, <1>7, <2>1, <2>2, Unregister, Zenon DEF clientVars, queueVars, stopVars
<1>10. ReadsAreFresh' /\ AnswersAreEarned'
  <2>1. applied' \in Nat /\ applied <= applied'
    BY <1>1, <1>4
  <2> QED BY <1>4, <1>7, <1>8, <2>1, TrueAnswers, Zenon DEF clientVars, raftVars
<1>11. ContextsInOrder'
  BY <1>4, Zenon DEF RequestsInv, ContextsInOrder, clientVars, readVars, raftVars
<1>12. Typed'
  <2>1. result' \in [Requests -> Outcomes]
    BY <1>7, Zenon DEF Tells
  <2> QED BY <1>4, <2>1 DEF RequestsInv, Typed, clientVars, queueVars, stopVars, readVars, raftVars
<1>13. ProposalInHand'
  BY <1>4, Zenon DEF ProposalInHand
<1> QED BY <1>9, <1>10, <1>11, <1>12, <1>13, Zenon DEF RequestsInv

-----------------------------------------------------------------------------
(* The close of the node.                                                   *)

\* Everybody on a list is told that the node is going away.
LEMMA Terminates ==
    ASSUME RequestsInv, NEW told \in SUBSET Requests, \A r \in told : result[r] = <<>>,
           result' = Notify(told, "terminated")
    PROVE  Tells(told) /\ Truly(told)
<1>1. \A r \in told : result'[r] = <<"terminated">>
  BY FirstResult, Zenon DEF Codes, Notify
<1>2. \A r \in Requests : r \notin told => result'[r] = result[r]
  BY Zenon DEF Notify
<1>3. \A r \in Requests : result'[r] \in Outcomes
  BY <1>1, <1>2, FirstResult, Zenon DEF Codes, RequestsInv, Typed
<1>4. result' \in [Requests -> Outcomes]
  BY <1>3, Zenon DEF Notify
<1>5. Tells(told)
  BY <1>1, <1>2, <1>4, FirstResult, Zenon DEF Codes, Tells
<1>6. Truly(told)
  BY <1>1, CodesApart, Zenon DEF Truly
<1> QED BY <1>5, <1>6, Zenon

LEMMA InvCloseReads == RequestsInv /\ CloseReads => RequestsInv'
<1> SUFFICES ASSUME RequestsInv, CloseReads PROVE RequestsInv'
  BY Zenon
<1> DEFINE told == readQ \cup (pending \cap Reads)
<1>1. told \subseteq Requests /\ told \subseteq Reads /\ \A r \in told : result[r] = <<>>
  BY Zenon DEF CloseReads, RequestsInv, Typed, NotToldYet, Requests
<1>2. Tells(told) /\ Truly(told)
  BY <1>1, Terminates, Zenon DEF CloseReads
<1>3. \A r \in Requests : r \notin told => result'[r] = result[r]
  BY <1>2, Zenon DEF Tells
<1>4. Typed'
  <2>1. IsFiniteSet(readQ') /\ Cardinality(readQ') = 0
    BY FS_EmptySet, Zenon DEF CloseReads
  <2>2. Cardinality(readQ') <= ReadQueueSize
    BY <2>1, RequestsAssumption
  <2>3. readQ' \subseteq Reads /\ readStopped' \in BOOLEAN
    BY Zenon DEF CloseReads
  <2>4. result' \in [Requests -> Outcomes]
    BY <1>2, Zenon DEF Tells
  <2> QED BY <2>1, <2>2, <2>3, <2>4, Zenon
             DEF CloseReads, RequestsInv, Typed, clientVars, readVars, raftVars, applyVars
<1>5. NotToldYet'
  <2>1. \A r \in stepper.reads : r \in Requests /\ r \notin told
    BY Zenon DEF RequestsInv, Typed, NotToldYet, Requests
  <2>2. \A r \in Requests : call[r] = "none" => r \notin told
    BY Zenon DEF RequestsInv, NotToldYet
  <2>3. \A r \in pending : r \notin Reads => r \in Requests /\ r \notin told
    BY <1>1, Zenon DEF RequestsInv, Typed
  <2>4. \A r \in Requests : call'[r] = "none" =>
          result'[r] = <<>> /\ r \notin pending' /\ r \notin readQ' /\ r \notin stepper'.reads
    BY <1>3, <2>2, Zenon DEF CloseReads, RequestsInv, NotToldYet, clientVars
  <2>5. \A r \in pending' \cap Proposals : ShardOf[r] \notin stoppedShards' => result'[r] = <<>>
    BY <1>3, <2>3, RequestsAssumption, Zenon DEF CloseReads, RequestsInv, NotToldYet
  <2>6. \A r \in pending' \cap Changes : result'[r] = <<>>
    BY <1>3, <2>3, RequestsAssumption, Zenon DEF CloseReads, RequestsInv, NotToldYet
  <2>7. \A r \in readQ' \cup stepper'.reads : result'[r] = <<>> /\ r \notin pending'
    BY <1>3, <2>1, Zenon DEF CloseReads, RequestsInv, NotToldYet
  <2> QED BY <2>4, <2>5, <2>6, <2>7, Zenon DEF CloseReads, RequestsInv, NotToldYet
<1>6. RegisteredIsPending'
  BY <1>2, <1>3, Zenon DEF Tells, CloseReads, RequestsInv, RegisteredIsPending, clientVars
<1>7. NothingForgotten'
  BY <1>2, <1>3, Zenon DEF Tells, CloseReads, RequestsInv, NothingForgotten, clientVars
<1>8. ContextsInOrder'
  BY Zenon DEF CloseReads, RequestsInv, ContextsInOrder, clientVars, readVars, raftVars
<1>9. ProposalInHand'
  BY Zenon DEF CloseReads, RequestsInv, ProposalInHand, raftVars, applyVars
<1>10. ReadsAreFresh' /\ AnswersAreEarned'
  <2>1. applied' = applied /\ applied \in Nat
    BY Zenon DEF CloseReads, applyVars, RequestsInv, Typed
  <2> QED BY <1>2, <2>1, TrueAnswers DEF CloseReads, clientVars, raftVars
<1> QED BY <1>4, <1>5, <1>6, <1>7, <1>8, <1>9, <1>10, Zenon DEF RequestsInv

LEMMA InvCloseShard ==
    ASSUME NEW s \in Shards, RequestsInv, CloseShard(s)
    PROVE  RequestsInv'
<1> DEFINE told == {r \in pending \cap Proposals : ShardOf[r] = s}
<1>1. s \notin stoppedShards
  <2>1. stoppedShards = 1 .. s - 1
    BY Zenon DEF CloseShard
  <2> QED BY <2>1, RequestsAssumption DEF Shards
<1>2. told \subseteq Requests /\ told \subseteq Proposals /\ \A r \in told : result[r] = <<>>
  BY <1>1 DEF RequestsInv, Typed, NotToldYet
<1>3. Tells(told) /\ Truly(told)
  BY <1>2, Terminates, Zenon DEF CloseShard
<1>4. \A r \in Requests : r \notin told => result'[r] = result[r]
  BY <1>3, Zenon DEF Tells
<1>5. Typed'
  <2>1. result' \in [Requests -> Outcomes] /\ stoppedShards' \subseteq Shards
    BY <1>3, Zenon DEF Tells, CloseShard, RequestsInv, Typed
  <2> QED BY <2>1, Zenon DEF CloseShard, RequestsInv, Typed, clientVars, queueVars, readVars, raftVars, applyVars
<1>6. NotToldYet'
  <2>1. \A r \in readQ \cup stepper.reads : r \in Requests /\ r \notin told
    BY Zenon DEF RequestsInv, Typed, NotToldYet, Requests
  <2>2. \A r \in Requests : call[r] = "none" => r \notin told
    BY Zenon DEF RequestsInv, NotToldYet
  <2>3. pending \subseteq Requests
    BY Zenon DEF RequestsInv, Typed
  <2>4. \A r \in Requests : call'[r] = "none" =>
          result'[r] = <<>> /\ r \notin pending' /\ r \notin readQ' /\ r \notin stepper'.reads
    BY <1>4, <2>2, Zenon DEF CloseShard, RequestsInv, NotToldYet, clientVars, queueVars
  <2>5. \A r \in pending' \cap Proposals : ShardOf[r] \notin stoppedShards' => result'[r] = <<>>
    BY <1>4, <2>3, Zenon DEF CloseShard, RequestsInv, NotToldYet
  <2>6. \A r \in pending' \cap Changes : result'[r] = <<>>
    BY <1>2, <1>4, <2>3, RequestsAssumption, Zenon DEF CloseShard, RequestsInv, NotToldYet
  <2>7. \A r \in pending' \cap Reads : ~readStopped' => result'[r] = <<>>
    BY Zenon DEF CloseShard
  <2>8. \A r \in readQ' \cup stepper'.reads : result'[r] = <<>> /\ r \notin pending'
    BY <1>4, <2>1, Zenon DEF CloseShard, RequestsInv, NotToldYet, queueVars
  <2> QED BY <2>4, <2>5, <2>6, <2>7, <2>8, Zenon DEF CloseShard, RequestsInv, NotToldYet, queueVars
<1>7. RegisteredIsPending'
  BY <1>3, <1>4, Zenon DEF Tells, CloseShard, RequestsInv, RegisteredIsPending, clientVars
<1>8. NothingForgotten'
  BY <1>3, <1>4, Zenon DEF Tells, CloseShard, RequestsInv, NothingForgotten, clientVars, queueVars
<1>9. ContextsInOrder'
  BY Zenon DEF CloseShard, RequestsInv, ContextsInOrder, clientVars, readVars, raftVars
<1>10. ProposalInHand'
  BY Zenon DEF CloseShard, RequestsInv, ProposalInHand, raftVars, applyVars
<1>11. ReadsAreFresh' /\ AnswersAreEarned'
  <2>1. applied' = applied /\ applied \in Nat
    BY Zenon DEF CloseShard, applyVars, RequestsInv, Typed
  <2> QED BY <1>3, <2>1, TrueAnswers DEF CloseShard, clientVars, raftVars
<1> QED BY <1>5, <1>6, <1>7, <1>8, <1>9, <1>10, <1>11, Zenon DEF RequestsInv

LEMMA InvCloseChange == RequestsInv /\ CloseChange => RequestsInv'
<1> SUFFICES ASSUME RequestsInv, CloseChange PROVE RequestsInv'
  BY Zenon
<1> DEFINE told == pending \cap Changes
<1>1. /\ told \subseteq Requests /\ \A r \in told : result[r] = <<>>
      /\ told \in SUBSET pending /\ pending' = pending \ told
  BY Zenon DEF CloseChange, RequestsInv, Typed, NotToldYet
<1>2. Tells(told) /\ Truly(told)
  BY <1>1, Terminates, Zenon DEF CloseChange
<1> HIDE DEF told
<1>3. Typed'
  <2>1. result' \in [Requests -> Outcomes] /\ pending' \subseteq Requests
    BY <1>1, <1>2, Zenon DEF Tells, RequestsInv, Typed
  <2> QED BY <2>1, Zenon DEF CloseChange, RequestsInv, Typed, clientVars, queueVars, readVars, raftVars, applyVars
<1>4. NotToldYet' /\ RegisteredIsPending' /\ NothingForgotten'
  <2>1. stepper' = stepper /\ (stepper.at # "reads" => stepper.reads = {})
    BY Zenon DEF CloseChange, RequestsInv, NotToldYet
  <2>2. UNCHANGED <<call, readQ, stoppedShards, readStopped>>
    BY Zenon DEF CloseChange, clientVars, queueVars
  <2> QED BY <1>1, <1>2, <2>1, <2>2, Unregister, Zenon
<1>5. ContextsInOrder'
  BY <1>1, Zenon DEF CloseChange, RequestsInv, ContextsInOrder, clientVars, readVars, raftVars
<1>6. ProposalInHand'
  BY Zenon DEF CloseChange, RequestsInv, ProposalInHand, raftVars, applyVars
<1>7. ReadsAreFresh' /\ AnswersAreEarned'
  <2>1. applied' = applied /\ applied \in Nat
    BY Zenon DEF CloseChange, applyVars, RequestsInv, Typed
  <2> QED BY <1>2, <2>1, TrueAnswers DEF CloseChange, clientVars, raftVars
<1> QED BY <1>3, <1>4, <1>5, <1>6, <1>7, Zenon DEF RequestsInv

-----------------------------------------------------------------------------
(* All steps.                                                               *)

LEMMA InvStutter == RequestsInv /\ UNCHANGED requestsVars => RequestsInv'
<1> SUFFICES ASSUME RequestsInv, UNCHANGED requestsVars PROVE RequestsInv'
  BY Zenon
<1> USE DEF requestsVars, clientVars, queueVars, stopVars, readVars, raftVars, applyVars
<1>1. Typed'
  BY Zenon DEF RequestsInv, Typed
<1>2. NotToldYet' /\ RegisteredIsPending' /\ NothingForgotten'
  BY Zenon DEF RequestsInv, NotToldYet, RegisteredIsPending, NothingForgotten
<1>3. ContextsInOrder' /\ ProposalInHand'
  BY Zenon DEF RequestsInv, ContextsInOrder, ProposalInHand
<1>4. ReadsAreFresh' /\ AnswersAreEarned'
  BY NoAnswers, Zenon
<1> QED BY <1>1, <1>2, <1>3, <1>4, Zenon DEF RequestsInv

LEMMA InvNext == RequestsInv /\ [RequestsNext]_requestsVars => RequestsInv'
<1> SUFFICES ASSUME RequestsInv, [RequestsNext]_requestsVars PROVE RequestsInv'
  BY Zenon
<1>1. CASE ClientStep
  BY <1>1, InvPropose, InvEnqueue, InvRead, InvRequestChange, Zenon DEF ClientStep
<1>2. CASE RequestsStep
  BY <1>2, InvTakeReads, InvAddPendingRead, InvMessages, InvCollect, Zenon DEF RequestsStep
<1>3. CASE \E c \in readsInRaft : ReadyToRead(c)
  BY <1>3, InvReadyToRead, Zenon
<1>4. CASE \E e \in Requests \cup {Noop} : RaftCommit(e)
  BY <1>4, InvRaftCommit, Zenon
<1>5. CASE RequestsApply
  BY <1>5, InvApply, InvApplyNotify, Zenon DEF RequestsApply
<1>6. CASE Close
  BY <1>6, InvCloseReads, InvCloseShard, InvCloseChange, Zenon DEF Close
<1>7. CASE UNCHANGED requestsVars
  BY <1>7, InvStutter, Zenon
<1> QED BY <1>1, <1>2, <1>3, <1>4, <1>5, <1>6, <1>7, Zenon DEF RequestsNext

LEMMA InvAlways == RequestsSpec => []RequestsInv
BY InvInit, InvNext, PTL DEF RequestsSpec

\* However a timeout, a late answer, a collection with a stale clock and the
\* close of the node race, a request is told one outcome at most (notify would
\* panic at a second one), and until it is told it stays on a list where a
\* deadline or the close finds it.
THEOREM RequestsAreAnsweredOnce == RequestsSpec => []AnsweredOnce
<1>1. RequestsInv => AnsweredOnce
  <2> SUFFICES ASSUME RequestsInv PROVE AnsweredOnce
    BY Zenon
  <2>1. RequestsTypeOK
    <3>1. applied \in 0 .. Len(raftLog) /\ batched \in 0 .. applied
      BY DEF RequestsInv, Typed
    <3> QED BY <3>1, Zenon DEF RequestsInv, Typed, RequestsTypeOK
  <2>2. NotifiedOnce
    <3>1. ASSUME NEW o \in Outcomes PROVE Len(o) <= 1
      <4>1. CASE o = <<>>
        BY <4>1
      <4>2. CASE \E c \in Codes : o = <<c>>
        BY <4>2
      <4> QED BY <4>1, <4>2, Zenon DEF Outcomes
    <3>2. \A r \in Requests : result[r] \in Outcomes
      BY Zenon DEF RequestsInv, Typed
    <3> QED BY <3>1, <3>2, Zenon DEF NotifiedOnce
  <2> QED BY <2>1, <2>2, Zenon DEF RequestsInv, AnsweredOnce
<1> QED BY <1>1, InvAlways, PTL

\* When a ReadIndex read is told to go ahead, everything committed when the
\* client asked has been applied at this node.
THEOREM ReadsStayFresh == RequestsSpec => []ReadsAreFresh
<1>1. RequestsInv => ReadsAreFresh
  BY Zenon DEF RequestsInv
<1> QED BY <1>1, InvAlways, PTL

\* A proposal or a membership change is reported done only after its entry has
\* been applied, and timed out only after the ticks its client allowed.
THEOREM AnswersStayEarned == RequestsSpec => []AnswersAreEarned
<1>1. RequestsInv => AnswersAreEarned
  BY Zenon DEF RequestsInv
<1> QED BY <1>1, InvAlways, PTL

=============================================================================
