------------------------------- MODULE Remote -------------------------------
(***************************************************************************)
(* The flow-control record a node keeps for every other member of the      *)
(* group (internal/raft/remote.go): how much of the log the member is      *)
(* known to hold (match), which entry to send next (next), and one of four *)
(* modes that decide whether sending is allowed at all.                    *)
(*                                                                         *)
(*   Retry      probing: one message, then Wait                            *)
(*   Wait       paused until the member answers                            *)
(*   Replicate  pipelining: next is advanced optimistically                *)
(*   Snapshot   paused until the outcome of a snapshot transfer is known   *)
(***************************************************************************)
EXTENDS Integers

RemoteState == {"Retry", "Wait", "Replicate", "Snapshot"}

Remote == [match : Nat, next : Nat \ {0}, state : RemoteState,
           snapshotIndex : Nat, active : BOOLEAN]

MaxOf(a, b) == IF a > b THEN a ELSE b
MinOf(a, b) == IF a < b THEN a ELSE b

NewRemote(match, next) ==
    [match |-> match, next |-> next, state |-> "Retry",
     snapshotIndex |-> 0, active |-> FALSE]

BecomeRetry(r) ==
    [r EXCEPT !.next = IF r.state = "Snapshot"
                       THEN MaxOf(r.match + 1, r.snapshotIndex + 1)
                       ELSE r.match + 1,
              !.snapshotIndex = 0,
              !.state = "Retry"]

RetryToWait(r) == IF r.state = "Retry" THEN [r EXCEPT !.state = "Wait"] ELSE r

WaitToRetry(r) == IF r.state = "Wait" THEN [r EXCEPT !.state = "Retry"] ELSE r

BecomeWait(r) == RetryToWait(BecomeRetry(r))

BecomeReplicate(r) ==
    [r EXCEPT !.next = r.match + 1, !.snapshotIndex = 0, !.state = "Replicate"]

BecomeSnapshot(r, index) ==
    [r EXCEPT !.snapshotIndex = index, !.state = "Snapshot"]

\* The member acknowledged the log up to index: the answer is news only
\* when it is beyond match.
IsNews(r, index) == r.match < index

TryUpdate(r, index) ==
    LET r1 == [r EXCEPT !.next = MaxOf(@, index + 1)]
    IN  IF IsNews(r, index) THEN [WaitToRetry(r1) EXCEPT !.match = index]
                            ELSE r1

RespondedTo(r) ==
    IF r.state = "Retry" THEN BecomeReplicate(r)
    ELSE IF r.state = "Snapshot" /\ r.match >= r.snapshotIndex THEN BecomeRetry(r)
    ELSE r

\* Mutant of Progress: one entry is skipped.
ProgressSkipsOne(r, lastIndex) ==
    IF r.state = "Replicate" THEN [r EXCEPT !.next = lastIndex + 2]
                             ELSE RetryToWait(r)

\* Entries up to lastIndex have just been put into a message.
Progress(r, lastIndex) ==
    IF r.state = "Replicate" THEN [r EXCEPT !.next = lastIndex + 1]
                             ELSE RetryToWait(r)

\* A rejection is believed only when it can be about the last message sent.
CanDecrease(r, rejected) ==
    IF r.state = "Replicate" THEN rejected > r.match
                             ELSE r.next - 1 = rejected

\* Mutant of DecreaseTo: off by one, and no lower bound.
DecreaseToZero(r, rejected, last) ==
    IF r.state = "Replicate"
    THEN [r EXCEPT !.next = r.match + 1]
    ELSE [WaitToRetry(r) EXCEPT !.next = MinOf(rejected, last)]

DecreaseTo(r, rejected, last) ==
    IF r.state = "Replicate"
    THEN [r EXCEPT !.next = r.match + 1]
    ELSE [WaitToRetry(r) EXCEPT !.next = MaxOf(1, MinOf(rejected, last + 1))]

EnterRetryState(r) == IF r.state = "Replicate" THEN BecomeRetry(r) ELSE r

IsPaused(r) == r.state \in {"Wait", "Snapshot"}

=============================================================================
