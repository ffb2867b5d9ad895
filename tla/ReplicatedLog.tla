--------------------------- MODULE ReplicatedLog ---------------------------
(***************************************************************************)
(* What a raft group promises the state machines it drives: there is one   *)
(* log, it only grows, and each replica is handed the log from the         *)
(* beginning, in order, and remembers how far it got.  Entries may be      *)
(* decided by a replica that dies before it remembers.                     *)
(***************************************************************************)
EXTENDS Integers, Sequences

CONSTANTS Replica, Value

VARIABLES log,     \* the entries decided so far
          handed   \* handed[r]: what replica r has been handed

vars == <<log, handed>>

IsPrefixOf(s, t) == Len(s) <= Len(t) /\ s = SubSeq(t, 1, Len(s))

Init ==
    /\ log \in Seq(Value)
    /\ \A r \in Replica : IsPrefixOf(handed[r], log)

Grows == log' \in Seq(Value) /\ IsPrefixOf(log, log')

\* Replica r has been handed s in all; entries may be decided in the step
\* that hands them out.
Hand(r, s) ==
    /\ Grows
    /\ IsPrefixOf(handed[r], s) /\ IsPrefixOf(s, log')
    /\ handed' = [handed EXCEPT ![r] = s]

Next == \E r \in Replica : Hand(r, handed'[r])

Spec == Init /\ [][Next]_vars

=============================================================================
