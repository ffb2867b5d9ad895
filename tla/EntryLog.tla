------------------------------ MODULE EntryLog ------------------------------
(***************************************************************************)
(* The raft log of one node as the protocol core sees it                   *)
(* (internal/raft/logentry.go).  A node p holds the whole log as a         *)
(* sequence p.log together with p.marker, the index up to which entries    *)
(* have been compacted into a snapshot: an entry below the marker is       *)
(* unreadable, the one at the marker has only its term left.               *)
(* Keeping the compacted prefix in p.log makes the contents of a snapshot  *)
(* comparable with the log it replaces.                                    *)
(***************************************************************************)
EXTENDS Integers, Sequences, Remote

LastIndex(p) == Len(p.log)

\* entryLog.term: 0, and no error, outside [marker, lastIndex].
TermAt(p, i) == IF i \in 1..Len(p.log) /\ i >= p.marker THEN p.log[i].term ELSE 0

LastTerm(p) == TermAt(p, LastIndex(p))

\* Mutant of MatchTerm: an entry at the index is enough.
AnyTermMatches(p, index, term) == index <= LastIndex(p)

MatchTerm(p, index, term) == TermAt(p, index) = term

\* Is a log that ends with (index, term) at least as complete as p's own?
UpToDate(p, index, term) ==
    \/ term > LastTerm(p)
    \/ term = LastTerm(p) /\ index >= LastIndex(p)

\* Mutant of CommitTo: an older commit index takes effect.
CommitToMovesBack(p, index) == [p EXCEPT !.committed = index]

\* commitTo panics when index is beyond the log.
CommitTo(p, index) == [p EXCEPT !.committed = MaxOf(@, index)]

\* No panic: otherwise the process dies, as in Crash.
CommitIsInLog(p) == p.committed <= LastIndex(p)

\* The positions in ents that disagree with p's log when ents follows
\* entry prev.
Conflicts(p, prev, ents) ==
    {k \in 1..Len(ents) : ~ MatchTerm(p, prev + k, ents[k].term)}

IsFirst(k, S) == k \in S /\ \A j \in S : k <= j

\* tryAppend: what agrees is kept, the log is cut at the first conflict and
\* continued with the received entries.
TryAppend(p, prev, ents) ==
    IF Conflicts(p, prev, ents) = {} THEN p
    ELSE LET k == CHOOSE k \in 1..Len(ents) : IsFirst(k, Conflicts(p, prev, ents))
         IN  [p EXCEPT !.log = SubSeq(p.log, 1, prev + k - 1)
                                 \o SubSeq(ents, k, Len(ents))]

\* Mutant of CanCommit: entries of earlier terms are committed by counting.
CommitAnyTerm(p, index) == index > p.committed

\* An index is committed by counting only when its entry is of the current
\* term.
CanCommit(p, index) == index > p.committed /\ TermAt(p, index) = p.term

\* Mutant of RestoreLog: the received snapshot is not what is recorded.
RestoreWithoutRecord(p, ss) ==
    [p EXCEPT !.log = ss.log, !.committed = Len(ss.log), !.marker = Len(ss.log)]

\* The log becomes the snapshot's; what the snapshot covers counts as
\* committed.
RestoreLog(p, ss) ==
    [p EXCEPT !.log = ss.log, !.committed = Len(ss.log),
              !.marker = Len(ss.log),
              !.snapshot = [index |-> Len(ss.log), members |-> ss.members]]

=============================================================================
