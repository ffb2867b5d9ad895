--------------------------- MODULE MCFlowControl ---------------------------
(***************************************************************************)
(* Small instances of FlowControl for TLC.                                 *)
(***************************************************************************)
EXTENDS FlowControl

\* Nothing yet, a shorter log, or one that went another way.
SomeLogs == {[agree |-> 0, last |-> 0], [agree |-> 1, last |-> 1],
             [agree |-> 1, last |-> 3], [agree |-> 0, last |-> 2]}

=============================================================================
