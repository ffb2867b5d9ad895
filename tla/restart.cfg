SPECIFICATION LifecycleSpec
CONSTANTS
    Clusters = {1}
    Candidates = {"a", "b"}
    MaxStarts = 2
    Workers = {"step", "commit", "snapshot"}
INVARIANT OneVote
CHECK_DEADLOCK FALSE
