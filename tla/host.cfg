SPECIFICATION HostSpec
CONSTANTS
    p1 = p1
    p2 = p2
    r1 = r1
    r2 = r2
    c1 = c1
    c2 = c2
    Proposals = {p1, p2}
    Reads = {r1, r2}
    Changes = {c1, c2}
    Workloads <- SomeLoads
    NumShards = 2
    ShardOf <- ShardMap
    QueueSize = 1
    ReadQueueSize = 2
    Timeout = 1
    GcTick = 1
    CtxTicks = 0
    MaxIndex = 4
    MaxIncoming = 1
    MaxCrashes = 1
    CommitCLength = 4
    SnapshotEntries = 1
    CompactionOverhead = 1
    SnapshotsToKeep = 1
    Occasions = {{"quiesce"}, {"change"}}
    Clusters = {1}
    Candidates = {"a"}
    MaxStarts = 2
    Workers = {"step", "commit"}
    Senders = {1, 2}
    QueueLength = 2
    MaxMessages = 3
    MaxReports = 1
    MaxAge = 1
    Nodes = {1, 2, 3}
    ElectionTick = 1
    Threshold = 3
    ElectionTimeout = 2
    Uses <- SomeUses
INVARIANTS
    AnsweredOnce  AnswersAreEarned WorkersNeverPanic SnapshotsKept
    LifecycleSafe DeliverySafe
PROPERTIES   ClosedInTheEnd
     EverybodyRests UsedClusterIsAwake
CHECK_DEADLOCK FALSE
