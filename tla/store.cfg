SPECIFICATION PartsSpec
CONSTANTS
    Tables <- AllTables
    Clients = {1, 2}
    Capacities = {1, 2}
    MaxSeries <- Series
    MaxLog = 4
    MaxSnapshots = 1
    BatchSize = 2
    LastIndex = 4
    LastTerm = 2
    Burst = 3
    MaxUpdates = 3
    Overhead = 0
    ToKeep = 1
    Senders = {a, b}
    MaxSnapshot = 2
    Chunks = 2
    KeepSnapshots = 1
    CompactionOverhead = 0
    MaxDeaths = 2
    Images = {1, 2, 3}
    FileSizes <- SomeFiles
    SnapChunkSize = 2
    SnapSendBufSize = 4
    MaxSnapshotCount = 2
    MaxChannels = 2
    Traffic <- SomeTraffic
    SizeSlack = 1
    RpcMaxMsgSize = 4
    RpcSendBufSize = 3
    MaxQueues = 2
    Hosts = {1, 2, 3, 4}
    MaxLeaders = 2
    ExpectedSize = 3
    nodeHostTTL = 1
    launchDeadlineTick = 0
    LaunchBudgets <- Launches
    RepairBudgets <- RepairWork
    MaxAsked = 1
INVARIANTS
    ReplicasAgree UpdatedAtMostOnce
    RoundTrip
    ReadsAreTrue RestartsWhereItStopped
    
    SnapshotsAreAnswered
    SentInOrder
     LaunchedOnce
CHECK_DEADLOCK FALSE
