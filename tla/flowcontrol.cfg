SPECIFICATION FairSpec
CONSTANTS
    Start = 3
    Marker = 1
    MaxLast = 4
    MaxEntries = 1
    MaxInFlight = 2
    MemberLogs <- SomeLogs
INVARIANTS TypeOK ProgressIsReal MemberCommitIsSafe
PROPERTIES CatchesUp
