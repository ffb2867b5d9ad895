SPECIFICATION QuiesceSpec
CONSTANTS
    Nodes = {1, 2, 3}
    ElectionTick = 1
    Threshold = 3
    ElectionTimeout = 2
    Uses <- DyingLeader
PROPERTY UsedClusterIsAwake
CHECK_DEADLOCK FALSE
