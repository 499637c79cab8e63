SPECIFICATION FairSpec
CONSTANTS
    Capacity = 6
    TrailerLen = 2
    Resources = {1, 2, 3}
    UrlOf <- MCUrlOf
    SizeOf <- MCSizeOf
    Faults = {"ignore", "misplaced", "long"}
    MaxRetries = 1
    MaxSize <- MCNoMax
    CheckSums = {0}
    MaxRuns = 2
    MinSegmentBytes = 1
    MaxSegmentChunks = 4
    Parallelism = 2
    Segments = {1, 2, 3}
INVARIANTS
    RangedStateHonest
    ChunksExact
    ProgressExact
PROPERTIES
    AtomicPublish
    SegmentedRunEnds
