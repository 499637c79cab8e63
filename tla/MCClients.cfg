SPECIFICATION McSpec
CONSTANTS
    MaxTransfers = 3
    Commands <- McCommands
    Workers = {w1, w2}
    BodyLen = 2
    Faults = {"TimedOut", "Refused", "Disk"}
    Easies = {e1, e2}
    Varied = {e1}
    Settings <- McSettings
    NativeSettings <- McNative
    Buffers <- McBuffers
    HeaderLines <- McLines
    MaxWrite = 2
    MaxCalls = 3
    MailBytes = 3
    FileBlocks = 5
    Modulus = 4
    MaxRetries = 1
    NetFaults = 2
    MaxInFlight = 2
    FilterTokens = 5
    PatternBytes = 3
    MaxFilterDepth = 1
    MaxEntries = 2
    MaxFrames = 2
    MaxItems = 2
    SshFile = 3
    SshChunk = 2
    StaticTable <- McStatic
    FieldLists <- McLists
    TableSizes = {0, 4, 7, 20}
    OddBlocks <- McOdd
    Cap = 10
    MaxList = 30
    Digit = 4
    WordMax = 64
    MaxBlocks = 4
    BlobThreads = {b1, b2}
    Writes <- McWrites
    MaxLen = 4
    Threshold = 2
    MaxOps = 4
    MaxFaults = 1
    Trackers <- McTrackers
    TrackerPeers <- McTrackerPeers
    Forged = "forged"
    NoNode = "none"
    Bootstrap <- McBootstrap
    NodeReply <- McReply
    Dist <- McDist
    Alpha = 1
    MaxKnown = 2
    EnoughPeers = 3
    MaxReplies = 2
    Sends = 2
    MaxStray = 2
    Scripts <- McScripts
    Info <- McInfo
    PieceSize = 2
    MaxMetadata = 4
    MaxParallel = 2
INVARIANTS
    HandleSound
    ReturnsAreHonest
    OutputSound
    ApiSound
    TrustHolds
    ReportsTrue
    HpackInSync
    BlobExact
PROPERTIES
    AllEnds
