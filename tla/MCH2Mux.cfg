SPECIFICATION FairSpec
CONSTANTS
    MaxStreamId = 6
    PeerWindow = 2
    WindowMax = 4
    RecvWindow = 4
    FrameLimit = 2
    MaxBody = 2
    MaxFrags = 2
    MaxInterim = 1
    MaxNoProgress = 1
    MaxControl = 1
    Scenes <- MCScenes
    Limits <- MCLimits
    Frames <- MCFrames
    SplitTrailers = {}
    Breaks = {"flow", "batch", "single"}
    Bodies <- MCBodies
    Singles = {"single"}
INVARIANTS
    WindowsExact
    SlotsSound
PROPERTIES
    GrantsRespected
    OutcomesRight
    Terminates
