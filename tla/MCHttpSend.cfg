SPECIFICATION FairSpec
CONSTANTS
    Threads = {t1, t2}
    Requests <- MCRequests
    Tokens = {"k"}
    NoToken = "none"
    PerKeyCap = 1
    GlobalCap = 2
    MaxConns = 4
    MaxCalls = 3
INVARIANTS
    PoolsSound
    ReplayJustified
PROPERTIES
    CancelLetsGo
