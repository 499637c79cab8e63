SPECIFICATION Spec
CONSTANTS
    Threads = {t1}
    Requests <- MCH3
    Tokens = {"k"}
    NoToken = "none"
    PerKeyCap = 1
    GlobalCap = 2
    MaxConns = 3
    MaxCalls = 1
INVARIANTS
    H3ReplayJustified
