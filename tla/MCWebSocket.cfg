SPECIFICATION Spec
CONSTANTS
    MaxFrames = 3
    MaxSplitFrames = 2
    MaxSends = 1
    MaxFaults = 1
INVARIANTS
    NothingAfterClose
    ReceivesExact
PROPERTIES
    Unwinds
CHECK_DEADLOCK FALSE
