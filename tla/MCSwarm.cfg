SPECIFICATION Spec
CONSTANTS
    NumPeers = 3
    NumPieces = 2
    NumBlocks = 2
    MaxPeers = 2
    MaxBusy = 2
    MaxStrikes = 2
    Depth = 1
    MaxInbound = 1
    Target = 1
    MaxFaults = 2
    MaxBacklog = 3
INVARIANTS
    SwarmSound
    OnlyVerifiedCounts
PROPERTIES
    SwarmEnds
