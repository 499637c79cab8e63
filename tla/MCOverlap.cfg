SPECIFICATION SingleSpec
CONSTANTS
    Capacity = 6
    TrailerLen = 2
    Resources = {1, 2}
    UrlOf <- OverlapUrlOf
    SizeOf <- OverlapSizeOf
    Faults = {}
    MaxRetries = 0
    MaxSize = 4
    CheckSums = {0}
    MaxRuns = 2
INVARIANT
    TrailerApart
