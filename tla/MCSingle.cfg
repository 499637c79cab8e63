SPECIFICATION FairSingleSpec
CONSTANTS
    Capacity = 6
    TrailerLen = 2
    Resources = {1, 2, 3, 4, 5}
    UrlOf <- MCUrlOf
    SizeOf <- MCSizeOf
    Faults = {"ignore", "misplaced", "nolength"}
    MaxRetries = 1
    MaxSize = 3
    CheckSums = {0, 3}
    MaxRuns = 3
INVARIANTS
    PublishedIntact
    StateHonest
PROPERTIES
    ChecksumProtects
    RunEnds
