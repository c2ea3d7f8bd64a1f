CONSTANTS
    v1 = v1
    v2 = v2
    Other = Other
    Views = {v1, v2}
    Known = {v1}
    BatchSize = 2
    PartitionEof = TRUE
    MaxLog = 4
    MaxStops = 2
    MaxErrors = 1
    MaxFaults = 1
    MaxRestores = 1
    MaxTrims = 2
SPECIFICATION Spec
INVARIANT OvercountBounded
INVARIANT LossBounded
