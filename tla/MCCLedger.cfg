CONSTANTS
    v1 = v1
    v2 = v2
    Other = Other
    Views = {v1, v2}
    Known = {v1, v2}
    BatchSize = 2
    PartitionEof = FALSE
    MaxLog = 4
    MaxStops = 2
    MaxErrors = 0
    MaxFaults = 0
    MaxRestores = 1
    MaxTrims = 0
SPECIFICATION LiveSpec
INVARIANT TypeOK
PROPERTY Refinement
PROPERTY AllCounted
