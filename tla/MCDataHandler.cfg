CONSTANTS
    a = a
    b = b
    Slice = Slice
    BadSlice = BadSlice
    Nil = Nil
    Ids = {1, 2}
    Names = {a, b}
    primaryKey <- OneColumn
    MaxInt64 = 2
    DefaultBatchSize = 1
    BatchSizes <- Sizes
    Fields = {"*"}
    Criteria <- MCCriteria
    Replacements <- MCReplacements
    Records <- MCRecords
    ProcArgs = {2}
    MaxRows = 2
    MaxCalls = 2
    MaxWrites = 1
    MaxFaults = 1
SPECIFICATION Spec
INVARIANT TypeOK
PROPERTY PageIsPrefix
PROPERTY NextFollowsPage
PROPERTY KeyedWrite
PROPERTY SpentHandler
