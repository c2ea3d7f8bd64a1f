CONSTANTS
    content = content
    client = client
    v1 = v1
    v2 = v2
    Other = Other
    Consumers = {content, client}
    Views = {v1, v2}
    Known = {v1, v2}
    Keys = {v1, v2}
    KeyOf <- MCKeyOf
    BatchSize = 2
    MaxLog = 3
    MaxStops = 2
    MaxRestores = 1
    MaxSlowStarts = 0
    MaxTrims = 0
SPECIFICATION Spec
INVARIANT TypeOK
INVARIANT ExactlyOnce
INVARIANT ReplayBounded
PROPERTY Refinement
