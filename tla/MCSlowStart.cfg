CONSTANTS
    content = content
    client = client
    v1 = v1
    v2 = v2
    Other = Other
    Consumers = {content, client}
    Views = {v1, v2}
    Known = {v1, v2}
    Keys = {v1, v2}
    KeyOf <- MCKeyOf
    BatchSize = 1
    MaxLog = 2
    MaxStops = 1
    MaxRestores = 0
    MaxSlowStarts = 1
    MaxTrims = 0
SPECIFICATION Spec
INVARIANT ExactlyOnce
