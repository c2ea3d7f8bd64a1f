CONSTANTS
    content = content
    client = client
    v1 = v1
    v2 = v2
    Other = Other
    Consumers = {content, client}
    Views = {v1}
    Known = {v1}
    Keys = {v1}
    KeyOf <- MCKeyOf
    BatchSize = 2
    MaxLog = 3
    MaxStops = 1
    MaxRestores = 0
    MaxSlowStarts = 0
    MaxTrims = 0
SPECIFICATION LiveSpec
PROPERTY AllCounted
PROPERTY ShutdownCompletes
