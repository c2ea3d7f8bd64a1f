CONSTANTS
    content = content
    client = client
    v1 = v1
    v2 = v2
    Other = Other
    Consumers = {content}
    Views = {v1, v2}
    Known = {v1}
    Keys = {v1, v2}
    KeyOf <- MCKeyOf
    BatchSize = 2
    MaxLog = 4
    MaxStops = 2
    MaxRestores = 1
    MaxSlowStarts = 2
    MaxTrims = 3
SPECIFICATION Spec
INVARIANT NoOvercount
INVARIANT NoUndercount
INVARIANT PoisonNeverPassed
PROPERTY RefNeverBack
