CONSTANTS
    g1 = g1
    g2 = g2
    s1 = s1
    i1 = i1
    i2 = i2
    a = a
    Unparsable = Unparsable
    Invalid = Invalid
    None = None
    GoRequests = {g1}
    SpringRequests = {}
    Ids = {i1, i2}
    Names = {a}
    MaxConnections = 2
    MaxFaults = 0
    MaxRestarts = 0
SPECIFICATION Spec
INVARIANT CreatedIsAnnounced
