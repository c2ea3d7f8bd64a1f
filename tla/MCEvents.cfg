CONSTANTS
    g1 = g1
    s1 = s1
    k = k
    u = u
    content = content
    Malformed = Malformed
    GoRequesters = {g1}
    SpringRequesters = {s1}
    Load = {s1}
    Contents = {k, u}
    Known = {k}
    Statistics = {content}
    RetryMax = 1
    MaxViews = 2
    MaxFaults = 2
    MaxCrashes = 1
    MaxRestores = 1
SPECIFICATION LiveSpec
CHECK_DEADLOCK FALSE
INVARIANT TypeOK
INVARIANT ConfirmedIsPublished
INVARIANT CopiesBounded
INVARIANT CaughtUpCounts
INVARIANT SpringLossExplained
PROPERTY ConfirmedIsCounted
PROPERTY EveryViewAnswered
