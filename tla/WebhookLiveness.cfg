SPECIFICATION FairSpec
CONSTANTS
    v1 = v1
    v2 = v2
    s1 = s1
    p1 = p1
    p2 = p2
    Events = {v1}
    Subs = {s1}
    Processors = {p1, p2}
    NoRow = NoRow
    NoOwner = NoOwner
    NoSub = NoSub
    MaxAttempts = 2
    SuspendAfter = 1
    MaxReplays = 1
    MaxTaken = 1
    MaxCrashes = 1
    MaxAdmin = 0
PROPERTIES DeliveryEnds
CHECK_DEADLOCK FALSE
