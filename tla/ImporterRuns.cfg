SPECIFICATION FairSpec
CONSTANTS
    c1 = c1
    c2 = c2
    w1 = w1
    w2 = w2
    k1 = k1
    k2 = k2
    Clients = {c1, c2}
    Workers = {w1, w2}
    Keys = {k1}
    NoWorker = NoWorker
    NoKey = NoKey
    NoResource = NoResource
    TotalRows = 3
    Kind <- UpdateAliasMember
    BatchSize = 1
    MaxAttempts = 2
    MaxRequests = 3
    MaxEvents = 1
INVARIANTS CompletedMeansAttempted CopiesAccounted CompensatedClean HoldProtects EditKept
PROPERTIES ObeysTransitions JobContract RunEnds
CHECK_DEADLOCK FALSE
