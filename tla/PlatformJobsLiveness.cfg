SPECIFICATION FairSpec
CONSTANTS
    j1 = j1
    j2 = j2
    w1 = w1
    w2 = w2
    k1 = k1
    Jobs <- OneJob
    Workers <- TwoWorkers
    Keys <- OneKey
    MaxAttempts <- MCMaxAttempts
    NoLease = NoLease
    NoKey = NoKey
    MaxRetries = 1
    MaxCrashes = 1
INVARIANTS LeaseExclusive AttemptBudget
PROPERTIES ProgressNeverGoesBack LifecycleSpec EventuallyEnds
