SPECIFICATION FairSpec
CONSTANTS
    j1 = j1
    j2 = j2
    w1 = w1
    w2 = w2
    k1 = k1
    Jobs <- OneJob
    Workers <- OneWorker
    Keys <- OneKey
    MaxAttempts <- MCMaxAttempts
    NoLease = NoLease
    NoKey = NoKey
    MaxRetries = 0
    MaxCrashes = 0
PROPERTIES EventuallyCancelled
