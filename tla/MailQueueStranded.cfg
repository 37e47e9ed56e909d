SPECIFICATION FairSpec
CONSTANTS
    e1 = e1
    e2 = e2
    w1 = w1
    w2 = w2
    Entries <- OneEntry
    Workers <- TwoWorkers
    Priority <- MCPriority
    MaxAttempts <- MCMaxAttempts
    NoEntry = NoEntry
    NoWorker = NoWorker
    MaxChain = 2
    MaxReopened = 0
    MaxTaken = 0
    MaxCrashes = 1
PROPERTIES EventuallySettled
CHECK_DEADLOCK FALSE
