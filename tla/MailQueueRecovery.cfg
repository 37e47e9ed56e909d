SPECIFICATION FairRecoverySpec
CONSTANTS
    e1 = e1
    e2 = e2
    w1 = w1
    w2 = w2
    Entries <- OneEntry
    Workers <- TwoWorkers
    Priority <- MCPriority
    MaxAttempts <- MCMaxAttempts
    NoEntry = NoEntry
    NoWorker = NoWorker
    MaxChain = 2
    MaxReopened = 1
    MaxTaken = 1
    MaxCrashes = 1
INVARIANTS LeaseExclusive CopiesBounded AttemptBudget
PROPERTIES SettledStable EventuallySettled
CHECK_DEADLOCK FALSE
