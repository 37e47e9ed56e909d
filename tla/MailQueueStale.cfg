SPECIFICATION RecoverySpec
CONSTANTS
    e1 = e1
    e2 = e2
    w1 = w1
    w2 = w2
    Entries <- TwoEntries
    Workers <- TwoWorkers
    Priority <- MCPriority
    MaxAttempts <- MCMaxAttempts
    NoEntry = NoEntry
    NoWorker = NoWorker
    MaxChain = 2
    MaxReopened = 0
    MaxTaken = 1
    MaxCrashes = 0
PROPERTIES StaleWorkerNeverCompletes
CHECK_DEADLOCK FALSE
