SPECIFICATION Spec
CONSTANTS
    v1 = v1
    v2 = v2
    s1 = s1
    p1 = p1
    p2 = p2
    Events = {v1, v2}
    Subs = {s1}
    Processors = {p1, p2}
    NoRow = NoRow
    NoOwner = NoOwner
    NoSub = NoSub
    MaxAttempts = 2
    SuspendAfter = 2
    MaxReplays = 0
    MaxTaken = 1
    MaxCrashes = 0
    MaxAdmin = 1
SYMMETRY ProcessorSymmetry
INVARIANTS PostsBounded AttemptBudget
PROPERTIES SettledFinal SuspensionHolds
CHECK_DEADLOCK FALSE
