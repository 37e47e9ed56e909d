SPECIFICATION Spec
CONSTANTS
    r1 = r1
    r2 = r2
    r3 = r3
    r4 = r4
    x1 = x1
    x2 = x2
    Chain <- MCChain
    MX <- MCMX
    Security <- MCSecurity
    Credential <- MCCredential
    MaxFallbacks = 2
INVARIANTS AmbiguousStopsChain
CHECK_DEADLOCK FALSE
