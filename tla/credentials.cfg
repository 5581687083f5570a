CONSTANTS
    Threads = {t1, t2}
    NoThread = NoThread
    Margin = 1
    Lifetimes = {1, 3}
    MaxDelay = 1
    MaxTime = 3
    MaxTokens = 3
    MaxCalls = 2
SYMMETRY ThreadSymmetry
SPECIFICATION Spec
INVARIANTS
    CacheInv
    SingleFlight
    NoDroppedToken
    NoExpiredToken
PROPERTIES
    ImplementsTokenSource
