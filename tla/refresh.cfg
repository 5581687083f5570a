CONSTANTS
    Threads = {t1, t2}
    NoThread = NoThread
    Margin = 1
    Lifetimes = {1, 3}
    MaxDelay = 1
    MaxTime = 1
    MaxTokens = 2
    MaxRefreshTokens = 2
    MaxCalls = 2
SPECIFICATION FairSpec
INVARIANTS
    TypeOK
    NeverRotatedOut
PROPERTIES
    SessionKept
    ImplementsTokenSource
    CallsEnd
