CONSTANTS
    Threads = {t1, t2}
    NoThread = NoThread
    Margin = 1
    Lifetimes = {2}
    MaxDelay = 1
    MaxTime = 1
    MaxTokens = 3
    MaxCalls = 3
    MaxRequests = 1
SPECIFICATION TransportFairSpec
INVARIANTS
    TransportInv
    RetryCarriesNewerToken
    ExecutedAtMostOnce
PROPERTIES
    RequestsEnd
