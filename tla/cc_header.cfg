CONSTANTS
    Threads = {t1, t2}
    NoThread = NoThread
    Margin = 1
    Lifetimes = {3}
    MaxDelay = 1
    MaxTime = 1
    MaxTokens = 2
    MaxCalls = 1
SPECIFICATION Spec
INVARIANTS
    HeaderHasToken
