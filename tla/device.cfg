CONSTANTS
    PollTimeout = 6
    Intervals = {1, 2}
    Lifetimes = {0, 4, 7}
    Backoff = 2
    Delay = 2
    MaxTime = 20
SPECIFICATION FairSpec
INVARIANTS
    TypeOK
    GivesUpInTime
    AskedAtTheEnd
PROPERTIES
    NeverTooFast
    LoginEnds
