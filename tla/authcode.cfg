CONSTANTS
    Mine = Mine
    None = None
    MyCode = MyCode
    OldCode = OldCode
    OldState = OldState
    Requests <- MCRequests
    Codes <- MCCodes
    States <- MCStates
    LoginTimeout = 2
    Slice = 1
    MaxTime = 4
    MaxConnections = 3
SPECIFICATION FairSpec
INVARIANTS
    TypeOK
    CodeCameWithState
    RedirectDecides
PROPERTIES
    LoginEndsUnlessHeld
