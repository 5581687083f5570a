CONSTANTS
    Threads = {t1, t2}
    None = None
    NoNumber = NoNumber
    Vended <- MCVended
    Lifetimes = {2, 5}
    Overrides <- MCEndpoint
    Margin = 3
    MaxDelay = 1
    MaxTime = 6
    MaxCalls = 3
SYMMETRY Symmetry
SPECIFICATION Spec
INVARIANTS
    ShapesAgree
PROPERTIES
    FreshEnough
    RevocationBites
