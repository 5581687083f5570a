CONSTANTS
    Listers = {"p", "j"}
    Lang <- MCLang
    Calls <- MCCalls
    Wants <- MCWants
    LastTable = 3
    Initial = 2
    PageSize = 2
    MaxFailures = 1
    Spaced = {2}
    Ends <- MCEnds
    EmptyToken = EmptyToken
    Nowhere = Nowhere
SPECIFICATION ListSpec
CHECK_DEADLOCK FALSE
INVARIANTS
    ListsWhatStayed
PROPERTIES
    ListEnds
