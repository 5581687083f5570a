CONSTANTS
    Callers = {c1, c2}
    Paths = {p1, p2}
    Texts = {x1, x2}
    m1 = m1
    m2 = m2
    Models = {m1, m2}
    None = None
    plain = plain
    swapped = swapped
    readable = readable
    Stores <- MCStores
    Model <- MCModel
    Revocable = {}
    MaxTables = 2
    MaxCalls = 3
SYMMETRY Symmetry
SPECIFICATION Spec
INVARIANTS
    ModelsAgree
