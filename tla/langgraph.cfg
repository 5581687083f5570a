CONSTANTS
    Workers = {w1, w2}
    Values = {"v1", "v2"}
    Segments = {"user", "user2", "k"}
    None = None
    Text = Text
    Error = Error
    Order <- MCOrder
    Begins <- MCBegins
    Batches <- MCBatches
    Embeds = TRUE
    MaxTime = 2
    MaxBatches = 3
SYMMETRY Symmetry
SPECIFICATION Spec
INVARIANTS
    StoreInv
PROPERTIES
    PutKeepsCreated
    SearchesAreFresh
