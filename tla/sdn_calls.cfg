SPECIFICATION Spec
CONSTANTS
    Keys = {k1, k2}
    Clients = {c1, c2}
    None = None
    SyncErrors = FALSE
    Breaks = TRUE
    Asks = {"add", "addAny", "delete", "deleteRange", "get", "count"}
    MaxConns = 1
    MaxOrphans = 1
SYMMETRY Symmetry
INVARIANT AddDone
INVARIANT NoConnectionLeft
INVARIANT ReadsTrue
