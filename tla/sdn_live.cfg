\* Connections that fail inside mg_http_connect() and are left behind
SPECIFICATION FairSpec
CONSTANTS
    Keys = {k1}
    Clients = {c1}
    None = None
    SyncErrors = TRUE
    Breaks = TRUE
    Asks = {"add", "get", "count"}
    MaxConns = 2
    MaxOrphans = 0
INVARIANT OkNeedsAnswer
PROPERTY Answered
