SPECIFICATION Spec
CONSTANTS
    Eports = {1, 12}
    Iaddrs = {a}
    Iports = {1, 2}
    Rhosts = {AnyHost}
    AnyHost = AnyHost
    Leases = {0, 1, 2}
    Faults = "crash"
    Keeps = FALSE
    CleanUnused = FALSE
    Threshold = 0
    MaxTime = 2
    MaxPackets = 0
    MaxRules = 3
INVARIANT LeaseFileMatches
