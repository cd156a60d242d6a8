SPECIFICATION FairSpec
CONSTANTS
    Eports = {1, 2}
    Iaddrs = {a}
    Iports = {1, 2}
    Rhosts = {AnyHost}
    AnyHost = AnyHost
    Leases = {1, 2}
    Faults = "none"
    Keeps = FALSE
    CleanUnused = FALSE
    Threshold = 0
    MaxTime = 3
    MaxPackets = 0
    MaxRules = 3
PROPERTY LeaseEnds
