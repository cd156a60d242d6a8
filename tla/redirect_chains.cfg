SPECIFICATION Spec
CONSTANTS
    Eports = {1, 12}
    Iaddrs = {a, b}
    Iports = {1, 2}
    Rhosts = {AnyHost}
    AnyHost = AnyHost
    Leases = {0, 1}
    Faults = "none"
    Keeps = TRUE
    CleanUnused = TRUE
    Threshold = 1
    MaxTime = 2
    MaxPackets = 1
    MaxRules = 3
SYMMETRY Symmetry
INVARIANT OneRulePerPort
INVARIANT ChainsAgree
INVARIANT GrantKept
