SPECIFICATION BackSpec
CONSTANTS
    Kinds = {"pf", "ipf", "ipfw", "nft"}
    Keys <- TwoKeys
    Iaddrs = {a, b}
    Iports = {1, 2}
    Rhosts = {0}
    Times = {0, 1}
    Refusals <- AnyRefusal
    NoTarget = NoTarget
    Junk = {0, x}
    Programs <- AllPrograms
    Chunk = 2
    MaxRules = 2
    MaxLists = 3
    MaxRefused = 1
    Peers <- OnePeer
INVARIANT ListingTrue
PROPERTY IsPortMaps
CHECK_DEADLOCK FALSE

SYMMETRY Symmetry
INVARIANT GrantedKept
