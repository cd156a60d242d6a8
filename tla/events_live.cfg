\* One subscriber, peers that answer, changes without end: liveness.
CONSTANTS
    s1 = s1
    n1 = n1
    n2 = n2
    NULL = NULL
    SubAddrs = {s1}
    NotifyAddrs = {n1, n2}
    Services = {"EWanIPC"}
    Timeouts = {1}
    SeqMod = 1
    MayFail = FALSE
    Strict = FALSE
    MaxTime = 2
    MaxChanges = 0
SPECIFICATION FairPeersSpec
PROPERTIES
    NotifyEnds
    ExpiredGoes
