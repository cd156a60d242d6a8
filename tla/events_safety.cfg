\* Two subscribers whose subscriptions run out, two notify objects: the lists,
\* the pointers between them, and what each NOTIFY carries.
CONSTANTS
    s1 = s1
    s2 = s2
    n1 = n1
    n2 = n2
    NULL = NULL
    SubAddrs = {s1, s2}
    NotifyAddrs = {n1, n2}
    Services = {"EWanIPC"}
    Timeouts = {1}
    SeqMod = 2
    MayFail = TRUE
    Strict = FALSE
    MaxTime = 2
    MaxChanges = 1
SPECIFICATION Spec
SYMMETRY AddressSymmetry
INVARIANTS
    SeqCarried
    StaleOnlyIfMissed
    NotifyPointsBack
    SubscriberPointsBack
PROPERTY NeverBackwards
