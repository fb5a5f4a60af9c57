SPECIFICATION Spec
CONSTANTS
    k1 = k1
    k2 = k2
    f1 = f1
    f2 = f2
    p1 = p1
    p2 = p2
    Own = {k1}
    Foreign = {}
    Quiet = {}
    Processes = {p1}
    Mishaps = {"evicted", "signalled", "badexec"}
    MaxEvents = 4
    Threads = {t1, t2}
    Cpis = {c1, c2}
    Patiences = {"forever"}
    PickIds <- OwnIds
    Unknown = Unknown
    None = None
SYMMETRY Symmetry
CHECK_DEADLOCK FALSE
INVARIANT TypeOK
INVARIANT NothingMissed
INVARIANT CacheCoherent
INVARIANT LocksOwned
INVARIANT NoLostWakeup
PROPERTY JobSafety
