SPECIFICATION Spec
CONSTANTS
    k1 = k1
    k2 = k2
    f1 = f1
    f2 = f2
    p1 = p1
    p2 = p2
    Own = {k1, k2}
    Foreign = {f1, f2}
    Quiet = {f2}
    Processes = {p1}
    Mishaps = {"evicted", "signalled"}
    MaxEvents = 0
    Threads = {t1, t2}
    Cpis = {c1, c2}
    Patiences = {}
    PickIds <- MixedIds
    Unknown = Unknown
    None = None
SYMMETRY Symmetry
CHECK_DEADLOCK FALSE
INVARIANT Inv
INVARIANT CacheInv
INVARIANT SubmissionsKnown
INVARIANT EveryHandleListens
