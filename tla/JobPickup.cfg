SPECIFICATION Spec
CONSTANTS
    k1 = k1
    k2 = k2
    f1 = f1
    f2 = f2
    p1 = p1
    p2 = p2
    Own = {}
    Foreign = {f1}
    Quiet = {}
    Processes = {p1, p2}
    Mishaps = {"signalled", "badexec"}
    MaxEvents = 1
    Threads = {t1, t2}
    Cpis = {c1, c2}
    Patiences = {}
    PickIds <- ForeignIds
    Unknown = Unknown
    None = None
SYMMETRY Symmetry
CHECK_DEADLOCK FALSE
INVARIANT InstancesAlive
INVARIANT EventsApplied
INVARIANT EveryHandleListens
