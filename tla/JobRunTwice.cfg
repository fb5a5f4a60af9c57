SPECIFICATION Spec
CONSTANTS
    k1 = k1
    k2 = k2
    f1 = f1
    f2 = f2
    p1 = p1
    p2 = p2
    Own = {k1, k2}
    Foreign = {}
    Quiet = {}
    Processes = {p1}
    Mishaps = {}
    MaxEvents = 4
    Threads = {t1, t2}
    Cpis = {c1}
    Patiences = {"zero", "some", "forever"}
    PickIds <- NoIds
    Unknown = Unknown
    None = None
CHECK_DEADLOCK FALSE
INVARIANT JobIdSetOnce
