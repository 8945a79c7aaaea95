SPECIFICATION Spec
CONSTANTS
    Conns = {c1, c2}
    Devices = {d1, d2}
    Groups = {g1}
    Stamps = {0}
    None = None
    RECENT_CAP = 2
    RECENT_TTL = 1
    BROADCAST_CAP = 2
    WIRE_CAP = 1
    MaxClips = 3
    MaxNow = 1
SYMMETRY Symmetry
INVARIANTS TypeOK CacheIsNewest CatchUp ForwardedClean
CHECK_DEADLOCK FALSE
