SPECIFICATION FairImageSpec
CONSTANTS
    d1 = d1
    d2 = d2
    k1 = k1
    k2 = k2
    Threads = {d1, d2}
    Keys = {k1, k2}
    Size <- MCSize
    BUDGET = 2
    TTL = 2
    MAX_BLOB = 2
    WORD = 16
    MaxNow = 2
    None = None
    LanPeers <- MCLanPeers
    CACHE_BYTES = 2
    CACHE_ENTRIES = 2
    MaxRepeats = 1
    MaxFetches = 1
INVARIANTS CounterExact  AnnouncedIsStored
PROPERTIES RequestEnds
CHECK_DEADLOCK FALSE
