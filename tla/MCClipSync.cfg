SPECIFICATION SyncSpec
CONSTANTS
    Conns = {a, b}
    Devices = {a, b}
    Groups = {g1}
    Stamps = {1, 2}
    None = None
    RECENT_CAP = 2
    RECENT_TTL = 2
    BROADCAST_CAP = 2
    WIRE_CAP = 1
    MaxClips = 2
    MaxNow = 1
    LanPeers <- AllOnLan
    DEDUP_CAP = 1
    DEDUP_TTL = 0
    MaxSessions = 2
    MaxFetches = 0
SYMMETRY Symmetry
INVARIANTS NoDoubleApply QuietMeansCaughtUp
CHECK_DEADLOCK FALSE
