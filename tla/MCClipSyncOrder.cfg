SPECIFICATION SyncSpec
CONSTANTS
    Conns = {a, b}
    Devices = {a, b}
    Groups = {g1}
    Stamps = {1, 2}
    None = None
    RECENT_CAP = 1
    RECENT_TTL = 3
    BROADCAST_CAP = 2
    WIRE_CAP = 2
    MaxClips = 2
    MaxNow = 0
    LanPeers <- NoLan
    DEDUP_CAP = 4
    DEDUP_TTL = 1
    MaxSessions = 1
    MaxFetches = 1
INVARIANTS NewestWins
CHECK_DEADLOCK FALSE
