SPECIFICATION Spec
CONSTANTS
    Conns = {c1, c2, c3}
    Devices = {d1, d2}
    Groups = {g1}
    Egresses = {e1, e2}
    Addrs <- MCAddrs
    Adverts <- MCAdverts
    Private <- MCPrivate
    SameSubnet <- MCSameSubnet
    None = None
    MaxConns = 4
    MaxAdvs = 3
SYMMETRY Symmetry
INVARIANTS PresenceIsLive SnapshotIsFresh ToldPeersAreOurs
CHECK_DEADLOCK FALSE
