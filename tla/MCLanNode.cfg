SPECIFICATION FairSpec
CONSTANTS
    Peers = {p1}
    Dialled = {p1}
    Tasks = {t1, t2}
    MaxFlips = 2
    MaxEvents = 2
    MaxFaults = 1
INVARIANTS TypeOK MarkHasTask NoGhostPeer CountMatchesRegistry
PROPERTIES TransportFollowsFlag KnownIsDialled SuspendEndsSessions
CHECK_DEADLOCK FALSE
