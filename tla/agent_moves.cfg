SPECIFICATION FairSpec

CONSTANTS
    s1 = s1
    s2 = s2
    p1 = p1
    p2 = p2
    id1 = id1
    id2 = id2
    None = None
    Speakers = {s1, s2}
    LocalAS <- MCLocalAS
    Peers = {}
    PeerId <- MCPeerId
    Destinations = {}
    NextHops = {}
    ServerOps = {"host", "reschedule", "reschedule_here", "toggle"}
    MaxChanges = 2
    FaultOps = {"restart", "call"}
    MaxFaults = 1

PROPERTIES
    BoundSpeakersArrive
    StaleSpeakersGo

CHECK_DEADLOCK FALSE
