SPECIFICATION FairSpec

CONSTANTS
    s1 = s1
    s2 = s2
    p1 = p1
    p2 = p2
    id1 = id1
    id2 = id2
    None = None
    Speakers = {s1}
    LocalAS <- MCLocalAS
    Peers = {p1}
    PeerId <- MCPeerId
    Destinations = {}
    NextHops = {}
    ServerOps = {"associate"}
    MaxChanges = 2
    FaultOps = {"driver"}
    MaxFaults = 1

PROPERTIES
    ResyncRepairsSessions

CHECK_DEADLOCK FALSE
