SPECIFICATION FairSpec

CONSTANTS
    s1 = s1
    s2 = s2
    p1 = p1
    p2 = p2
    id1 = id1
    id2 = id2
    None = None
    Speakers = {s1}
    LocalAS <- MCLocalAS
    Peers = {p1}
    PeerId <- MCPeerId
    Destinations = {d1}
    NextHops = {n1, n2}
    ServerOps = {"host", "unhost", "advertise", "withdraw", "move", "associate", "disassociate"}
    MaxChanges = 2
    FaultOps = {}
    MaxFaults = 0

INVARIANTS
    DriverMirrorsCache

PROPERTIES
    DriverFollowsServer

CHECK_DEADLOCK FALSE
