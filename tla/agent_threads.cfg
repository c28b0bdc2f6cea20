SPECIFICATION Spec

CONSTANTS
    s1 = s1
    s2 = s2
    p1 = p1
    p2 = p2
    id1 = id1
    id2 = id2
    None = None
    Speakers = {s1, s2}
    LocalAS <- MCLocalAS
    Peers = {p1}
    PeerId <- MCPeerId
    Destinations = {}
    NextHops = {}
    ServerOps = {"host", "unhost", "reschedule", "reschedule_here", "auto_schedule",
                 "toggle", "revived"}
    MaxChanges = 2
    FaultOps = {"restart", "call", "driver", "lose_cast"}
    MaxFaults = 1

INVARIANTS
    TypeOK
    RefreshGoesOn
    OneSpeakerAlone
    NoSpeakerForgotten

CHECK_DEADLOCK FALSE
