SPECIFICATION FairSpec

CONSTANTS
    s1 = s1
    s2 = s2
    a1 = a1
    a2 = a2
    w1 = w1
    w2 = w2
    None = None
    Speakers = {s1, s2}
    Agents = {a1, a2}
    ApiWorkers = {w1, w2}
    Ops = {"create", "add", "remove", "delete", "stop", "report", "toggle"}
    MaxChanges = 3
    MaxFaults = 1

INVARIANTS
    TypeOK
    AgentHostsOne

PROPERTIES
    SpeakersGetAgents
    DownAgentsAreReleased
    KeepsPromise

CHECK_DEADLOCK FALSE
