SPECIFICATION Spec

CONSTANTS
    s4 = s4
    s6 = s6
    x4 = x4
    x6 = x6
    y4 = y4
    t4 = t4
    t6 = t6
    n1 = n1
    n2 = n2
    n4 = n4
    n6 = n6
    a4 = a4
    a6 = a6
    b4 = b4
    r1 = r1
    r2 = r2
    h1 = h1
    h2 = h2
    p1 = p1
    p2 = p2
    f1 = f1
    w1 = w1
    w2 = w2
    None = None
    Speakers = {s4}
    Family <- MCFamily
    Subnets = {x4, y4, t4}
    NetworkOf <- MCNetworkOf
    VersionOf <- MCVersionOf
    Pooled = {x4, y4, t4}
    ScopeOf <- MCScopeOf
    External = {x4, y4}
    Bindable = {n1, n2}
    Routers = {r1}
    Distributed = {}
    Hosts = {h1}
    AgentGateways <- MCAgentGateways
    Ports = {p1}
    SubnetOf <- MCSubnetOf
    FloatingIps = {}
    FipNetwork <- MCFipNetwork
    Workers = {w1, w2}
    Ops = {"gateway", "interface"}
    MaxChanges = 2

INVARIANT
    ScopesKeptApart

CHECK_DEADLOCK FALSE
