SPECIFICATION Spec

CONSTANTS
    s4 = s4
    s6 = s6
    x4 = x4
    x6 = x6
    y4 = y4
    t4 = t4
    t6 = t6
    n1 = n1
    n2 = n2
    n4 = n4
    n6 = n6
    a4 = a4
    a6 = a6
    b4 = b4
    r1 = r1
    r2 = r2
    h1 = h1
    h2 = h2
    p1 = p1
    p2 = p2
    f1 = f1
    w1 = w1
    w2 = w2
    None = None
    Speakers = {s4}
    Family <- MCFamily
    Subnets = {x4, x6, t4, t6}
    NetworkOf <- MCNetworkOf
    VersionOf <- MCVersionOf
    Pooled = {x4, x6, t4, t6}
    ScopeOf <- MCScopeOf
    External = {x4, x6}
    Bindable = {n1}
    Routers = {r1, r2}
    Distributed = {}
    Hosts = {h1, h2}
    AgentGateways <- MCAgentGateways
    Ports = {p1}
    SubnetOf <- MCSubnetOf
    FloatingIps = {f1}
    FipNetwork <- MCFipNetwork
    Workers = {w1, w2}
    Ops = {"bind", "update", "interface", "gateway", "router", "fip", "port"}
    MaxChanges = 2

SYMMETRY Symmetry

INVARIANTS
    TypeOK
    NothingMissing
    NothingStale
    BindingsAgree
    RoutersAgree

CHECK_DEADLOCK FALSE
