SPECIFICATION FairSpec

CONSTANTS
    p1 = p1
    p2 = p2
    p3 = p3
    x1 = x1
    x2 = x2
    pw1 = pw1
    a1 = a1
    a2 = a2
    w1 = w1
    w2 = w2
    None = None
    Peers = {p1, p3}
    AddressOf <- MCAddressOf
    AuthOf <- MCAuthOf
    Passwords = {pw1}
    Agents = {a1, a2}
    Workers = {w1, w2}
    Ops = {"create", "update", "delete", "add", "remove", "host", "unhost",
           "move", "timeout"}
    MaxChanges = 3

INVARIANTS
    TypeOK
    PeersArePrompt

PROPERTIES
    PeersFollow

CHECK_DEADLOCK FALSE
