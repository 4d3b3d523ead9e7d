SPECIFICATION Spec
CONSTANTS
    c1 = c1
    c2 = c2
    c3 = c3
    o1 = o1
    o2 = o2
    Verifier = Verifier
    Control = Control
    NoTask = NoTask
    Inbound = {c1, c2}
    Outbound = {}
    KnownPeers = {}
    CacheSize = 1
    MaxPush = 1
    MaxPull = 1
    MinConnections = 2
INVARIANTS
    LockOrder
CHECK_DEADLOCK FALSE
