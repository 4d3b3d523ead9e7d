SPECIFICATION FairSpec
CONSTANTS
    a1 = a1
    a2 = a2
    p1 = p1
    p2 = p2
    small = small
    wide = wide
    dtype = dtype
    NoTask = NoTask
    Apis = {a1}
    Peers = {p1, p2}
    PullPeers = {p1}
    Ids = {small, wide}
    WideIds = {wide}
    OversizedIds = {}
    DataTypes = {dtype}
    TypeOf <- MCTypeOf
    Ttls = {0}
    CacheSize = 1
    Degree = 1
    MaxAccepts <- MCAcceptOnce
    MaxNotifies = 2
    MayBlock = TRUE
PROPERTIES
    
    LocksReleased
    ImplementsRelayGate
CHECK_DEADLOCK FALSE
