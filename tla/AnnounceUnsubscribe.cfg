SPECIFICATION Spec
CONSTANTS
    a1 = a1
    a2 = a2
    p1 = p1
    p2 = p2
    small = small
    wide = wide
    dtype = dtype
    NoTask = NoTask
    Apis = {a1}
    Peers = {p1}
    PullPeers = {p1}
    Ids = {small, wide}
    WideIds = {wide}
    OversizedIds = {wide}
    DataTypes = {dtype}
    TypeOf <- MCTypeOf
    Ttls = {1, 2}
    CacheSize = 1
    Degree = 1
    MaxAccepts <- MCAcceptOnce
    MaxNotifies = 2
    MayBlock = FALSE
INVARIANTS
    SubscriptionCancelled
CHECK_DEADLOCK FALSE
