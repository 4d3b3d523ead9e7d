SPECIFICATION Spec
CONSTANTS
    a1 = a1
    a2 = a2
    p1 = p1
    p2 = p2
    small = small
    wide = wide
    dtype = dtype
    NoTask = NoTask
    Apis = {a1, a2}
    Peers = {p1, p2}
    PullPeers = {}
    Ids = {small, wide}
    WideIds = {wide}
    OversizedIds = {wide}
    DataTypes = {dtype}
    TypeOf <- MCTypeOf
    Ttls = {1, 2}
    CacheSize = 1
    Degree = 1
    MaxAccepts <- MCMaxAccepts
    MaxNotifies = 2
    MayBlock = FALSE
SYMMETRY Symmetry
INVARIANTS
    TypeOK
    RelayedOncePerResidency
    UnanimousRelay
    TtlAttenuated
    AwaitedWasAsked
CHECK_DEADLOCK FALSE
