SPECIFICATION FairSpec
CONSTANTS
    a = a  b = b  c = c
    ab = ab  ba = ba  bc = bc  ca = ca
    i = i  w = w
    Nodes = {a, b, c}
    Connections = {ab, ba, bc, ca}
    EndsOf <- DoubleRing
    Ids = {i, w}
    WideIds = {w}
    Subscribed = {a, b, c}
    Refusing = {b}
    Degree <- SomeDegrees
    CacheSize <- SmallCache
    Ttls = {0, 2}
    Fragile = {bc}
    NoNode = NoNode  NoConnection = NoConnection
INVARIANTS
    TypeOK
    HopsWithinTtl
    NotifiedOnce
PROPERTIES
    RelayReachesSomebody
    EverybodyNotified
    DiesOut
CHECK_DEADLOCK FALSE
