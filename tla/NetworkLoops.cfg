SPECIFICATION FairSpec
CONSTANTS
    a = a  b = b  c = c
    ab = ab  ba = ba  bc = bc  ca = ca
    i = i  w = w
    Nodes = {a, b, c}
    Connections = {ab, bc, ca}
    EndsOf <- Ring
    Ids = {i, w}
    WideIds = {}
    Subscribed = {a, b, c}
    Refusing = {}
    Degree <- BothPeers
    CacheSize <- RoomForOne
    Ttls = {0}
    Fragile = {}
    NoNode = NoNode  NoConnection = NoConnection
PROPERTIES
    DiesOut
CHECK_DEADLOCK FALSE
