SPECIFICATION FairSpec
CONSTANTS
    i = i
    r = r
    Initiator = i
    Receiver = r
    DataLengths = {1}
    MaxDiscoveries <- MCMaxDiscoveries
    MaxAnnounces <- MCMaxAnnounces
    MayBlock <- MCMayBlock
INVARIANTS
    TypeOK
    WholeOrNothing
    WelcomeMessages
    VerdictsAgree
    PromotedOnce
    PeersHaveAddresses
PROPERTIES
    HandshakeEnds
    BothEndsClose
CHECK_DEADLOCK FALSE
