SPECIFICATION Spec
CONSTANTS
    t1 = t1
    t2 = t2
    a = a
    b = b
    n = n
    boot = boot
    own = own
    users = users
    bad = bad
    taken = taken
    junk = junk
    Missing = Missing
    NotANumber = NotANumber
    Main = Main
    NoTask = NoTask
    Offerers = {t1, t2}
    Addresses <- MCAddresses
    Names <- MCNames
    Resolve <- MCResolve
    ConfigFiles <- MCFiles
    Others = {a, b}
    Callers = {a}
    BadPort = {bad}
    TakenPort = {taken}
    MaxOffer = 2
SYMMETRY OffererSymmetry
INVARIANTS
    TypeOK
    CapacityKept
PROPERTIES
    
    NoSecondConnection
    NothingPassedOver
    FallbackTaken
CHECK_DEADLOCK FALSE
