SPECIFICATION Spec
CONSTANTS
    a = a
    b = b
    m = m
    n = n
    Start = a
    Finish = b
    Way = {m, n}
    Centre = m
    None = None
    MaxVertices = 4
    MaxHistory = 2
    MaxVersion = 2
    MaxRequests = 1
CONSTRAINT Bounded
INVARIANTS
    EndpointsKept
    SettledIsFresh
PROPERTIES
    NoLostUpdate
