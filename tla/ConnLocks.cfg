SPECIFICATION FairSpec
CONSTANTS
    t1 = t1
    t2 = t2
    t3 = t3
    c1 = c1
    c2 = c2
    box = box
    hut = hut
    None = None
    Txn = {t1, t2, t3}
    Terminal = {1, 2, 3}
    ConnId = {c1, c2}
    Structure = {box}
    Site = {hut}
    LocationOf <- MCLocationOf
    Adapter <- MCAdapter
    Request <- LockRequests
    MaxRevision = 4
INVARIANTS
    NoDeadlock
PROPERTIES
    Terminates
CHECK_DEADLOCK FALSE
