SPECIFICATION Spec
CONSTANTS
    t1 = t1
    t2 = t2
    c1 = c1
    c2 = c2
    c3 = c3
    box = box
    hut = hut
    None = None
    Txn = {t1, t2}
    Terminal = {1, 2, 3, 4}
    ConnId = {c1, c2, c3}
    Structure = {box}
    Site = {hut}
    LocationOf <- MCLocationOf
    Adapter <- MCAdapter
    Request <- CoreRequests
    MaxRevision = 5
SYMMETRY Symmetry
INVARIANTS
    TypeOK
    Exclusive
    LinkedMeansConnected
    OccupancyHasItsRecord
PROPERTIES
    HistoryKept
    PanelSpec
CHECK_DEADLOCK FALSE
