SPECIFICATION Spec
CONSTANTS
    w1 = w1
    w2 = w2
    c1 = c1
    None = None
    Worker = {w1, w2}
    Caller = {c1}
    Job = {1, 2}
    ImportJob = {1, 2}
    Codes <- MCCodes
    MaxRetries = 2
    Batches <- MCBatches
SYMMETRY Symmetry
INVARIANTS
    AttemptsHonest
    AllOrNothing
PROPERTIES
    OnlyOwnerCommits
    NoRevival
CHECK_DEADLOCK FALSE
