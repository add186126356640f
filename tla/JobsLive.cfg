SPECIFICATION FairSpec
CONSTANTS
    w1 = w1
    w2 = w2
    None = None
    Worker = {w1, w2}
    Caller = {}
    Job = {1, 2}
    ImportJob = {1}
    Codes <- MCCodes
    MaxRetries = 2
    Batches <- MCBatches
PROPERTIES
    Finishes
CHECK_DEADLOCK FALSE
