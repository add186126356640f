SPECIFICATION Spec
CONSTANTS
    t1 = t1
    t2 = t2
    t3 = t3
    None = None
    Terminal = {t1, t2, t3}
    Batch = {1, 2}
    MaxRevision = 2
    MaxDraft = 2
SYMMETRY Symmetry
INVARIANTS
    OneBatchPerRevision
    ConflictExplained
PROPERTIES
    AppliedAsPreviewed
