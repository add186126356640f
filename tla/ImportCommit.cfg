SPECIFICATION Spec
CONSTANTS
    None = None
    Job = {1, 2}
    MaxPolls = 2
PROPERTIES
    CleanImportStarts
CHECK_DEADLOCK FALSE
