SPECIFICATION ConsoleSpec
CONSTANTS
    t1 = t1
    t2 = t2
    c1 = c1
    c2 = c2
    o1 = o1
    o2 = o2
    None = None
    Box = Box
    Txn = {t1, t2}
    Terminal = {1, 2}
    ConnId = {c1, c2}
    Structure = {Box}
    Site = {}
    LocationOf <- MCLocationOf
    Adapter = {}
    Request <- EditorRequests
    MaxRevision = 4
    MaxSaves = 3
    Queries <- SmallQueries
    Followed <- FollowedAttributes
    Job = {1, 2}
    MaxPolls = 2
    Questions <- FollowedInputs
    Choice = {1, 2}
    MaxQuestions = 3
    MaxData = 4
    MaxVersion = 2
    Port = {1, 2}
    cust = cust
    Customer = {cust}
    Onu = {o1, o2}
    MaxLinks = 2
SYMMETRY Symmetry
CONSTRAINT Bounded
INVARIANTS
    Typed
    PageIsCurrent
    PathsAreExact
    CompleteLeavesNoLooseEnd
    LimitCutsTheFarthest
    OwnSaveShown
    OneServicePerPort
    ActivatesChosenPort
    EndShownIsReal
    ShowsLastAnswer
    SplitsOwnFibers
    StyleKeepsTheNetwork
PROPERTIES
    NothingOverwritten
    EndsWhatWasShown
CHECK_DEADLOCK FALSE
