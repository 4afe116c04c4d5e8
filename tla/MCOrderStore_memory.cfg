CONSTANTS
    Capacity <- MCCapacity
    MinQuantity = 1
    MaxQuantity = 4
    Today = 0
    Sales <- MCSales
    Schedulers <- MCSchedulers
    Wants <- MCWants
    Drafts <- MCDrafts
    Changes <- MCChanges
    Options <- MCOptions
    StartDays = {1}
    MaxOrders = 2
    MaxPreviews = 1
    MaxJobs = 1
    MaxEdits = 3
    MaxRevision = 6
SPECIFICATION Spec
CHECK_DEADLOCK FALSE
INVARIANTS
    TypeOK
    AllocationsMatchOrders
PROPERTIES
    OverbookedByForceOnly
    ExecutedAsShown
    MovedByChoiceOnly
    ImplementsOrderBook
