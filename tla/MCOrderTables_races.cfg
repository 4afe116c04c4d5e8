CONSTANTS
    Capacity <- MCCapacity
    MinQuantity = 2
    MaxQuantity = 6
    Today = 0
    Requests = {r1, r2}
    Claims <- MCClaims
    Wants <- MCWants
    Drafts <- MCDrafts
    Changes <- MCChanges
    Options <- MCOptions
    Amounts = {2, 4}
    MaxOrders = 2
    MaxPreviews = 2
    MaxRevision = 5
SPECIFICATION Spec
SYMMETRY Symmetric
CHECK_DEADLOCK FALSE
PROPERTIES
    OrdersMoveLegally
