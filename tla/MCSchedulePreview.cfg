\* Previews with and without a draft order.
SPECIFICATION PreviewSpec
CONSTANTS
    Draft = 9
    Requests <- MCRequests
CHECK_DEADLOCK FALSE
INVARIANTS
    DraftDisplacesNobodyAhead
    FinishDateIsKept
    PushedOrdersAreFlagged
