\* Every small request, planned to the end.
SPECIFICATION FairSpec
CONSTANTS
    Requests <- MCRequests
CHECK_DEADLOCK FALSE
INVARIANTS
    TypeOK
    CapacityRespected
    LedgerIsExact
    NoCapacityWasted
    NoOvertaking
    DueDates
    OnePiecePerDay
    ForceIsReported
    QuantityKept
    EarliestFinishIsExact
PROPERTIES
    Terminates
    ImplementsPlan
