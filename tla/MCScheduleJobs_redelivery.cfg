\* Two jobs for one preview; a message loop and a backfill loop.
SPECIFICATION Spec
CONSTANTS
    Lines = {l1}
    Previews = {p1}
    Jobs = {j1, j2}
    Apis = {a1}
    MessageLoops = {m1}
    BackfillLoops = {b1}
    MaxRetries = 0
    MaxRevision = 0
    MaxCrashes = 0
SYMMETRY Symmetry
CHECK_DEADLOCK FALSE
INVARIANTS
    AppliedAtMostOnce
    CompletedIffApplied
    ValidatedStaysCurrent
PROPERTIES
    SettledStaysSettled
    ReleaseOnlyOwnLock
