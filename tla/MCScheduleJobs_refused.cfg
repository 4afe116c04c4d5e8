\* One job whose publication may fail; a message loop and a backfill loop.
SPECIFICATION Spec
CONSTANTS
    Lines = {l1}
    Previews = {p1}
    Jobs = {j1}
    Apis = {a1}
    MessageLoops = {m1}
    BackfillLoops = {b1}
    MaxRetries = 2
    MaxRevision = 0
    MaxCrashes = 0
CHECK_DEADLOCK FALSE
INVARIANTS
    RefusedIsNotCarriedOut
