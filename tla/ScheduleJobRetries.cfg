\* One job whose transaction may fail again and again.
SPECIFICATION RetriesSpec
CONSTANTS
    Lines = {l1}
    Previews = {p1}
    Jobs = {j1}
    Apis = {a1}
    MessageLoops = {m1}
    BackfillLoops = {}
    MaxRetries = 1
    MaxRevision = 0
    MaxCrashes = 0
CHECK_DEADLOCK FALSE
INVARIANTS
    RetriesBounded
