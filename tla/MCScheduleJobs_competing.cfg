\* Two previews of one line, two jobs.
SPECIFICATION Spec
CONSTANTS
    Lines = {l1}
    Previews = {p1, p2}
    Jobs = {j1, j2}
    Apis = {a1}
    MessageLoops = {m1}
    BackfillLoops = {}
    MaxRetries = 1
    MaxRevision = 0
    MaxCrashes = 0
SYMMETRY Symmetry
CHECK_DEADLOCK FALSE
INVARIANTS
    OneApplicationPerRevision
