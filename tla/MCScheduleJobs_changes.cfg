\* One preview, used by two replicas while the line's orders change.
SPECIFICATION Spec
CONSTANTS
    Lines = {l1}
    Previews = {p1}
    Jobs = {j1}
    Apis = {a1, a2}
    MessageLoops = {m1}
    BackfillLoops = {}
    MaxRetries = 1
    MaxRevision = 2
    MaxCrashes = 0
SYMMETRY Symmetry
CHECK_DEADLOCK FALSE
INVARIANTS
    AppliedOnItsBasis
