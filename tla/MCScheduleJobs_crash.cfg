\* One job, retries, and a crash of the API replica or of a worker.
SPECIFICATION FairSpec
CONSTANTS
    Lines = {l1}
    Previews = {p1}
    Jobs = {j1}
    Apis = {a1}
    MessageLoops = {m1}
    BackfillLoops = {b1}
    MaxRetries = 2
    MaxRevision = 0
    MaxCrashes = 1
CHECK_DEADLOCK FALSE
INVARIANTS
    TypeOK
    AttemptsBounded
    CompletedIffApplied
PROPERTIES
    QueuedEventuallySettles
