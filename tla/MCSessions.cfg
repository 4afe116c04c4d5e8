CONSTANTS
    Usernames = {"boss", "ann"}
    Grants <- MCGrants
    Boss = "boss"
    BossGrant <- Admin
    Requests = {r1, r2}
    TTL = 2
    MaxTime = 2
    LastChange = 0
    Managed = {"ann"}
    Pauses = {"idle", "password"}
    MaxTokens = 2
    MaxOrphans = 1
    Delayed = {"ann"}
SPECIFICATION Spec
CHECK_DEADLOCK FALSE
INVARIANTS
    LogoutEndsSession
    ClaimsAreRecent
PROPERTIES
    EveryWaitEnds
