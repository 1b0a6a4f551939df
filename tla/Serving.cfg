SPECIFICATION FairSpec
CONSTANTS
    r1 = r1
    r2 = r2
    r3 = r3
    a1 = a1
    b1 = b1
    a = a
    b = b
    user = user
    None = None
    Platform = Platform
    Requests = {r1, r2, r3}
    Devices = {a1, b1}
    Tenants <- Tenants3
    TenantOf <- Owner
    UserOf <- SharedUser
    PoolSize = 2
    Calls <- Menu
    FaultKinds = {"headscale", "lostAck", "db"}
    MaxFaults = 1
    MaxJoins = 2
CHECK_DEADLOCK FALSE
INVARIANTS
    HoldAndWaitFree
    NeverStuck
    OwnRows
    FailuresExplained
    ReadTells
PROPERTIES
    RequestsAnswered
