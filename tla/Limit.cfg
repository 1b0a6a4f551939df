SPECIFICATION FairSpec
CONSTANTS
    Workers = {w1, w2}
    Devices = {rover, sensor}
    Tenant = Tenant
    None = None
    DeviceLimit = 2
    TenantLimit = 3
    Window = 2
    FaultKinds = {"redis", "lostAck", "db", "crash"}
    MaxFaults = 1
    BodySymbols = {"I", "V"}
    BodyLength = 1
    Keyboard = {"V", "v", "I", "i", "1", "-", "space"}
    MaxTyped = 6
INVARIANTS
    OvershootBounded
    CodesReadBack
PROPERTIES
    SuccessNeverThrottled
    Unblocked
