SPECIFICATION FairSpec
CONSTANTS
    r1 = r1
    r2 = r2
    r3 = r3
    r4 = r4
    rover = rover
    gateway = gateway
    sensor = sensor
    None = None
    Requests <- Requests3
    Devices = {rover}
    VpnDevices = {rover}
    Operations = {"claim", "reissue", "revoke", "view"}
    World = {"join", "leave", "ttl", "typo"}
    Hostnames = {{rover}}
    FaultKinds = {"error", "lostAck", "db", "commit", "crash"}
    MaxFaults = 1
PROPERTIES
    HandlersFinish
    HandlersAdvance
INVARIANTS
    SomebodyMoves
