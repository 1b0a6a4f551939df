SPECIFICATION Spec
CONSTANTS
    r1 = r1
    r2 = r2
    r3 = r3
    r4 = r4
    rover = rover
    gateway = gateway
    sensor = sensor
    None = None
    Requests <- Requests2
    Devices = {rover}
    VpnDevices = {rover}
    Operations = {"claim", "revoke"}
    World = {"join"}
    Hostnames = {{rover}}
    FaultKinds = {}
    MaxFaults = 0
INVARIANTS
    RevokedOffline
