SPECIFICATION Spec
CONSTANTS
    r1 = r1
    r2 = r2
    r3 = r3
    r4 = r4
    rover = rover
    gateway = gateway
    sensor = sensor
    None = None
    Requests <- Requests3
    Devices = {rover, gateway, sensor}
    VpnDevices = {rover, gateway}
    Operations = {"claim", "reissue", "revoke", "view"}
    World = {"join", "leave", "rename", "ttl", "typo"}
    Hostnames = {{}, {rover}, {gateway}, {rover, gateway}}
    FaultKinds = {"error", "db"}
    MaxFaults = 1
SYMMETRY Symmetric3
INVARIANTS
    NodeAttribution
    FailureCompensated
