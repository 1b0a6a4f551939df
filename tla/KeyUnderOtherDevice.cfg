SPECIFICATION Spec
CONSTANTS
    a = a
    b = b
    Devices = {a, b}
    Own = {a, b}
    None = None
    MaxActions = 3
INVARIANT KeyForDevice
CHECK_DEADLOCK FALSE
