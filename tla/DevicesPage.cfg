SPECIFICATION Spec
CONSTANTS
    a = a
    b = b
    Devices = {a, b}
    Own = {a}
    None = None
    MaxActions = 4
INVARIANTS ListingFresh PanelMatches
CHECK_DEADLOCK FALSE
