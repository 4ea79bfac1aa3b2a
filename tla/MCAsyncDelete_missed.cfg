SPECIFICATION AFairSpec
CONSTANTS
    Containers = {c1, c2}
    MaxRestarts = 2
    MaxFaults = 3
CHECK_DEADLOCK FALSE
INVARIANTS
    ATypeOK
    NoLostDelete
PROPERTIES
    ScannedReleased
