SPECIFICATION SFairSpec
CONSTANTS
    p1 = p1
    p2 = p2
    p3 = p3
    NoProc = NoProc
    Procs = {p1, p2, p3}
    Daemons = {}
    Keys = {"e1", "e2"}
    Adds <- ThreeAdds
    Dels <- ThreeDels
    MaxFaults = 2
CHECK_DEADLOCK FALSE
INVARIANTS
    STypeOK
    Exclusive
    FileIsSerial
PROPERTIES
    GivenUpIsFreed
