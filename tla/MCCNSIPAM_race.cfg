SPECIFICATION Spec
CONSTANTS
    nc1 = nc1
    a1 = a1
    a2 = a2
    NoPod = NoPod
    IPs = {a1}
    NCs = {nc1}
    Pods = {p1, p2}
    Threads = {t1, t2}
    NCOf <- OneNC
    Family <- V4Only
    DesiredSets <- OneDesired
    MaxVersion = 0
    SerialPerPod = FALSE
    WritesMayFail = TRUE
    HostIfaceMayFail = TRUE
    EmptyNCs = TRUE
SYMMETRY Symmetry
INVARIANTS
    TypeOK
    IndexSound
PROPERTIES
    IPLifecycle
