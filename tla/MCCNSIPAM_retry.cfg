SPECIFICATION Spec
CONSTANTS
    nc1 = nc1
    a1 = a1
    a2 = a2
    NoPod = NoPod
    IPs = {a1, a2}
    NCs = {nc1}
    Pods = {p1, p2}
    Threads = {t1}
    NCOf <- OneNC
    Family <- V4Only
    DesiredSets <- OneDesired
    MaxVersion = 0
    SerialPerPod = TRUE
    WritesMayFail = TRUE
    HostIfaceMayFail = FALSE
    EmptyNCs = FALSE
SYMMETRY Symmetry
INVARIANTS
    GrantedRecoverable
