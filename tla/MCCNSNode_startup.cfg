SPECIFICATION NodeSpec
CONSTANTS
    nc1 = nc1
    a1 = a1
    a2 = a2
    NoPod = NoPod
    IPs = {a1, a2}
    NCs = {nc1}
    Pods = {p1, p2}
    Threads = {t1}
    NCOf <- OneNC
    Family <- V4Only
    DesiredSets <- NoneDesired
    MaxVersion = 1
    MaxRestarts = 1
    SerialPerPod = TRUE
    WritesMayFail = FALSE
    HostIfaceMayFail = FALSE
    EmptyNCs = FALSE
PROPERTIES
    EventuallyServing
