SPECIFICATION NSpec
CONSTANTS
    h1 = h1
    l1 = l1
    l2 = l2
    ip1 = ip1
    pod1 = pod1
    pod2 = pod2
    pol1 = pol1
    HashSets <- OneHash
    ListSets <- TwoLists
    IPs <- OneIP
    PodKeys <- TwoPods
    References <- OnePolicy
    Modes = {"all", "need"}
    DeleteOptions <- Soft
    MaxTry = 2
    MaxFailures = 2
    MaxFaults = 2
    BreaksMidway = FALSE
SYMMETRY Symmetry
INVARIANT NTypeOK
INVARIANT DirtyRight
INVARIANT CountsExact
INVARIANT KernelInSync
