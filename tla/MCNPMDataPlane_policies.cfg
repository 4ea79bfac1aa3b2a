SPECIFICATION DFairSpec
CONSTANTS
    own1 = own1
    own2 = own2
    shared = shared
    cidr1 = cidr1
    cidr2 = cidr2
    pol1 = pol1
    pol2 = pol2
    HashSets <- ThreeSets
    ListSets <- NoLists
    IPs <- TwoBlocks
    PodKeys <- NoPods
    References <- TwoPolicies
    Modes = {"all"}
    DeleteOptions <- Soft
    MaxTry = 2
    MaxFailures = 3
    MaxFaults = 3
    BreaksMidway = TRUE
    Policies <- TwoPolicies
    SetsOf <- PolicySets
    Blocks <- SetBlocks
    Workloads <- WithAndWithoutPods
INVARIANT DTypeOK
INVARIANT RulesHaveSets
PROPERTY QueuedGetsIn
