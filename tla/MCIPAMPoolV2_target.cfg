SPECIFICATION V2FairSpec
CONSTANTS
    MaxPods = 5
    Scalers <- SetScalers
    StartRequest = 2
    MaxChanges = 2
    MaxFaults = 2
    DefaultMaxIPs = 8
INVARIANTS
    V2TypeOK
    TargetIsLeast
    ListedArePending
PROPERTIES
    PoolReachesTarget
