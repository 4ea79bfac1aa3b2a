SPECIFICATION MonitorFairSpec
CONSTANTS
    MaxPods = 5
    Scalers <- SetScalers
    StartRequest = 2
    MaxChanges = 2
    MaxFaults = 2
    OptMaxIPs = 6
    Attempts = 2
INVARIANTS
    PoolTypeOK
PROPERTIES
    PoolSettles
