SPECIFICATION MFairSpec
CONSTANTS
    Comms <- ThreeComms
    Batches <- AllBatches
    U32 = 1073741824
    MaxCalls = 2
    MaxDeploys = 2
    MaxFaults = 2
    Tables = {"nat", "filter"}
    MaxErrors = 1
INVARIANTS
    MTypeOK
    RulesFound
    AttachSound
PROPERTIES
    EventuallyAttached
    EveryBlockReported
