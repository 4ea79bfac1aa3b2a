SPECIFICATION HSpec
CONSTANTS
    Peers <- OtherPeers
    Node <- TheNode
    Payloads <- SomePayloads
    MaxRuns = 2
    MaxPackets = 1
CHECK_DEADLOCK FALSE
INVARIANTS
    ChecksumKept
    NoDuplicates
    RoundTrip
