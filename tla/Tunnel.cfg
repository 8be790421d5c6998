SPECIFICATION FairSpec
CONSTANTS
    MaxFaults = 1
    RequestLen = 1
    ReplyLen = 2
    Buffer = 1
INVARIANTS
    KilledForGood
    IdentityStable
    ReplyComplete
PROPERTIES
    SidecarComesBack
    TunnelTornDown
CHECK_DEADLOCK FALSE
