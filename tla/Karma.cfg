SPECIFICATION FairSpec
CONSTANTS
    Nodes = {n1, n2}
    Peers = {p1}
    MaxTotal = 1
    MaxRecorded = 3
    MaxStops = 1
    MaxSaves = 1
    MaxInbox = 1
    Base = 100
    Earned <- MCEarned
    Unknown = Unknown
    Live = Live
    Unreadable = Unreadable
INVARIANTS
    TypeOK
    KarmaBacked
PROPERTY
    KarmaConverges
CHECK_DEADLOCK FALSE
