CONSTANTS
    MaxSession = 2
    MaxConn = 2
SPECIFICATION FairSpec
INVARIANTS
    TypeOK
    SingleLive
    NoOrphan
PROPERTIES
    HolderKept
    InputKept
    ImplementsFeed
    SessionEnds
CHECK_DEADLOCK FALSE
