SPECIFICATION FairSpec
CONSTANTS
    MaxSession = 2
    MaxInput = 2
INVARIANTS TypeOK NoLeftover
PROPERTIES WritersReturn KeyframeComes
CHECK_DEADLOCK FALSE
