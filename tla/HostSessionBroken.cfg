CONSTANTS
    MaxSession = 1
    MaxConn = 1
SPECIFICATION FairSpec
PROPERTIES
    BrokenStreamEnds
CHECK_DEADLOCK FALSE
