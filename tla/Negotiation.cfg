SPECIFICATION NegFairSpec
CONSTANTS
    HostConns = {1, 3, 5}
    PageConns = {2, 4, 6}
    Cargo <- Signals
    MaxQueue = 0
    MaxSession = 5
    MaxTrouble = 1
INVARIANTS NegTypeOK FewRebuilds
PROPERTIES SettledStays PictureReturns
CHECK_DEADLOCK FALSE
