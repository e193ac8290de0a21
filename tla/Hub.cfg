SPECIFICATION FairSpec
CONSTANTS
    HostConns = {1}
    PageConns = {2, 4}
    Cargo = {m1}
    MaxQueue = 2
INVARIANTS TypeOK HolderServed OneServed
PROPERTIES RoleKept RoleFreed
CHECK_DEADLOCK FALSE
