CONSTANTS
    Modes = {"game", "desk"}
    Deltas = {2}
    MaxDelta = 1
    MaxEvents = 2
    MaxPress = 1
    MaxRelease = 1
    MaxSession = 2
    NetCap = 1
    PipeCap = 1
SPECIFICATION FairSpec
INVARIANTS
    TypeOK
    MotionConserved
    NoPhantomMotion
PROPERTIES
    MotionArrives
    PressesArrive
CHECK_DEADLOCK FALSE
