CONSTANTS
    Modes = {"game"}
    Deltas = {1}
    MaxDelta = 1
    MaxEvents = 2
    MaxPress = 1
    MaxRelease = 0
    MaxSession = 2
    NetCap = 1
    PipeCap = 1
SPECIFICATION Spec
INVARIANTS
    TotalsPerSession
CHECK_DEADLOCK FALSE
