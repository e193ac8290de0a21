CONSTANTS
    Modes = {"desk"}
    Deltas = {1}
    MaxDelta = 1
    MaxEvents = 2
    MaxPress = 1
    MaxRelease = 0
    MaxSession = 1
    NetCap = 2
    PipeCap = 1
SPECIFICATION Spec
PROPERTIES
    CursorNeverYankedBack
CHECK_DEADLOCK FALSE
