SPECIFICATION Spec
CONSTANTS
    p1 = p1
    Proc = {p1}
    Sizes <- One
    Nops = 1
    HoldOff = 1
    R = 1
    T = 2
    K = 1
    CharMax = 1
    BuffersFail = {}
    LineFails = TRUE
    MaxFaults = 2
    MaxLost = 1
    MaxLine = 2
INVARIANTS
    AckedIsTaken
    Attended
PROPERTIES
    IsLink
CHECK_DEADLOCK FALSE
