SPECIFICATION FairSpec
CONSTANTS
    p1 = p1
    Proc = {p1}
    Sizes <- TwoOne
    Nops = 0
    HoldOff = 1
    R = 1
    T = 1
    K = 1
    CharMax = 2
    BuffersFail = {"imp"}
    LineFails = FALSE
    MaxFaults = 0
    MaxLost = 0
    MaxLine = 1
INVARIANTS
    AckedIsTaken
    TypeOK
PROPERTIES
    IsLink
    Delivers
CHECK_DEADLOCK FALSE
