SPECIFICATION FairSpec
CONSTANTS
    NHosts = 2
    Known <- MCKnown
    PerMsg = 2
    XRetries = 1
    TimoHosts = 1
    MaxCmd = 3
    MaxEpoch = 1
INVARIANTS
    TypeOK
    OneOutstanding
    SentIsHead
    InOrder
    NoneStranded
PROPERTIES
    EventuallyOut
    ResetsComplete
CHECK_DEADLOCK FALSE
