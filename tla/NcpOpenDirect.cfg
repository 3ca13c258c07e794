SPECIFICATION Spec
CONSTANTS
    Id <- TwoIds
    User <- OneUser
    FILSIZE = 2
    NSkt = 4
    NFile = 2
    Group <- OneGroup
    NHosts = 1
    Opens <- DirectOpens
    Rfcs <- DirectRfcs
    SktNums <- LoggerNums
    Timed = TRUE
    MaxQueued = 1
INVARIANTS
    TypeOK
    SlotsAccounted
    TablesAgree
    NeverDies
