SPECIFICATION Spec
CONSTANTS
    Id <- OneId
    User <- OneUser
    FILSIZE = 2
    NSkt = 4
    NFile = 1
    Group <- OneGroup
    NHosts = 1
    Opens <- IcpOpens
    Rfcs <- IcpRfcs
    SktNums <- LoggerNums
    Timed = TRUE
    MaxQueued = 1
INVARIANTS
    TablesAgree
    NeverDies
    NoWildPointer
    GroupsOwned
