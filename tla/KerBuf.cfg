SPECIFICATION FairSpec
CONSTANTS
    d = d
    p1 = p1
    p2 = p2
    Proc <- MCProc
    Daemon = d
    KbHiwat = 3
    NetPerKb = 2
    Hyster = 2
INVARIANTS
    TypeOK
    Conservation
    CountersAgree
    HoleForEverySleeper
    NoSleeperWhileFree
PROPERTIES
    SleeperWoken
