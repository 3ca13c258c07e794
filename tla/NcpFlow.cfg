SPECIFICATION FairSpec
CONSTANTS
    w1 = w1
    r1 = r1
    Writers = {w1}
    Readers = {r1}
    Interrupted = {"data"}
    NomMsg = 2
    NomBall = 1
    HiWat = 2
    MaxMsg = 2
    Word = 8
    MaxBytes = 3
    MaxCount = 2
INVARIANTS
    TypeOK
    CreditAgrees
    NeverOverrun
    OnePerLink
PROPERTIES
    IsPipe
    CatchesUp
CHECK_DEADLOCK FALSE
