SPECIFICATION Spec
CONSTANTS
    Iss <- Numbers
    Plans <- Connections
INVARIANTS
    TypeOK
    Streams
    AcksAreTrue
    Timed
    EndIsEnd
CHECK_DEADLOCK FALSE
