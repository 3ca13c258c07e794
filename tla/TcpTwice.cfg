SPECIFICATION Spec
CONSTANTS
    Iss <- Numbers
    Plans <- ThreeAtOnce
INVARIANTS
    Streams
CHECK_DEADLOCK FALSE
