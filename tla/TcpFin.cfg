SPECIFICATION Spec
CONSTANTS
    Iss <- Numbers
    Plans <- OneAndClose
INVARIANTS
    FinIsLast
CHECK_DEADLOCK FALSE
