CONSTANTS
    DELTA = 8
    PANIC = 2
    FRAC = 1
    MaxClock = 5
SPECIFICATION LiveSpec
INVARIANTS TypeOK AtMostOneMore
PROPERTY StopCompletes
