CONSTANTS
    Kind = "recursive"
    MINUTE = 4
    EVENT = 4
    CHECK = 10
SPECIFICATION Spec
INVARIANT TypeOK
PROPERTY PendingStable
