CONSTANTS
    W = 3
    MAX_ACL_ENTRIES = 1
    MAX_RATE_LIMIT_ENTRIES = 2
    Lines <- AllLines
    BroadcastMode = TRUE
    Clients = {0, 3, 5, 6}
    Threads = {t1, t2}
    MaxLines = 2
    MaxTime = 1
SYMMETRY Anyone
SPECIFICATION Spec
INVARIANTS TypeOK OutsidersRefused
PROPERTY LimitWithoutOverlap

