CONSTANTS
    PoolCount = 2
    PeerSock = 3
    QuitAfterSync = FALSE
SPECIFICATION LiveSpec
INVARIANTS TypeOK SendUsesOwnSocket CloseOwnSocket
PROPERTY ShutdownCompletes
