CONSTANTS
    POLL_INTERVAL_MIN = 1
    POLL_INTERVAL_MAX = 2
    UPDATE_MIN = 3
    MAX_PPM = 1
    PeerPolls <- SomePolls
    NoFile = NoFile
    LongAgo = 4
SPECIFICATION LiveSpec
INVARIANTS TypeOK FilterFollows
PROPERTY ReachesSync
