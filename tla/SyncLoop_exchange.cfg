CONSTANTS
    Kind = "recursive"
    NServers = 2
    ErrnoAtLoop = {TRUE, FALSE}
    Ids = {i1, i2, i3}
    NoId = NoId
    Bodies <- AllBodies
    MAXDIST = 2
    NS_PER_US = 2
    RetryUnits = 3
    SleepUnits = 2
    MaxQueue = 2
    MaxDup = 1
    Faulty = TRUE
SPECIFICATION Spec
SYMMETRY IdSymmetry
INVARIANTS TypeOK CorrectionAnswersRequest CorrectionAccurate
