CONSTANTS
    Kind = "normal"
    NServers = 2
    ErrnoAtLoop = {TRUE}
    Ids = {i1, i2, i3}
    NoId = NoId
    Bodies <- FineBodies
    MAXDIST = 2
    NS_PER_US = 2
    RetryUnits = 3
    SleepUnits = 2
    MaxQueue = 2
    MaxDup = 0
    Faulty = FALSE
SPECIFICATION LiveSpec
PROPERTY RequestsGoOut
