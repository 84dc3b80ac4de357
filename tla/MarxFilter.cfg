CONSTANTS
    MAX_SAMPLES = 7
    Delays = {1, 2, 4, 9, 30}
    K = 3
    TimeMayFail = TRUE
SPECIFICATION MarxSpec
INVARIANTS FilterLeavesSample NoStaleSample SurvivorsPass
