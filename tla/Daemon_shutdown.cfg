CONSTANTS
    Kind = "normal"
    Names = {a}
    Ppms = {p0, p1}
    Zero = p0
    MAX_PEERS = 1
    MaxServers = 1
    MaxStarts = 1
SPECIFICATION LiveSpec
PROPERTY GracefulShutdown
