CONSTANTS
    Kind = "recursive"
    Names = {a, b}
    Ppms = {p0, p1}
    Zero = p0
    MAX_PEERS = 1
    MaxServers = 2
    MaxStarts = 2
SPECIFICATION Spec
INVARIANTS TypeOK ServersOwned PoolMatchesServers FrequencyKept
PROPERTY StoreImplemented
