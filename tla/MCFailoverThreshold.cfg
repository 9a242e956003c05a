SPECIFICATION Spec
CONSTANTS
    Alias = {1}
    Id = {1}
    MaxWeight = 1
    Point <- MCPoint
    HostPort <- MCHostPort
    Conf <- ConfOne
    Workers = {w1}
    Keys = {2}
    failover_threshold = 2
    st_limit = 4
    async_size = 1
    FdLimit = 1
    MayFail = {1}
    MaxContFail = 3
    MaxSwaps = 0
INVARIANTS
    OfflineOnlyAboveThreshold
