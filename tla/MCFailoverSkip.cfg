SPECIFICATION Spec
CONSTANTS
    Alias = {1, 2}
    Id = {1, 2}
    MaxWeight = 2
    Point <- MCPoint
    HostPort <- MCHostPort
    Conf <- ConfShared
    Workers = {w1}
    Keys = {2, 20}
    failover_threshold = 1
    st_limit = 2
    async_size = 0
    FdLimit = 1
    MayFail = {}
    MaxContFail = 1
    MaxSwaps = 2
INVARIANTS
    OfflineHostsAbsent
