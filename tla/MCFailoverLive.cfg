SPECIFICATION Spec
CONSTANTS
    Alias = {1}
    Id = {1}
    MaxWeight = 1
    Point <- MCPoint
    HostPort <- MCHostPort
    Conf <- ConfOne
    Workers = {w1}
    Keys = {2}
    failover_threshold = 1
    st_limit = 2
    async_size = 1
    FdLimit = 2
    MayFail = {1}
    MaxContFail = 2
    MaxSwaps = 0
INVARIANTS
    FailCountBounded
PROPERTIES
    FailingHostTakenOut
    RecoveredHostReturns
