SPECIFICATION Spec
CONSTANTS
    Workers = {w1}
    Keys = {k1, k2}
    SyncKeys = {}
    Backups = {b1, b2}
    Owner <- TwoOwners
    async_size = 4
    TornSize = FALSE
    MayFail = TRUE
    MaxWrites <- Writes
INVARIANTS
    OwnKeysOnly
