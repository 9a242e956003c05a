SPECIFICATION Spec
CONSTANTS
    Workers = {w1, w2}
    Keys = {k1}
    SyncKeys = {}
    Backups = {b1}
    Owner <- OneOwner
    async_size = 4
    TornSize = FALSE
    MayFail = FALSE
    MaxWrites <- Writes
INVARIANTS
    BackupConverges
