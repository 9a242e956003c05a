SPECIFICATION Spec
CONSTANTS
    Workers = {w1, w2}
    Keys = {k1, k2}
    SyncKeys = {k2}
    Backups = {b1}
    Owner <- OneOwner
    async_size = 1
    TornSize = TRUE
    MayFail = TRUE
    MaxWrites <- Writes
INVARIANTS
    TypeOK
    BackupInOrder
    QueueBounded
PROPERTIES
    ImplementsReplication
    QueueDrains
