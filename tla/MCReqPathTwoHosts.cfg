SPECIFICATION Spec
CONSTANTS
    Streams <- TwoHostStreams
    Hosts = {1, 2, 3}
    Owner <- KeyHosts
    Backup <- KeyBackups
    SyncKeys = {1, 2, 5}
    Miss = {3}
    Dead = {2}
INVARIANTS
    ResponsesRight
