SPECIFICATION Spec
CONSTANTS
    Streams <- OneHostStreams
    Hosts = {1, 2, 3}
    Owner <- KeyHosts
    Backup <- KeyBackups
    SyncKeys = {1, 2, 5}
    Miss = {3}
    Dead = {2}
INVARIANTS
    TypeOK
    ResponsesRight
    TornAtTheEnd
    BlameRight
PROPERTIES
    AllAnswered
