\* The process ends with exit(), and blocks when all workers are lost.
CHECK_DEADLOCK FALSE
SPECIFICATION Spec
CONSTANTS
    MaxThreads = 2
    Fds = {1, 2, 3}
    PipeSize = 2
    MayRunOut = TRUE
    MaxAccepts = 4
INVARIANTS
    TypeOK
    OneOwner
    ListsLinked
    NothingAfterExit
    ConnCountOneThread
PROPERTIES
    ConnectionServed
    QuitEnds
