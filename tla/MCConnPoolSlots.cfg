SPECIFICATION Spec
CONSTANTS
    Threads = {t1, t2}
    Backends = {1, 2}
    Ip <- OneIp
    MaxFd = 2
    MaxReq <- Requests
    MaxConn = 1
INVARIANTS
    TypeOK
    PooledIsOwn
    OneCause
CHECK_DEADLOCK FALSE
