SPECIFICATION Spec
CONSTANTS
    Threads = {t1}
    Backends = {1}
    Ip <- OwnIps
    MaxFd = 1
    MaxReq <- Requests
    MaxConn = 0
INVARIANTS
    AnswersMatch
CHECK_DEADLOCK FALSE
