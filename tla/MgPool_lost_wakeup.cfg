SPECIFICATION FairSpec
CONSTANTS
    Workers = {w1}
    Conns = {}
    QSize = 1
    Master = master
    Nobody = nobody
    NoSock = nosock
    AcceptTimesOut = TRUE
    ThreadsMayFail = FALSE
    MaxSpurious = 0
PROPERTY
    MgStopReturns
CHECK_DEADLOCK FALSE
