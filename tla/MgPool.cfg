SPECIFICATION FairSpec
CONSTANTS
    Workers = {w1, w2}
    Conns = {c1, c2}
    QSize = 1
    Master = master
    Nobody = nobody
    NoSock = nosock
    AcceptTimesOut = TRUE
    ThreadsMayFail = TRUE
    MaxSpurious = 1
INVARIANTS
    TypeOK
    NoUseAfterFree
    ThreadCount
    NobodySleepsForNothing
PROPERTIES
    PipelineSpec
    ServedUnlessStopped
    BusyWorkersExit
CHECK_DEADLOCK FALSE
