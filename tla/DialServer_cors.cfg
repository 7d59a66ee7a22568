SPECIFICATION Spec
CONSTANTS
    Threads = {t1, t2}
    Kind <- MCKind
    Origins = {"https://tv.good.example", "https://evil.example"}
    Exempt = "exempt"
    Lists <- LongList
    Requests <- HandledRequests
    Nobody = nobody
    MaxRequests = 3
    MaxRegistrations = 2
INVARIANT
    CorsListHonoured
CHECK_DEADLOCK FALSE
