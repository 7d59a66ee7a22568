SPECIFICATION FairSpec
CONSTANTS
    Threads = {t1, t2}
    Kind <- MCKind
    Origins = {"https://tv.good.example", "https://evil.example"}
    Exempt = "exempt"
    Lists <- TwoLists
    Requests <- AllRequests
    Nobody = nobody
    MaxRequests = 2
    MaxRegistrations = 2
INVARIANTS
    TypeOK
    LockDiscipline
    LaunchWasAdmitted
    DataSaved
PROPERTIES
    NeverDeniesRunningApp
    EveryRequestAnswered
CHECK_DEADLOCK FALSE
