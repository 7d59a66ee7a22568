SPECIFICATION Spec
CONSTANTS
    Words = {"a", "b", "c", "x", "y"}
    Posts <- MCPosts
    MaxPosts = 2
    MaxRestarts = 2
INVARIANTS
    TypeOK
    AckedSurvives
    DamageIsOnePair
CHECK_DEADLOCK FALSE
