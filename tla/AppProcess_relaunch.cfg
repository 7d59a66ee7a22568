CONSTANTS
    p1 = p1
    p2 = p2
    p3 = p3
    Pids <- TwoPids
    NoPid = NoPid
    Everyone = Everyone
    ProcOpens = TRUE
    MaxCalls = 2
    MaxUserStarts = 0
SPECIFICATION Spec
INVARIANT OnlyOneNetflix
