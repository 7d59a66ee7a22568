CONSTANTS
    p1 = p1
    p2 = p2
    p3 = p3
    Pids <- TwoPids
    NoPid = NoPid
    Everyone = Everyone
    ProcOpens = FALSE
    MaxCalls = 3
    MaxUserStarts = 2
SPECIFICATION FairSpec
INVARIANT SearchComplete
INVARIANT SignalHitsItsTarget
INVARIANT StopIsFinal
PROPERTY NeverBesideRunning
PROPERTY EveryCallbackReturns
