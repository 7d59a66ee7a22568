SPECIFICATION FairSpec
CONSTANTS
    c1 = c1
    c2 = c2
    Controllers = {c1, c2}
    Net <- MCNet
    CommandLines <- MCCommandLines
    Defaults <- MCDefaults
    Hosts <- MCHosts
    MaxSearches = 1
    MaxErrors = 1
    MaxMoves = 1
    MaxInbox = 2
INVARIANTS
    ServedAsConfigured
    LaunchAfterDiscovery
    NoUnsolicitedReply
PROPERTIES
    SearchesAnswered
CHECK_DEADLOCK FALSE
