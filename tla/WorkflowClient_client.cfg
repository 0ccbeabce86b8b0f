CONSTANTS
    Clients = {c1, c2}
    MaxRuns = 3
    MaxUpdates = 1
    MaxCalls = 3
SPECIFICATION FairSpec
INVARIANTS FollowsChain
PROPERTIES ResultEnds
CHECK_DEADLOCK FALSE
