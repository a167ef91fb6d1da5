\* Two tunnels, two connections, two failures.
CONSTANTS
    k1 = k1
    k2 = k2
    None = None
    Conns = {k1, k2}
    N = 2
    MaxCuts = 2
    MaxRefusals = 1
SPECIFICATION FairSpec
INVARIANTS
    TypeOK
    ServingMeansAll
    NoConnectionLeft
PROPERTIES
    ServesAgain
    CancelStops
    StoppedReleases
CHECK_DEADLOCK FALSE
