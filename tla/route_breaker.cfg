SPECIFICATION Spec
CONSTANTS
    b1 = b1
    b2 = b2
    Reqs = {r1, r2}
    Backends <- TwoBackends
    BadURLs = {b2}
    BreakerConfig <- MCConfig
    HasBreaker = TRUE
    ClientsCancel = FALSE
    ClientsUpgrade = TRUE
    RollingWindow = 1
    MaxFlips = 1
    MaxTime = 2
    MaxObservations = 4
SYMMETRY Symmetry
INVARIANT NoStuckHalfOpen
INVARIANT InflightExact
PROPERTY BreakersRefined
