SPECIFICATION FairSpec
CONSTANTS
    b1 = b1
    b2 = b2
    Reqs = {r1, r2}
    Backends <- TwoBackends
    BadURLs = {}
    BreakerConfig <- MCConfig
    HasBreaker = FALSE
    ClientsCancel = TRUE
    ClientsUpgrade = TRUE
    RollingWindow = 1
    MaxFlips = 2
    MaxTime = 0
    MaxObservations = 3
PROPERTY RecoveredWhenUp
PROPERTY RemovedWhenDown
