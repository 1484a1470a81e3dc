SPECIFICATION HFairSpec
CONSTANTS
    Reqs = {r1, r2, r3}
    BreakerConfig <- MCConfig
    RollingWindow = 2
    MaxTime = 5
    MaxObservations = 5
INVARIANT TypeOK
INVARIANT WindowOnlyWhenClosed
INVARIANT HalfOpenNotStuck
INVARIANT ProbeBound
PROPERTY HalfOpenResolves
PROPERTY CloseNeedsFullQuota
PROPERTY TripJustified
PROPERTY CoolDown
CHECK_DEADLOCK FALSE
