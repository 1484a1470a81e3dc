SPECIFICATION FairSpec
CONSTANTS
    MaxSaves = 4
    Refused = {2}
    ProxyReqs = {r1, r2}
    AdminReqs = {a1, a2}
    Grace = 4
    AdminTimeout = 2
INVARIANT DrainedOrExpired
PROPERTY SignalStops
PROPERTY AppliedUnlessDropped
CHECK_DEADLOCK FALSE
