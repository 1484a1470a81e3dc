SPECIFICATION TokenSpec
CONSTANTS
    Reqs = {r1, r2, r3}
    Keys = {k1, k2}
    Rate = 2
    Burst = 2
    Second = 5
    MaxTime = 5
SYMMETRY Symmetry
INVARIANT TokenRateBound
PROPERTY TokenRejectionsJustified
PROPERTY TokenRetryHonest
