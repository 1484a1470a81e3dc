SPECIFICATION Spec
CONSTANTS
    Reqs = {r1, r2, r3}
    Keys = {k1, k2}
    Rates = {0, 1, 2}
    Window = 2
    Second = 2
    MaxTime = 5
SYMMETRY Symmetry
INVARIANT OneBucketPerKey
INVARIANT RateBound
PROPERTY RejectionsJustified
PROPERTY RetryHonest
