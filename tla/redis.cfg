SPECIFICATION Spec
CONSTANTS
    r1 = r1
    r2 = r2
    Reqs = {r1, r2}
    Skew <- MCSkew
    Rates = {0, 1, 2}
    Window = 4
    Second = 4
    Timeout = 1
    MaxLate = 1
    MaxPassed = 4
    MaxTime = 7
INVARIANT MillisecondBound
INVARIANT KeysExpire
PROPERTY RetryHonest
