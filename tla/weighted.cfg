SPECIFICATION WeightedSpec
CONSTANTS
    b1 = b1
    b2 = b2
    b3 = b3
    Backends <- ThreeBackends
    Weight <- MCWeight
INVARIANT LedgerBalanced
INVARIANT SmoothShare
INVARIANT CreditsBounded
INVARIANT NotStarved
