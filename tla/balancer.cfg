SPECIFICATION Spec
CONSTANTS
    b1 = b1
    b2 = b2
    b3 = b3
    c1 = c1
    c2 = c2
    Reqs = {r1, r2}
    Clients = {c1, c2}
    Ports = {1, 2}
    Forwarded = {c1}
    Backends <- ThreeBackends
    Algorithms = {"round_robin", "least_conn", "ip_hash"}
    Hash <- MCHash
    Standing = 1
    Modulus = 16
SYMMETRY Symmetry
INVARIANT TurnTaking
INVARIANT LeastUpToDrift
PROPERTY FailsOnlyIfNoneStayed
PROPERTY StickyForwarded
