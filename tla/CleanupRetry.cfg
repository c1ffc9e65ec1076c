CONSTANTS
    b1 = b1
    b2 = b2
    b3 = b3
    c1 = c1
    c2 = c2
    Worker = {w1}
    Blueprint = {b1, b2, b3}
    Cluster = {c1}
    ClusterOf <- OneCluster
    PoolRequest <- ShiftedPools
    MaxLength = 1
    MaxRanges = 1
    MaxIps = 1
    Hazard = {"cleanup_fails"}
SPECIFICATION Spec
SYMMETRY Symmetry
INVARIANTS
    NoAddressShared
