CONSTANTS
    b1 = b1
    b2 = b2
    b3 = b3
    c1 = c1
    c2 = c2
    Worker = {w1, w2}
    Blueprint = {b1, b2}
    Cluster = {c1, c2}
    ClusterOf <- OneCluster
    PoolRequest <- ShiftedPools
    MaxLength = 2
    MaxRanges = 2
    MaxIps = 3
    Hazard = {"stop", "force"}
SPECIFICATION Spec
SYMMETRY Symmetry
INVARIANTS
    TypeOK
    NoAddressShared
    HeldIsUsed
    
    NamesResolve
PROPERTIES
    RemovesTheNamed
