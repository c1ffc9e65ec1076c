CONSTANTS
    b1 = b1
    b2 = b2
    b3 = b3
    c1 = c1
    c2 = c2
    Worker = {w1, w2}
    Blueprint = {b1, b2}
    Cluster = {c1, c2}
    ClusterOf <- OneCluster
    PoolRequest <- GapPools
    MaxLength = 2
    MaxRanges = 2
    MaxIps = 1
    Hazard = {"assign_race", "cleanup_fails", "used_range", "wrong_cluster", "release_one"}
SPECIFICATION Spec
SYMMETRY Symmetry
INVARIANTS
    UsedIsHeld
    RangesDisjoint
    RangesListed
