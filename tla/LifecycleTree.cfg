CONSTANTS
    Blueprint = {b1, b2, b3}
    Thread = {t1, t2}
    NoBlue = NoBlue
    NoThread = NoThread
    UserOps = {"create", "update", "delete", "deleteAll"}
    CodeOps = {"createChild", "deleteChild", "fail"}
    CanRestart = FALSE
SPECIFICATION Spec
SYMMETRY Symmetry
INVARIANTS
    
    NoOrphans
    Settled
    ChildrenRecorded
PROPERTIES
    ImplementsForest
CHECK_DEADLOCK FALSE
