CONSTANTS
    Blueprint = {b1, b2}
    Thread = {t1, t2}
    NoBlue = NoBlue
    NoThread = NoThread
    UserOps = {"create", "delete", "protect"}
    CodeOps = {"createChild"}
    CanRestart = FALSE
SPECIFICATION Spec
SYMMETRY Symmetry
INVARIANTS
    DeletedStaysDeleted
CHECK_DEADLOCK FALSE
