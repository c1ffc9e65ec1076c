CONSTANTS
    Blueprint = {b1, b2}
    Thread = {t1, t2}
    NoBlue = NoBlue
    NoThread = NoThread
    UserOps = {"create", "update", "get", "delete", "force", "protect"}
    CodeOps = {"createChild", "deleteChild", "callChild", "save", "fail"}
    CanRestart = TRUE
SPECIFICATION Spec
SYMMETRY Symmetry
INVARIANTS
    TypeOK
    LockDiscipline
    
CHECK_DEADLOCK FALSE
