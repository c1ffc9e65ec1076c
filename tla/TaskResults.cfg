CONSTANTS
    Task = {k1, k2, k3}
    Client = {c1, c2}
    Worker = {w1, w2}
    NoTask = NoTask
    Functions = {"plain", "announces", "silent"}
SPECIFICATION Spec
SYMMETRY Symmetry
INVARIANTS
    TypeOK
    RunOnce
    AnswerIsResult
    FailedFails
PROPERTIES
    StatusAdvances
CHECK_DEADLOCK FALSE
