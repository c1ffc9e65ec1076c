CONSTANTS
    Task = {k1, k2, k3}
    Client = {c1, c2}
    Worker = {w1}
    NoTask = NoTask
    Functions = {"plain", "announces"}
SPECIFICATION FairSpec
PROPERTIES
    EveryCallerAnswered
    EveryTaskDone
CHECK_DEADLOCK FALSE
