CONSTANTS
    Blueprint = {b1, b2}
    Vm = {v1}
    Net = {n1}
    Named = {v1}
    Vmid = {1, 2}
    Worker = {w1, w2}
    MaxCalls = 4
    MaxFaults = 1
    MaxStops = 1
SPECIFICATION Spec
INVARIANTS
    
    MachinesKnown
    
PROPERTIES
    DeletionsEnd
CHECK_DEADLOCK FALSE
