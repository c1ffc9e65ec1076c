CONSTANTS
    Number = {0, 1}
    MaxWorkers = 1
    MaxCalls = 3
    MaxFaults = 0
    MaxStops = 0
SPECIFICATION Spec
PROPERTIES
    RefusedStands
CHECK_DEADLOCK FALSE
