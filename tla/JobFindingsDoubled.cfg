SPECIFICATION Spec
CONSTANTS
    j1 = j1
    j2 = j2
    Jobs = {j1}
    MaxTasks = 2
    MaxRetries = 1
    MaxFaults = 1
INVARIANT
    FindingsReplaced
CHECK_DEADLOCK FALSE
