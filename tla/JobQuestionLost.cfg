SPECIFICATION Spec
CONSTANTS
    j1 = j1
    j2 = j2
    Jobs = {j1}
    MaxTasks = 2
    MaxRetries = 1
    MaxFaults = 0
INVARIANT
    PausedHasQuestion
CHECK_DEADLOCK FALSE
