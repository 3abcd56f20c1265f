\* Two jobs; no row changes between a use case's read and its write.
SPECIFICATION FreshSpec
CONSTANTS
    j1 = j1
    j2 = j2
    Jobs = {j1, j2}
    MaxTasks = 2
    MaxRetries = 0
    MaxFaults = 0
PROPERTY
    ImplementsContract
CHECK_DEADLOCK FALSE
