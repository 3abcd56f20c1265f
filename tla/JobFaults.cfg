\* One fault of any kind at any point, and the reaper against it.
SPECIFICATION FairSpec
CONSTANTS
    j1 = j1
    j2 = j2
    Jobs = {j1}
    MaxTasks = 2
    MaxRetries = 1
    MaxFaults = 1
INVARIANTS
    TypeOK
    RowsConsistent
    CompletedHasFindings
    ExecutionsBounded
    JobInv
PROPERTIES
    FreshStepsKeepContract
    EventuallySettled
CHECK_DEADLOCK FALSE
