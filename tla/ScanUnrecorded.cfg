\* A delivery that fails after a revocation.
SPECIFICATION Spec
CONSTANTS
    c1 = c1
    c2 = c2
    a1 = a1
    a2 = a2
    None = None
    ChainIds <- MCChainIds
    Approvals <- MCApprovals
    ChainOf <- MCChainOf
    Dangerous = {a1}
    Settings <- LoopSettings
    MaxSteps = 2
    GraphLimit = 3
    MaxRetries = 1
    MaxFaults = 1
INVARIANT
    AttemptsAreRecorded
CHECK_DEADLOCK FALSE
