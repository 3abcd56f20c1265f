\* The loop and the graph, with one fault anywhere.
SPECIFICATION Spec
CONSTANTS
    c1 = c1
    c2 = c2
    a1 = a1
    a2 = a2
    None = None
    ChainIds <- MCChainIds
    Approvals <- MCApprovals
    ChainOf <- MCChainOf
    Dangerous = {a1}
    Settings <- RecurringSettings
    MaxSteps = 2
    GraphLimit = 3
    MaxRetries = 0
    MaxFaults = 1
INVARIANTS
    TypeOK
    RevokedIsCleared
    NotAttemptedIsUntouched
    DeliveryIsItsCoverage
    ScansBounded
PROPERTY
    ImplementsContract
CHECK_DEADLOCK FALSE
