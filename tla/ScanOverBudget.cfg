\* A graph whose scan takes the cost over the cap.
SPECIFICATION Spec
CONSTANTS
    c1 = c1
    c2 = c2
    a1 = a1
    a2 = a2
    None = None
    ChainIds <- MCChainIds
    Approvals <- MCApprovals
    ChainOf <- MCChainOf
    Dangerous = {a1}
    Settings <- GraphSettings
    MaxSteps = 2
    GraphLimit = 3
    MaxRetries = 0
    MaxFaults = 0
INVARIANT
    NoExecutionOverBudget
CHECK_DEADLOCK FALSE
