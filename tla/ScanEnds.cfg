\* All three ways of running a scan, retried, two revocations, nothing lost.
SPECIFICATION FairSpec
CONSTANTS
    c1 = c1
    c2 = c2
    a1 = a1
    a2 = a2
    None = None
    ChainIds <- MCChainIds
    Approvals <- MCApprovals
    ChainOf <- MCSameChain
    Dangerous = {a1, a2}
    Settings <- AllSettings
    MaxSteps = 1
    GraphLimit = 2
    MaxRetries = 1
    MaxFaults = 0
INVARIANTS
    RevokedIsCleared
    NeverBlind
    JournalIsTheRun
    ScanInv
PROPERTY
    EventuallyEnds
CHECK_DEADLOCK FALSE
