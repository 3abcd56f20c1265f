\* Room for one of two approvals; no retries, one encryption key.
SPECIFICATION Spec
CONSTANTS
    k1 = k1
    k2 = k2
    w1 = w1
    a1 = a1
    a2 = a2
    ApiKeys = {k1, k2}
    Wallets = {w1}
    WalletOf <- MCWalletOf
    KeyRequests = {s1}
    MaxRotations = 0
    MaxRuns = 2
    Approvals = {a1, a2}
    Rank <- MCRank
    SeenLimit = 1
    MaxTries = 0
INVARIANT
    MemoryIsRecent
