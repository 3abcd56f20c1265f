\* Two runs of a search that finds one approval, each of them run again once.
SPECIFICATION Spec
CONSTANTS
    k1 = k1
    k2 = k2
    w1 = w1
    a1 = a1
    a2 = a2
    ApiKeys = {k1, k2}
    Wallets = {w1}
    WalletOf <- MCWalletOf
    KeyRequests = {s1}
    MaxRotations = 1
    MaxRuns = 2
    Approvals = {a1}
    Rank <- MCRank
    SeenLimit = 2
    MaxTries = 1
INVARIANTS
    TypeOK
    NotifiedOnce
    EveryFindingIsTold
    KeysAreAudited
