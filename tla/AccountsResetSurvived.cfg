CONSTANTS
    Users = {u1}
    Requests = {s1, s2}
    MaxCodes = 2
    MaxTokens = 3
    MaxAttempts = 1
SPECIFICATION Spec
SYMMETRY Symmetry
INVARIANTS
    ResetClosesSessions
