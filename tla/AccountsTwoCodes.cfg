CONSTANTS
    Users = {u1}
    Requests = {s1, s2}
    MaxCodes = 2
    MaxTokens = 2
    MaxAttempts = 1
SPECIFICATION Spec
SYMMETRY Symmetry
INVARIANTS
    OneUsableCode
