CONSTANTS
    Users = {u1}
    Requests = {s1, s2}
    MaxCodes = 1
    MaxTokens = 3
    MaxAttempts = 1
SPECIFICATION Spec
SYMMETRY Symmetry
INVARIANTS
    OneFreshToken
