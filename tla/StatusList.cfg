\* Two credential requests, two updates and a verifier or operator share lists of
\* two entries; updates revoke and suspend.
SPECIFICATION Spec
CONSTANTS
    None = None
    Issues = {i1, i2}
    Updates = {u1, u2}
    Calls = {c1}
    Values = {1, 2}
    Capacity = 2
    MaxLists = 2
    MaxRetries = 2
    Immediate = TRUE
SYMMETRY Symmetry
INVARIANTS
    EntriesConserved
    RevocationsPublished
PROPERTIES
    RevocationFinal
    TokensNeverForget
CHECK_DEADLOCK FALSE
