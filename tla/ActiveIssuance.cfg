\* Three requests of three tokens, each of which may start again once with another entry
\* of the same set.
SPECIFICATION SlotSpec
CONSTANTS
    NoSet = NoSet
    a1 = a1
    a2 = a2
    b1 = b1
    c1 = c1
    A = A
    B = B
    C = C
    Issuances = {a1, b1, c1}
    Sets = {A, B, C}
    Token <- SomeTokens
    MaxRetries = 2
    MaxAttempts = 2
INVARIANTS
    OneActiveSet
    RevokedWereReplaced
CHECK_DEADLOCK FALSE
