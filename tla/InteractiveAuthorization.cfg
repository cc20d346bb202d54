\* Two auth sessions of one offer: a page and a presentation, and a presentation alone.
SPECIFICATION Spec
CONSTANTS
    None = None
    s1 = s1
    s2 = s2
    Sessions = {s1, s2}
    FollowUps = {f1, f2}
    Backends = {b1}
    Exchanges = {t1, t2}
    Plans <- MixedPlans
SYMMETRY Symmetry
INVARIANTS
    TypeOK
    StepsBeforeCode
    RedeemedOnce
    CredentialsBeforeTokens
CHECK_DEADLOCK FALSE
