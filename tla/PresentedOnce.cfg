\* A wallet goes through a plan of two presentations, one request at a time.
SPECIFICATION Spec
CONSTANTS
    None = None
    s1 = s1
    s2 = s2
    Sessions = {s1}
    FollowUps = {f1}
    Backends = {b1}
    Exchanges = {t1}
    Plans <- TwoPresentations
INVARIANT EveryStepDone
CHECK_DEADLOCK FALSE
