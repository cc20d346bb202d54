\* Two logins for one offer, one after the other, then a credential request.
SPECIFICATION Spec
CONSTANTS
    None = None
    Pushes = {p1, p2}
    Authorizations = {a1, a2}
    Callbacks = {c1, c2}
    Exchanges = {t1, t2}
    Credentials = {k1}
    SessionLife = 1
    CodeLife = 0
    AccessLife = 1
    RefreshLife = 1
    LastRequest = 2
    Horizon = 4
SYMMETRY Symmetry
CHECK_DEADLOCK FALSE
INVARIANT
    ServedTokensIdentity
