\* Immediate and deferred requests race for nonces in a session, redeemed by the
\* built-in server or not, that notifications, a cancellation, the expiry and a
\* deletion may end meanwhile.
SPECIFICATION Spec
CONSTANTS
    None = None
    Requests = {r1, r2}
    Notices = {k1}
    Nonces = {n1, n2}
    Jobs = {j1}
    Servers = {"built-in", "chained", "external"}
    Deferral = TRUE
    MaxProofs = 2
SYMMETRY Symmetry
INVARIANTS
    NonceSingleUse
    ExpiredNonceRefused
    RedeemedSessionServes
PROPERTY
    NeverReopened
