\* One offer of either flow: two wallets that retrieve it, push, authorize and
\* exchange; of the transaction code one failed attempt is allowed.  Only the
\* maintenance timer is fair.
SPECIFICATION FairSpec
CONSTANTS
    None = None
    Offer = Offer
    Retrievals = {r1, r2}
    Pushes = {p1, p2}
    Authorizations = {a1, a2}
    Exchanges = {t1, t2}
    Cancels = {c1}
    Jobs = {j1}
    Flows = {"pre_authorized_code", "authorization_code"}
    TxCode = TRUE
    MaxAttempts = 1
    CleanupMode = "full"
INVARIANTS
    SingleUse
    GrantExcludesWithdrawal
PROPERTIES
    ImplementsContract
    OverdueOffersEnd
