\* Each kind of session, and a retention that clears or deletes it after it expired:
\* every interleaving of two wallets, an operator and the timer; only the timer is fair.
SPECIFICATION FairSpec
CONSTANTS
    None = None
    Offer = Offer
    Fetches = {f1, f2}
    Responses = {r1, r2}
    Cancels = {c1}
    Jobs = {j1}
    Kinds = {"prepared", "lazy", "iso-18013-7"}
    ShortRetention = FALSE
    CleanupModes = {"full", "anonymize"}
INVARIANTS
    OneWinner
    AnnouncedOnce
    WebhookMatchesSession
    CancelReasonTrue
    StoredRequestAnswerable
    KeyOutlivesOnlyUnservedOffers
PROPERTIES
    ImplementsContract
    OverdueSessionsEnd
