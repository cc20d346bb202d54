-------------------------- MODULE PresentationFlow --------------------------
(***************************************************************************)
(* One OID4VP presentation session of the verifier, from the created       *)
(* request to the reported result.  Wallet requests, operator requests and *)
(* the maintenance job are HTTP handlers or timers that interleave at      *)
(* every await: each action is what a handler does up to and including its *)
(* next database statement (or webhook call).  A handler works on the row  *)
(* it loaded first; only the conditional updates look at the current row.  *)
(*                                                                         *)
(* A request object is generated with a nonce and an encryption key of its *)
(* own, so all three are named by the handler that generated them: Offer   *)
(* when the request is signed while the offer is created, or the fetch     *)
(* handler that generated it because the row had none (sessions of the     *)
(* OID4VP authorization server and of interactive authorization).          *)
(* The row of an offer is stored before its request is generated, so       *)
(* operators and the maintenance job reach it first; no wallet does, as    *)
(* its addresses are in the offer that is returned last.                   *)
(* The session of an ISO 18013-7 offer (Annex C) has no request object and *)
(* no key of its own: the page passes the request to the wallet, and the   *)
(* answer is decrypted with a key of the tenant.                           *)
(***************************************************************************)
EXTENDS SessionStore, Naturals

CONSTANTS Fetches,        \* GET or POST of the request_uri
          Responses,      \* POST to the response_uri
          Cancels,        \* POST /session/{id}/cancel
          Jobs,           \* timers running the session maintenance
          Offer,          \* generator of a request signed with the offer
          Kinds,          \* kinds of sessions: "prepared", "lazy", "iso-18013-7"
          ShortRetention, \* whether the retention TTL may end before expiresAt
          CleanupModes    \* "full" or "anonymize", as the tenant configures it

ASSUME GeneratorsDiffer ==
    Offer # None /\ Offer \notin Fetches /\ None \notin Fetches
ASSUME NoReasonIsNone == None \notin Terminal \cup {"redeemed"}
ASSUME NoResponseIsNone == None \notin Responses
ASSUME KnownSettings ==
    /\ Kinds \subseteq {"prepared", "lazy", "iso-18013-7"}
    /\ ShortRetention \in BOOLEAN /\ CleanupModes \subseteq {"full", "anonymize"}

VARIABLES
    session,    \* the row: kind, stored, status, consumed, code, key, nonce, request
    offering,   \* where the handler is that creates the offer
    overdue,    \* now is past expiresAt
    aged,       \* now is past createdAt plus the retention TTL
    fetching,   \* where each fetch handler is
    served,     \* the request object each fetch handler returns
    responding, \* where each response handler is
    cancelling, \* where each cancel handler is
    reason,     \* why a cancellation was refused
    job,        \* where each maintenance run is
    announced,  \* how often each status was published on the event stream
    webhook     \* the results handed to the tenant's webhook

vars == <<session, offering, overdue, aged, fetching, served, responding,
          cancelling, reason, job, announced, webhook>>

Generators == Fetches \cup {Offer}

\* Where a handler can be.  "done" and "refused" are the answers it can give.
OfferPC == {"nonce", "key", "store", "done", "refused"}
FetchPC == {"idle", "generate", "key", "store", "mark", "announce", "done", "refused"}
ResponsePC == {"idle", "complete", "fail", "completed", "failed", "done", "refused"}
CancelPC == {"idle", "update", "reread", "cancelled", "notify", "done", "refused"}
JobPC == {"idle", "expire", "announce", "retain"}

\* The row was stored.  That of an ISO 18013-7 offer has its nonce from the start.
Init ==
    /\ \E k \in Kinds :
          /\ session = [kind |-> k, stored |-> TRUE, status |-> "active",
                        consumed |-> FALSE, code |-> None, key |-> None,
                        nonce |-> IF k = "iso-18013-7" THEN Offer ELSE None,
                        request |-> None]
          /\ offering = IF k = "prepared" THEN "nonce" ELSE "done"
    /\ overdue = FALSE
    /\ aged = FALSE
    /\ fetching = [f \in Fetches |-> "idle"]
    /\ served = [f \in Fetches |-> None]
    /\ responding = [r \in Responses |-> "idle"]
    /\ cancelling = [c \in Cancels |-> "idle"]
    /\ reason = [c \in Cancels |-> None]
    /\ job = [j \in Jobs |-> "idle"]
    /\ announced = [s \in Status |-> 0]
    /\ webhook = {}

MutantStateUpdate(row, status) == [row EXCEPT !.status = status]  \* keeps the key

\* stateUpdate: a terminal status also deletes the response key.
StateUpdate(row, status) ==
    [row EXCEPT !.status = status,
                !.key = IF status \in Terminal THEN None ELSE @]

\* updateForTenant: an unconditional update, which changes nothing once the
\* row is gone.
Write(row) == session' = IF session.stored THEN row ELSE session

Announce(status) == announced' = [announced EXCEPT ![status] = @ + 1]
-----------------------------------------------------------------------------
(***************************************************************************)
(* createRequest goes on: it generates the request of the stored session.  *)
(***************************************************************************)
NotOffer == UNCHANGED <<overdue, aged, fetching, served, responding, cancelling,
                        reason, job, announced, webhook>>

\* createAuthorizationRequest loads the session, whatever its status, and writes a
\* nonce; it throws when the row is gone.
OfferNonce ==
    /\ offering = "nonce"
    /\ Write([session EXCEPT !.nonce = Offer])
    /\ offering' = IF session.stored THEN "key" ELSE "refused"
    /\ NotOffer

OfferKey ==
    /\ offering = "key"
    /\ Write([session EXCEPT !.key = Offer])
    /\ offering' = "store"
    /\ NotOffer

\* The signed request is stored, and the offer returned.
OfferStore ==
    /\ offering = "store"
    /\ Write([session EXCEPT !.request = Offer])
    /\ offering' = "done"
    /\ NotOffer

\* Generating or signing fails, or the instance stops: nobody gets the offer.
OfferAbort ==
    /\ offering \in {"nonce", "key", "store"}
    /\ offering' = "refused"
    /\ UNCHANGED session
    /\ NotOffer

CreateOffer == OfferNonce \/ OfferKey \/ OfferStore \/ OfferAbort
-----------------------------------------------------------------------------
(***************************************************************************)
(* The wallet fetches the request object.                                  *)
(***************************************************************************)
FetchVars == <<session, fetching, served, announced>>
NotFetch == UNCHANGED <<offering, overdue, aged, responding, cancelling, reason, job,
                        webhook>>

MutantNeedsRequest(row) == TRUE  \* a stored request is generated again

\* Only a session without a stored request generates one.
NeedsRequest(row) == row.request = None

\* RetrievePresentationRequest.execute up to the decision to generate.  Nobody is
\* given a request_uri of an ISO 18013-7 session.
FetchLoad(f) ==
    /\ fetching[f] = "idle" /\ offering = "done" /\ session.kind # "iso-18013-7"
    /\ IF ~session.stored \/ ~Usable(session, overdue)
       THEN /\ fetching' = [fetching EXCEPT ![f] = "refused"]
            /\ UNCHANGED served
       ELSE IF NeedsRequest(session)
       THEN /\ fetching' = [fetching EXCEPT ![f] = "generate"]
            /\ UNCHANGED served
       ELSE /\ fetching' = [fetching EXCEPT ![f] = "mark"]
            /\ served' = [served EXCEPT ![f] = session.request]
    /\ UNCHANGED <<session, announced>>
    /\ NotFetch

\* createAuthorizationRequest loads the session again, and writes a new nonce.
FetchNonce(f) ==
    /\ fetching[f] = "generate"
    /\ Write([session EXCEPT !.nonce = f])
    /\ fetching' = [fetching EXCEPT ![f] = IF session.stored THEN "key" ELSE "refused"]
    /\ UNCHANGED <<served, announced>>
    /\ NotFetch

\* ... and the private key of the response encryption.
FetchKey(f) ==
    /\ fetching[f] = "key"
    /\ Write([session EXCEPT !.key = f])
    /\ fetching' = [fetching EXCEPT ![f] = "store"]
    /\ UNCHANGED <<served, announced>>
    /\ NotFetch

\* The signed request is stored for later fetches.
FetchStore(f) ==
    /\ fetching[f] = "store"
    /\ Write([session EXCEPT !.request = f])
    /\ served' = [served EXCEPT ![f] = f]
    /\ fetching' = [fetching EXCEPT ![f] = "mark"]
    /\ UNCHANGED announced
    /\ NotFetch

\* executeFrom([active], fetched).
FetchMark(f) ==
    /\ fetching[f] = "mark"
    /\ IF InStatus(session, {"active"})
       THEN /\ session' = StateUpdate(session, "fetched")
            /\ fetching' = [fetching EXCEPT ![f] = "announce"]
       ELSE /\ fetching' = [fetching EXCEPT ![f] = "done"]
            /\ UNCHANGED session
    /\ UNCHANGED <<served, announced>>
    /\ NotFetch

FetchAnnounce(f) ==
    /\ fetching[f] = "announce"
    /\ Announce("fetched")
    /\ fetching' = [fetching EXCEPT ![f] = "done"]
    /\ UNCHANGED <<session, served>>
    /\ NotFetch

\* Generating or signing fails, or the instance stops: the wallet gets no answer.
FetchAbort(f) ==
    /\ fetching[f] \in FetchPC \ {"idle", "done", "refused"}
    /\ fetching' = [fetching EXCEPT ![f] = "refused"]
    /\ served' = [served EXCEPT ![f] = None]
    /\ UNCHANGED <<session, announced>>
    /\ NotFetch

Fetch(f) == \/ FetchLoad(f) \/ FetchNonce(f) \/ FetchKey(f) \/ FetchStore(f)
            \/ FetchMark(f) \/ FetchAnnounce(f) \/ FetchAbort(f)
-----------------------------------------------------------------------------
(***************************************************************************)
(* The wallet answers.  An answer is an OAuth error, or a response that    *)
(* is encrypted and bound with the key and nonce of a request object the   *)
(* wallet was given, whose credentials verify or not.                      *)
(***************************************************************************)
NotResponse == UNCHANGED <<offering, overdue, aged, fetching, served, cancelling,
                           reason, job>>

\* The requests a wallet holds: what a fetch returned, or what the page of the
\* relying party passed on from the offer (Digital Credentials API).
Held == {served[f] : f \in {g \in Fetches : fetching[g] = "done"}}
            \cup (IF session.kind = "prepared" THEN {Offer} ELSE {})

\* A response that fails to decrypt is refused without an effect; one whose
\* nonce or credentials do not verify fails the session.
NextOfResponse(g, verifies) ==
    IF session.key # g THEN "refused"
    ELSE IF session.nonce = g /\ verifies THEN "complete" ELSE "fail"

\* processResponse of ISO 18013-7: a malformed response is refused; one that the key
\* of the tenant does not decrypt with the nonce of the row, or whose credential does
\* not verify, fails the session.
NextOfIsoResponse == {"complete", "fail", "refused"}

\* getResponse, or processResponse, up to the conditional update: it decrypts and
\* verifies with the key and the nonce of the row it loaded.
RespondLoad(r) ==
    /\ responding[r] = "idle" /\ offering = "done"
    /\ IF ~session.stored \/ session.consumed \/ ~Usable(session, overdue)
       THEN responding' = [responding EXCEPT ![r] = "refused"]
       ELSE \/ responding' = [responding EXCEPT ![r] = "fail"]  \* handleWalletError
            \/ \E g \in Held, verifies \in BOOLEAN :
                  responding' = [responding EXCEPT ![r] = NextOfResponse(g, verifies)]
            \/ /\ session.kind = "iso-18013-7"
               /\ \E next \in NextOfIsoResponse :
                     responding' = [responding EXCEPT ![r] = next]
    /\ UNCHANGED <<session, announced, webhook>>
    /\ NotResponse

\* CompletePresentationResponse: redeems and completes in one update.
RespondComplete(r) ==
    /\ responding[r] = "complete"
    /\ IF Unconsumed(session, overdue)
       THEN /\ session' = [StateUpdate(session, "completed")
                              EXCEPT !.consumed = TRUE, !.code = r]
            /\ responding' = [responding EXCEPT ![r] = "completed"]
       ELSE /\ responding' = [responding EXCEPT ![r] = "refused"]
            /\ UNCHANGED session
    /\ UNCHANGED <<announced, webhook>>
    /\ NotResponse

\* FailPresentationResponse: conditional like the completion.
RespondFail(r) ==
    /\ responding[r] = "fail"
    /\ IF Unconsumed(session, overdue)
       THEN /\ session' = StateUpdate(session, "failed")
            /\ responding' = [responding EXCEPT ![r] = "failed"]
       ELSE /\ responding' = [responding EXCEPT ![r] = "refused"]
            /\ UNCHANGED session
    /\ UNCHANGED <<announced, webhook>>
    /\ NotResponse

\* The winner publishes the status, then calls the webhook; a failed delivery
\* is recorded and not repeated.
RespondPublish(r) ==
    /\ responding[r] \in {"completed", "failed"}
    /\ Announce(responding[r])
    /\ webhook' = webhook \cup {<<r, responding[r]>>}
    /\ responding' = [responding EXCEPT ![r] = "done"]
    /\ UNCHANGED session
    /\ NotResponse

\* The instance stops while it handles the response.
RespondAbort(r) ==
    /\ responding[r] \in {"complete", "fail", "completed", "failed"}
    /\ responding' = [responding EXCEPT ![r] = "refused"]
    /\ UNCHANGED <<session, announced, webhook>>
    /\ NotResponse

Respond(r) == \/ RespondLoad(r) \/ RespondComplete(r) \/ RespondFail(r)
              \/ RespondPublish(r) \/ RespondAbort(r)
-----------------------------------------------------------------------------
(***************************************************************************)
(* An operator cancels or deletes the session.                             *)
(***************************************************************************)
NotCancel == UNCHANGED <<offering, overdue, aged, fetching, served, responding, job>>

CancelLoad(c) ==
    /\ cancelling[c] = "idle"
    /\ cancelling' = [cancelling EXCEPT ![c] = IF session.stored THEN "update" ELSE "refused"]
    /\ UNCHANGED <<session, reason, announced, webhook>>
    /\ NotCancel

CancelUpdate(c) ==
    /\ cancelling[c] = "update"
    /\ IF Unconsumed(session, overdue)
       THEN /\ session' = StateUpdate(session, "cancelled")
            /\ cancelling' = [cancelling EXCEPT ![c] = "cancelled"]
       ELSE /\ cancelling' = [cancelling EXCEPT ![c] = "reread"]
            /\ UNCHANGED session
    /\ UNCHANGED <<reason, announced, webhook>>
    /\ NotCancel

\* The loser reads the row again to name the reason.
CancelReread(c) ==
    /\ cancelling[c] = "reread"
    /\ reason' = [reason EXCEPT ![c] =
                     IF session.stored THEN NotCancellableReason(session) ELSE None]
    /\ cancelling' = [cancelling EXCEPT ![c] = "refused"]
    /\ UNCHANGED <<session, announced, webhook>>
    /\ NotCancel

CancelAnnounce(c) ==
    /\ cancelling[c] = "cancelled"
    /\ Announce("cancelled")
    /\ cancelling' = [cancelling EXCEPT ![c] = "notify"]
    /\ UNCHANGED <<session, reason, webhook>>
    /\ NotCancel

\* The listener of the cancellation event reads the session again and reports
\* the cancellation, unless the row is gone.
CancelNotify(c) ==
    /\ cancelling[c] = "notify"
    /\ webhook' = IF session.stored THEN webhook \cup {<<c, "cancelled">>} ELSE webhook
    /\ cancelling' = [cancelling EXCEPT ![c] = "done"]
    /\ UNCHANGED <<session, reason, announced>>
    /\ NotCancel

Cancel(c) == \/ CancelLoad(c) \/ CancelUpdate(c) \/ CancelReread(c)
             \/ CancelAnnounce(c) \/ CancelNotify(c)

DeleteSession ==
    /\ session.stored
    /\ session' = [session EXCEPT !.stored = FALSE]
    /\ UNCHANGED <<offering, overdue, aged, fetching, served, responding, cancelling,
                   reason, job, announced, webhook>>
-----------------------------------------------------------------------------
(***************************************************************************)
(* The maintenance job of every instance, and the clock.                   *)
(***************************************************************************)
NotJob == UNCHANGED <<offering, overdue, aged, fetching, served, responding,
                      cancelling, reason, webhook>>

MutantExpirable(row, late) == late /\ InStatus(row, {"active"})  \* forgets fetched ones

\* findExpiredSessionsForMaintenance, for a presentation session.
Expirable(row, late) == late /\ InStatus(row, Open)

JobSelect(j) ==
    /\ job[j] = "idle"
    /\ job' = [job EXCEPT ![j] = IF Expirable(session, overdue) THEN "expire" ELSE "retain"]
    /\ UNCHANGED <<session, announced>>
    /\ NotJob

\* executeFrom(OPEN_SESSION_STATUSES, expired) for a selected session.
JobExpire(j) ==
    /\ job[j] = "expire"
    /\ IF InStatus(session, Open)
       THEN /\ session' = StateUpdate(session, "expired")
            /\ job' = [job EXCEPT ![j] = "announce"]
       ELSE /\ job' = [job EXCEPT ![j] = "retain"]
            /\ UNCHANGED session
    /\ UNCHANGED announced
    /\ NotJob

JobAnnounce(j) ==
    /\ job[j] = "announce"
    /\ Announce("expired")
    /\ job' = [job EXCEPT ![j] = "retain"]
    /\ UNCHANGED session
    /\ NotJob

\* Retention of the tenant: delete the row, or clear its personal data.
JobRetain(j) ==
    /\ job[j] = "retain"
    /\ \/ aged /\ "anonymize" \in CleanupModes
          /\ Write([session EXCEPT !.request = None, !.key = None])
       \/ aged /\ "full" \in CleanupModes
          /\ session' = [session EXCEPT !.stored = FALSE]
       \/ ~aged /\ UNCHANGED session
    /\ job' = [job EXCEPT ![j] = "idle"]
    /\ UNCHANGED announced
    /\ NotJob

JobStep(j) == JobSelect(j) \/ JobExpire(j) \/ JobAnnounce(j) \/ JobRetain(j)

PassExpiry ==
    /\ ~overdue
    /\ overdue' = TRUE
    /\ UNCHANGED <<session, offering, aged, fetching, served, responding, cancelling,
                   reason, job, announced, webhook>>

PassRetention ==
    /\ ~aged
    /\ overdue \/ ShortRetention
    /\ aged' = TRUE
    /\ UNCHANGED <<session, offering, overdue, fetching, served, responding, cancelling,
                   reason, job, announced, webhook>>

Next ==
    \/ CreateOffer
    \/ \E f \in Fetches : Fetch(f)
    \/ \E r \in Responses : Respond(r)
    \/ \E c \in Cancels : Cancel(c)
    \/ \E j \in Jobs : JobStep(j)
    \/ DeleteSession \/ PassExpiry \/ PassRetention

Spec == Init /\ [][Next]_vars

\* The interval of the maintenance job keeps firing, so every run that can take
\* a step takes it; nothing else is assumed to happen.
FairSpec == Spec /\ \A j \in Jobs : WF_vars(JobStep(j))
-----------------------------------------------------------------------------
(***************************************************************************)
(* Properties.                                                             *)
(***************************************************************************)
Rows == [kind : Kinds, stored : BOOLEAN, status : Status, consumed : BOOLEAN,
         code : Responses \cup {None}, key : Generators \cup {None},
         nonce : Generators \cup {None}, request : Generators \cup {None}]

TypeOK ==
    /\ session \in Rows
    /\ offering \in OfferPC
    /\ overdue \in BOOLEAN
    /\ aged \in BOOLEAN
    /\ fetching \in [Fetches -> FetchPC]
    /\ served \in [Fetches -> Generators \cup {None}]
    /\ responding \in [Responses -> ResponsePC]
    /\ cancelling \in [Cancels -> CancelPC]
    /\ reason \in [Cancels -> Terminal \cup {"redeemed", None}]
    /\ job \in [Jobs -> JobPC]
    /\ announced \in [Status -> Nat]
    /\ webhook \subseteq (Responses \X {"completed", "failed"}) \cup (Cancels \X {"cancelled"})

\* The handlers whose conditional update ended the session.
RespondedFirst(r) == responding[r] \in {"completed", "failed", "done"}
CancelledFirst(c) == cancelling[c] \in {"cancelled", "notify", "done"}
ExpiredFirst(j) == job[j] = "announce"

\* Responses, cancellations and the expiry race for the session and exactly one
\* wins (sessions.md: "when they race exactly one wins"): no two handlers both
\* believe that they ended it.
OneWinner ==
    /\ \A r1, r2 \in Responses : RespondedFirst(r1) /\ RespondedFirst(r2) => r1 = r2
    /\ \A c1, c2 \in Cancels : CancelledFirst(c1) /\ CancelledFirst(c2) => c1 = c2
    /\ \A j1, j2 \in Jobs : ExpiredFirst(j1) /\ ExpiredFirst(j2) => j1 = j2
    /\ \A r \in Responses, c \in Cancels : ~(RespondedFirst(r) /\ CancelledFirst(c))
    /\ \A r \in Responses, j \in Jobs : ~(RespondedFirst(r) /\ ExpiredFirst(j))
    /\ \A c \in Cancels, j \in Jobs : ~(CancelledFirst(c) /\ ExpiredFirst(j))

\* Every transition is published at most once, and a terminal status that was
\* published is the one the session ended with (ChangeSessionState.announce is
\* called "once, and only after that write took effect").
AnnouncedOnce ==
    /\ \A s \in Status : announced[s] <= 1
    /\ \A s \in Terminal : announced[s] > 0 => session.status = s

\* The webhook hears of one result or of a cancellation, never of both, and it is
\* what the session ended with: a losing response reports nothing, also when it
\* verified as well.
WebhookMatchesSession ==
    \A w \in webhook :
        /\ session.status = w[2]
        /\ w[2] = "completed" => session.code = w[1]
        /\ \A v \in webhook : v = w

\* A refused cancellation names the true reason, although it reads the row again
\* after its update did not match: the terminal status, or that the session is
\* past its expiry.  (A presentation is never "redeemed" and still open.)
CancelReasonTrue ==
    \A c \in Cancels :
        /\ reason[c] # "redeemed"
        /\ reason[c] = "expired" => overdue
        /\ reason[c] \in Terminal \ {"expired"} => session.status = reason[c]

\* The key and the nonce of the row belong to the request object that was signed with
\* the offer and that wallets are served, until the retention clears it: otherwise no
\* answer to it can ever be decrypted or verified.
\* (presentation.md: "Each session gets a fresh P-256 key pair.  The public key
\* goes into client_metadata.jwks; the private key is stored".)
StoredRequestAnswerable ==
    /\ session.kind = "prepared" /\ offering = "done"
    /\ session.stored /\ session.status \in Open /\ ~aged
    => session.request = Offer /\ session.key = Offer /\ session.nonce = Offer

\* A session that wallets were given ends without its response key, whoever ends it and
\* whatever is still under way (unless a fetch generated the request late).  A key that
\* is in an ended session was written after a cancellation or the expiry had overtaken
\* the handler that creates the offer: then no wallet was ever given the request, and
\* none of its responses considered.
KeyOutlivesOnlyUnservedOffers ==
    /\ session.kind # "lazy" /\ ~aged /\ session.stored
    /\ session.status \in Terminal /\ session.key # None
    => /\ session.status \in {"cancelled", "expired"}
       /\ \A f \in Fetches : served[f] = None /\ fetching[f] \in {"idle", "refused"}
       /\ \A r \in Responses : responding[r] \in {"idle", "refused"}

\* "The private key is stored encrypted in the session and deleted when the session
\* ends" (presentation.md): no session that has ended holds one.  The code does not keep
\* this: a cancellation or the expiry may come between the row and its key.
KeyDeletedWhenFinished ==
    session.stored /\ session.status \in Terminal => session.key = None

\* The flow keeps the session contract: final terminal statuses, one
\* redemption, and neither a cancellation nor an expiry of a redeemed session.
Contract == INSTANCE SessionContract WITH
    Requests <- Responses,
    status <- IF session.stored THEN session.status ELSE "deleted",
    redeemedBy <- IF session.stored THEN session.code ELSE None

ImplementsContract == Contract!Spec

\* The maintenance job ends every session that is past its expiry, so none stays
\* open for ever once the wallet has gone.
OverdueSessionsEnd == overdue ~> (~session.stored \/ session.status \in Terminal)
=============================================================================
