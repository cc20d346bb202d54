----------------------------- MODULE OfferFlow -----------------------------
(***************************************************************************)
(* One credential offer of the issuer, from the offer a tenant created to  *)
(* the token exchange that redeems it, with the built-in authorization     *)
(* server.  In the pre-authorized flow the offer carries the code; in the  *)
(* authorization code flow a wallet pushes an authorization request that   *)
(* names the offer (issuer_state) and gets a code at the authorization     *)
(* endpoint.                                                               *)
(*                                                                         *)
(* Each action is what a handler does up to and including its next         *)
(* database statement.  Values that are generated at random are named by   *)
(* the handler that generated them: a request_uri (with its expiry, its    *)
(* parameters and its DPoP key) by the push, a code by the authorization   *)
(* request, a refresh token by the exchange.  The lifetimes of 60 seconds  *)
(* of request_uri and code only refuse: a handler may find them over.      *)
(***************************************************************************)
EXTENDS SessionStore, Naturals

CONSTANTS Retrievals,   \* GET of the offer by reference
          Pushes,       \* PAR requests that name the offer
          Authorizations, \* GET of the authorization endpoint
          Exchanges,    \* token requests that present a code
          Cancels,      \* POST /session/{id}/cancel
          Jobs,         \* timers running the session maintenance
          Offer,        \* generator of the pre-authorized code
          Flows,        \* flows an offer may have
          TxCode,       \* whether a pre-authorized code needs a tx_code
          MaxAttempts,  \* txCodeMaxAttempts
          CleanupMode   \* "full" or "anonymize"

ASSUME NamesDiffer ==
    /\ None \notin Pushes \cup Authorizations \cup Exchanges \cup {Offer}
    /\ Offer \notin Authorizations
ASSUME NoReasonIsNone == None \notin Terminal \cup {"redeemed"}
ASSUME FlowsGiven == Flows \subseteq {"pre_authorized_code", "authorization_code"}
ASSUME TxCodeSettings == TxCode \in BOOLEAN /\ MaxAttempts \in Nat \ {0}
ASSUME CleanupModes == CleanupMode \in {"full", "anonymize"}

VARIABLES
    session,    \* the row
    overdue,    \* now is past expiresAt
    aged,       \* now is past createdAt plus the session TTL
    retrieving, \* where each offer retrieval is
    pushing,    \* where each PAR handler is
    authorizing, \* where each authorization handler is
    uriOf,      \* the request_uri each authorization handler was called with
    exchanging, \* where each token handler is
    cancelling, \* where each cancel handler is
    reason,     \* why a cancellation was refused
    job         \* where each maintenance run is

vars == <<session, overdue, aged, retrieving, pushing, authorizing, uriOf,
          exchanging, cancelling, reason, job>>

Codes == Authorizations \cup {Offer}

\* A refused retrieval, push or authorization is over: its handler is idle again.
RetrievalPC == {"idle", "consume", "done"}
PushPC == {"idle", "update", "done"}
AuthorizePC == {"idle", "consume", "store", "done"}
ExchangePC == {"idle", "wrong", "redeem", "granted", "refused"}
CancelPC == {"idle", "update", "reread", "cancelled", "refused"}
JobPC == {"idle", "expire", "retain"}

Init ==
    /\ \E flow \in Flows :
         session = [stored |-> TRUE, status |-> "active", consumed |-> FALSE,
                    flow |-> flow,
                    offer |-> TRUE,   \* the offer by reference
                    uri |-> None,     \* request_uri not used yet
                    auth |-> None,    \* parameters of the pushed request
                    code |-> IF flow = "pre_authorized_code" THEN Offer ELSE None,
                    fails |-> 0,      \* txCodeFailedAttempts
                    refresh |-> None] \* refresh token, and who was granted it
    /\ overdue = FALSE
    /\ aged = FALSE
    /\ retrieving = [r \in Retrievals |-> "idle"]
    /\ pushing = [p \in Pushes |-> "idle"]
    /\ authorizing = [a \in Authorizations |-> "idle"]
    /\ uriOf = [a \in Authorizations |-> None]
    /\ exchanging = [t \in Exchanges |-> "idle"]
    /\ cancelling = [c \in Cancels |-> "idle"]
    /\ reason = [c \in Cancels |-> None]
    /\ job = [j \in Jobs |-> "idle"]

PreAuthorized == session.flow = "pre_authorized_code"

\* updateForTenant: an unconditional update of the row, if it is still there.
Write(row) == session' = IF session.stored THEN row ELSE session
-----------------------------------------------------------------------------
(***************************************************************************)
(* The wallet retrieves the offer (single retrieval, the default).         *)
(***************************************************************************)
NotRetrieve == UNCHANGED <<overdue, aged, pushing, authorizing, uriOf, exchanging,
                           cancelling, reason, job>>

RetrieveLoad(r) ==
    /\ retrieving[r] = "idle"
    /\ session.stored /\ Usable(session, overdue) /\ session.offer
    /\ retrieving' = [retrieving EXCEPT ![r] = "consume"]
    /\ UNCHANGED session
    /\ NotRetrieve

\* WHERE clause of consumeCredentialOffer.
OfferThere(row) == row.stored /\ row.offer

RetrieveConsume(r) ==
    /\ retrieving[r] = "consume"
    /\ IF OfferThere(session)
       THEN /\ session' = [session EXCEPT !.offer = FALSE]
            /\ retrieving' = [retrieving EXCEPT ![r] = "done"]
       ELSE /\ retrieving' = [retrieving EXCEPT ![r] = "idle"]
            /\ UNCHANGED session
    /\ NotRetrieve

Retrieve(r) == RetrieveLoad(r) \/ RetrieveConsume(r)
-----------------------------------------------------------------------------
(***************************************************************************)
(* The wallet pushes an authorization request and uses its request_uri.    *)
(***************************************************************************)
NotPush == UNCHANGED <<overdue, aged, retrieving, authorizing, uriOf, exchanging,
                       cancelling, reason, job>>
NotAuthorize == UNCHANGED <<overdue, aged, retrieving, pushing, exchanging,
                            cancelling, reason, job>>

\* PushAuthorizationRequest.execute: the offer must be redeemable when the
\* request arrives; a redeemed one is not told apart.  It names the offer by the
\* issuer_state, which wallets get with offers of the authorization code only
\* (BuildCredentialOfferGrants): the handler itself does not look at the flow.
PushLoad(p) ==
    /\ ~PreAuthorized
    /\ pushing[p] = "idle"
    /\ session.stored /\ Usable(session, overdue)
    /\ pushing' = [pushing EXCEPT ![p] = "update"]
    /\ UNCHANGED session
    /\ NotPush

\* A new request_uri and its parameters replace those of an earlier push.  (For
\* a session deleted meanwhile the request gets a session of its own.)
PushUpdate(p) ==
    /\ pushing[p] = "update"
    /\ Write([session EXCEPT !.uri = p, !.auth = p])
    /\ pushing' = [pushing EXCEPT ![p] = IF session.stored THEN "done" ELSE "idle"]
    /\ NotPush

Push(p) == PushLoad(p) \/ PushUpdate(p)

\* AuthorizePushedRequest.execute finds the session by the request_uri of an
\* answered push, which is in the row until another push replaces it.
AuthorizeLoad(a) ==
    /\ authorizing[a] = "idle"
    /\ \E p \in Pushes :
        /\ pushing[p] = "done"
        /\ session.stored /\ session.auth = p /\ Usable(session, overdue)
        /\ uriOf' = [uriOf EXCEPT ![a] = p]
    /\ authorizing' = [authorizing EXCEPT ![a] = "consume"]
    /\ UNCHANGED session
    /\ NotAuthorize

MutantUriUnused(row, p) == row.stored  \* trusts the request_uri it loaded

\* WHERE clause of consumeRequestUri: the expiry read before stands for the push
\* that set it, and is replaced when the request_uri is used.
UriUnused(row, p) == row.stored /\ row.uri = p

AuthorizeConsume(a) ==
    /\ authorizing[a] = "consume"
    /\ \/ /\ UriUnused(session, uriOf[a])
          /\ session' = [session EXCEPT !.uri = None]
          /\ authorizing' = [authorizing EXCEPT ![a] = "store"]
          /\ UNCHANGED uriOf
       \/ \* used already, replaced by another push, or past its 60 seconds
          /\ authorizing' = [authorizing EXCEPT ![a] = "idle"]
          /\ uriOf' = [uriOf EXCEPT ![a] = None]
          /\ UNCHANGED session
    /\ NotAuthorize

\* The code is stored without a condition.
AuthorizeStore(a) ==
    /\ authorizing[a] = "store"
    /\ Write([session EXCEPT !.code = a])
    /\ authorizing' = [authorizing EXCEPT ![a] = "done"]
    /\ UNCHANGED uriOf
    /\ NotAuthorize

Authorize(a) == AuthorizeLoad(a) \/ AuthorizeConsume(a) \/ AuthorizeStore(a)
-----------------------------------------------------------------------------
(***************************************************************************)
(* The wallet exchanges a code for tokens.                                 *)
(***************************************************************************)
NotExchange == UNCHANGED <<overdue, aged, retrieving, pushing, authorizing, uriOf,
                           cancelling, reason, job>>

\* Codes a wallet was given.
Given == IF PreAuthorized THEN {Offer}
         ELSE {a \in Authorizations : authorizing[a] = "done"}

\* isTxCodeLocked, on the row as it was loaded.
NeedsTxCode == TxCode /\ PreAuthorized
Locked(row) == NeedsTxCode /\ row.fails >= MaxAttempts

\* The checks of the grant: a pre-authorized code ends with the session TTL; the
\* verifier of an authorization code must match the pushed parameters.
GrantHolds(row, c) ==
    IF PreAuthorized THEN ~aged /\ ~Locked(row)
    ELSE row.auth = uriOf[c]

\* ExchangeAccessToken.execute up to its update.  A wallet that presents its own
\* code may still type a wrong tx_code, or fail another check of the grant.
ExchangeLoad(t) ==
    /\ exchanging[t] = "idle"
    /\ \E c \in Given :
        /\ \/ exchanging' = [exchanging EXCEPT ![t] = "refused"]
           \/ /\ session.stored /\ session.code = c /\ ~session.consumed
              /\ Usable(session, overdue) /\ GrantHolds(session, c)
              /\ exchanging' = [exchanging EXCEPT ![t] = "redeem"]
           \/ /\ session.stored /\ session.code = c /\ ~session.consumed
              /\ Usable(session, overdue) /\ GrantHolds(session, c) /\ NeedsTxCode
              /\ exchanging' = [exchanging EXCEPT ![t] = "wrong"]
    /\ UNCHANGED session
    /\ NotExchange

\* RecordFailedTxCodeAttempt: an atomic increment.
ExchangeWrong(t) ==
    /\ exchanging[t] = "wrong"
    /\ Write([session EXCEPT !.fails = @ + 1])
    /\ exchanging' = [exchanging EXCEPT ![t] = "refused"]
    /\ NotExchange

\* The first of several exchanges redeems the offer and stores its refresh token.
ExchangeRedeem(t) ==
    /\ exchanging[t] = "redeem"
    /\ IF Unconsumed(session, overdue)
       THEN /\ session' = [session EXCEPT !.consumed = TRUE, !.refresh = t]
            /\ exchanging' = [exchanging EXCEPT ![t] = "granted"]
       ELSE /\ exchanging' = [exchanging EXCEPT ![t] = "refused"]
            /\ UNCHANGED session
    /\ NotExchange

\* The instance stops before the update: the wallet may try again.
ExchangeAbort(t) ==
    /\ exchanging[t] \in {"wrong", "redeem"}
    /\ exchanging' = [exchanging EXCEPT ![t] = "refused"]
    /\ UNCHANGED session
    /\ NotExchange

Exchange(t) == \/ ExchangeLoad(t) \/ ExchangeWrong(t) \/ ExchangeRedeem(t)
               \/ ExchangeAbort(t)

\* The first credential that the holder of the tokens gets: executeFrom([active],
\* fetched) of the credential endpoint.
FirstCredential ==
    /\ \E t \in Exchanges : exchanging[t] = "granted"
    /\ InStatus(session, {"active"})
    /\ session' = [session EXCEPT !.status = "fetched"]
    /\ UNCHANGED <<overdue, aged, retrieving, pushing, authorizing, uriOf,
                   exchanging, cancelling, reason, job>>
-----------------------------------------------------------------------------
(***************************************************************************)
(* An operator cancels or deletes the session.                             *)
(***************************************************************************)
NotCancel == UNCHANGED <<overdue, aged, retrieving, pushing, authorizing, uriOf,
                         exchanging, job>>

CancelLoad(c) ==
    /\ cancelling[c] = "idle"
    /\ cancelling' = [cancelling EXCEPT ![c] = IF session.stored THEN "update" ELSE "refused"]
    /\ UNCHANGED <<session, reason>>
    /\ NotCancel

CancelUpdate(c) ==
    /\ cancelling[c] = "update"
    /\ IF Unconsumed(session, overdue)
       THEN /\ session' = [session EXCEPT !.status = "cancelled"]
            /\ cancelling' = [cancelling EXCEPT ![c] = "cancelled"]
       ELSE /\ cancelling' = [cancelling EXCEPT ![c] = "reread"]
            /\ UNCHANGED session
    /\ UNCHANGED reason
    /\ NotCancel

CancelReread(c) ==
    /\ cancelling[c] = "reread"
    /\ reason' = [reason EXCEPT ![c] =
                     IF session.stored THEN NotCancellableReason(session) ELSE None]
    /\ cancelling' = [cancelling EXCEPT ![c] = "refused"]
    /\ UNCHANGED session
    /\ NotCancel

Cancel(c) == CancelLoad(c) \/ CancelUpdate(c) \/ CancelReread(c)

DeleteSession ==
    /\ session.stored
    /\ session' = [session EXCEPT !.stored = FALSE]
    /\ UNCHANGED <<overdue, aged, retrieving, pushing, authorizing, uriOf,
                   exchanging, cancelling, reason, job>>
-----------------------------------------------------------------------------
(***************************************************************************)
(* The maintenance job of every instance, and the clock.                   *)
(***************************************************************************)
NotJob == UNCHANGED <<overdue, aged, retrieving, pushing, authorizing, uriOf,
                      exchanging, cancelling, reason>>

JobSelect(j) ==
    /\ job[j] = "idle"
    /\ job' = [job EXCEPT ![j] = IF ExpirableOffer(session, overdue) THEN "expire" ELSE "retain"]
    /\ UNCHANGED session
    /\ NotJob

\* executeFrom(OPEN_SESSION_STATUSES, expired): it does not look again at whether
\* the offer was redeemed.
JobExpire(j) ==
    /\ job[j] = "expire"
    /\ session' = IF InStatus(session, Open) THEN [session EXCEPT !.status = "expired"]
                  ELSE session
    /\ job' = [job EXCEPT ![j] = "retain"]
    /\ NotJob

JobRetain(j) ==
    /\ job[j] = "retain"
    /\ IF aged
       THEN IF CleanupMode = "anonymize"
            THEN Write([session EXCEPT !.offer = FALSE, !.auth = None])
            ELSE session' = [session EXCEPT !.stored = FALSE]
       ELSE UNCHANGED session
    /\ job' = [job EXCEPT ![j] = "idle"]
    /\ NotJob

JobStep(j) == JobSelect(j) \/ JobExpire(j) \/ JobRetain(j)

PassExpiry ==
    /\ ~overdue
    /\ overdue' = TRUE
    /\ UNCHANGED <<session, aged, retrieving, pushing, authorizing, uriOf,
                   exchanging, cancelling, reason, job>>

PassRetention ==
    /\ ~aged
    /\ aged' = TRUE
    /\ UNCHANGED <<session, overdue, retrieving, pushing, authorizing, uriOf,
                   exchanging, cancelling, reason, job>>

Next ==
    \/ \E r \in Retrievals : Retrieve(r)
    \/ \E p \in Pushes : Push(p)
    \/ \E a \in Authorizations : Authorize(a)
    \/ \E t \in Exchanges : Exchange(t)
    \/ \E c \in Cancels : Cancel(c)
    \/ \E j \in Jobs : JobStep(j)
    \/ FirstCredential \/ DeleteSession \/ PassExpiry \/ PassRetention

Spec == Init /\ [][Next]_vars

\* As in PresentationFlow: the interval of the maintenance job keeps firing.
FairSpec == Spec /\ \A j \in Jobs : WF_vars(JobStep(j))
-----------------------------------------------------------------------------
(***************************************************************************)
(* Properties.                                                             *)
(***************************************************************************)
Rows == [stored : BOOLEAN, status : Status, consumed : BOOLEAN, flow : Flows,
         offer : BOOLEAN,
         uri : Pushes \cup {None}, auth : Pushes \cup {None},
         code : Codes \cup {None}, fails : Nat,
         refresh : Exchanges \cup {None}]

TypeOK ==
    /\ session \in Rows
    /\ overdue \in BOOLEAN
    /\ aged \in BOOLEAN
    /\ retrieving \in [Retrievals -> RetrievalPC]
    /\ pushing \in [Pushes -> PushPC]
    /\ authorizing \in [Authorizations -> AuthorizePC]
    /\ uriOf \in [Authorizations -> Pushes \cup {None}]
    /\ exchanging \in [Exchanges -> ExchangePC]
    /\ cancelling \in [Cancels -> CancelPC]
    /\ reason \in [Cancels -> Terminal \cup {"redeemed", None}]
    /\ job \in [Jobs -> JobPC]

\* The single-use values of sessions.md: one retrieval of the offer, one code for
\* a request_uri, one token response for the offer, whatever requests race.
OneRetrieval ==
    \A r1, r2 \in Retrievals :
        retrieving[r1] = "done" /\ retrieving[r2] = "done" => r1 = r2
OneCodePerRequestUri ==
    \A a1, a2 \in Authorizations :
        /\ authorizing[a1] \in {"store", "done"} /\ authorizing[a2] \in {"store", "done"}
        /\ uriOf[a1] = uriOf[a2]
        => a1 = a2
OneExchange ==
    \A t1, t2 \in Exchanges :
        exchanging[t1] = "granted" /\ exchanging[t2] = "granted" => t1 = t2
SingleUse == OneRetrieval /\ OneCodePerRequestUri /\ OneExchange

\* A token response and the end of the offer exclude each other: whoever was told
\* "cancelled" can rely on no wallet having tokens, and a wallet with tokens is
\* neither cancelled nor expired later (sessions.md: "Redeemed offers do not
\* expire", "when they race exactly one wins").
GrantExcludesWithdrawal ==
    (\E t \in Exchanges : exchanging[t] = "granted") =>
        /\ \A c \in Cancels : cancelling[c] # "cancelled"
        /\ session.status \notin {"cancelled", "expired"}

\* A refused cancellation names the true reason although it reads the row again:
\* "redeemed" only when a wallet holds tokens, "expired" only past the expiry.
CancelReasonTrue ==
    \A c \in Cancels :
        /\ reason[c] = "redeemed" => \E t \in Exchanges : exchanging[t] = "granted"
        /\ reason[c] = "expired" => overdue

\* After txCodeMaxAttempts failed attempts "the pre-authorized code is
\* invalidated, and even the correct code is rejected" (credential-offers.md).
LockedCodeRedeemsNothing ==
    [][session.stored /\ Locked(session) => session'.consumed = session.consumed]_vars

\* The offer keeps the session contract up to and after its redemption.
Contract == INSTANCE SessionContract WITH
    Requests <- Exchanges,
    status <- IF session.stored THEN session.status ELSE "deleted",
    redeemedBy <- IF session.stored THEN session.refresh ELSE None

ImplementsContract == Contract!Spec

\* An overdue offer that nobody redeemed ends.
OverdueOffersEnd ==
    overdue ~> (~session.stored \/ session.consumed \/ session.status \in Terminal)
=============================================================================
