------------------------ MODULE AuthorizationServers ------------------------
(***************************************************************************)
(* The chained authorization server (a login at an upstream OpenID         *)
(* provider) and the OID4VP one (a presentation), which keep their         *)
(* authorizations in one table.  All authorizations here name the same     *)
(* offer (issuer_state).  A handler loads the row, with a condition on its *)
(* status, and later saves the whole row as it has changed it: save writes *)
(* over what others wrote meanwhile and inserts a row that was deleted.    *)
(* Random values are named by the handler that generates them: the         *)
(* upstream state by the authorization, the code by the callback, the      *)
(* refresh token by the exchange.  A login is named by its callback, a     *)
(* presentation by its row (the id of its verifier session).               *)
(***************************************************************************)
EXTENDS Naturals

CONSTANTS Pushes,      \* PAR requests: each creates a row
          Authorizations, \* GET .../authorize
          Callbacks,   \* GET .../callback and .../vp-callback
          Exchanges,   \* POST .../token, of both grants
          Credentials, \* credential requests with a chained token
          SessionLife, CodeLife, AccessLife, RefreshLife,
          LastRequest, \* bound: rows are written until this time
          Horizon,     \* bound of the clock
          None

Handlers == Authorizations \cup Callbacks \cup Exchanges

ASSUME NamesDiffer ==
    /\ Authorizations \cap (Callbacks \cup Exchanges) = {}
    /\ Callbacks \cap Exchanges = {} /\ Pushes \cap Callbacks = {}
    /\ None \notin Handlers \cup Pushes \cup {"chained", "oid4vp"}
ASSUME TimesGiven ==
    {SessionLife, CodeLife, AccessLife, RefreshLife, LastRequest, Horizon} \subseteq Nat

VARIABLES
    rows,    \* chained_as_session, one per push
    pushed,  \* the pushes that were answered
    claims,  \* the presentation on the issuance session
    clock,
    at,      \* where each handler is
    of,      \* the row it is about
    held,    \* that row as the handler has loaded it
    token,   \* the response of each exchange
    served   \* the identity each credential request got

vars == <<rows, pushed, claims, clock, at, of, held, token, served>>

Status == {"authorize", "callback", "authorized", "issued", "expired"}
NoRow == [stored |-> FALSE, server |-> None, status |-> "expired", state |-> None,
          login |-> None, code |-> None, codeExpires |-> 0,
          refresh |-> None, refreshExpires |-> 0, expires |-> 0]
NoToken == [via |-> None, identity |-> None, time |-> 0]

Init ==
    /\ rows = [p \in Pushes |-> NoRow]
    /\ pushed = {}
    /\ claims = None
    /\ clock = 0
    /\ at = [h \in Handlers |-> "idle"]
    /\ of = [h \in Handlers |-> None]
    /\ held = [h \in Handlers |-> NoRow]
    /\ token = [t \in Exchanges |-> NoToken]
    /\ served = [k \in Credentials |-> <<None, None>>]

Larger(a, b) == IF a > b THEN a ELSE b

\* handlePar: the offer is redeemable, a refused request leaves nothing.
Par(p) ==
    /\ p \notin pushed /\ clock <= LastRequest
    /\ \E s \in {"chained", "oid4vp"} :
          rows' = [rows EXCEPT ![p] = [NoRow EXCEPT
                     !.stored = TRUE, !.server = s, !.status = "authorize",
                     !.expires = clock + SessionLife]]
    /\ pushed' = pushed \cup {p}
    /\ UNCHANGED <<claims, clock, at, of, held, token, served>>

\* A handler starts: it loads the row of p and goes to a place.
Load(h, p, place) ==
    /\ at[h] = "idle" /\ clock <= LastRequest /\ rows[p].stored
    /\ at' = [at EXCEPT ![h] = place]
    /\ of' = [of EXCEPT ![h] = p]
    /\ held' = [held EXCEPT ![h] = rows[p]]
    /\ UNCHANGED <<rows, pushed, claims, clock, served>>

\* save: the whole row, whatever became of it.
Save(h, row) ==
    /\ clock <= LastRequest
    /\ rows' = [rows EXCEPT ![of[h]] = row]
    /\ held' = [held EXCEPT ![h] = NoRow]
    /\ UNCHANGED <<pushed, claims, clock, of, served>>

Go(h, place) == at' = [at EXCEPT ![h] = place]

\* What a handler saves that found the session or the code expired, or was told
\* that the login failed.
Expire(h) ==
    /\ at[h] = "expire"
    /\ Save(h, [held[h] EXCEPT !.status = "expired"])
    /\ Go(h, "refused")
    /\ UNCHANGED token
-----------------------------------------------------------------------------
\* handleAuthorize with the request_uri of a push.
AuthorizeLoad(a) ==
    /\ \E p \in pushed :
          /\ rows[p].status = "authorize"
          /\ Load(a, p, IF rows[p].expires < clock THEN "expire" ELSE "save")
    /\ UNCHANGED token

\* After the discovery of the upstream provider: the state of the redirect, or the
\* verifier session of the OID4VP server.
AuthorizeSave(a) ==
    /\ at[a] = "save"
    /\ Save(a, [held[a] EXCEPT !.status = "callback",
                   !.state = IF held[a].server = "chained" THEN a ELSE None])
    /\ Go(a, "done")
    /\ UNCHANGED token

Authorize(a) == AuthorizeLoad(a) \/ AuthorizeSave(a)

\* The row that a user agent comes back for: by the state it brings along, or by
\* the id in the callback URL of the verifier session.
Returns(a, p) ==
    /\ at[a] = "done" /\ of[a] = p /\ rows[p].stored
    /\ rows[p].server = "chained" => rows[p].state = a

\* handleUpstreamCallback and handleVerifierCallback.
CallbackLoad(c) ==
    /\ \E a \in Authorizations, p \in pushed :
          /\ Returns(a, p)
          /\ \/ \* a login, or a completed presentation
                /\ rows[p].status = "callback"
                /\ Load(c, p, IF rows[p].server = "oid4vp" THEN "publish" ELSE "save")
             \/ \* an error; the chained server does not look at the status then
                /\ rows[p].server = "chained" \/ rows[p].status = "callback"
                /\ Load(c, p, "expire")
    /\ UNCHANGED token

\* The presentation is copied to the issuance session.
CallbackPublish(c) ==
    /\ at[c] = "publish"
    /\ claims' = of[c]
    /\ Go(c, "save")
    /\ UNCHANGED <<rows, pushed, clock, of, held, token, served>>

CallbackSave(c) ==
    /\ at[c] = "save"
    /\ Save(c, [held[c] EXCEPT !.status = "authorized", !.code = c,
                   !.codeExpires = clock + CodeLife,
                   !.login = IF held[c].server = "chained" THEN c ELSE None])
    /\ Go(c, "done")
    /\ UNCHANGED token

Callback(c) == CallbackLoad(c) \/ CallbackPublish(c) \/ CallbackSave(c)
-----------------------------------------------------------------------------
MutantIdentity(row) == \* by issuer_state, as for the credential request
    IF \E p \in pushed : rows[p].login \notin {row.login, None}
    THEN CHOOSE l \in Callbacks : l # row.login /\ \E p \in pushed : rows[p].login = l
    ELSE row.login

\* The identity in the token is that of the loaded row; the OID4VP server reads the
\* presentation from the issuance session in a step of its own.
Identity(row) == row.login

\* findAuthorizedByCode
CodeUnused(row, c) == row.code = c /\ row.status = "authorized"

\* resolveSessionForTokenRequest and assertTokenRequestSessionValid, for a wallet
\* that was given the code or the refresh token.
ExchangeLoad(t) ==
    \E p \in pushed :
       LET found(v) ==
             /\ Load(t, p, IF rows[p].server = "oid4vp" THEN "read" ELSE "save")
             /\ token' = [token EXCEPT ![t] = [@ EXCEPT !.via = v, !.identity = Identity(rows[p])]]
       IN  \/ \E c \in Callbacks :
                 /\ at[c] = "done" /\ CodeUnused(rows[p], c)
                 /\ \/ rows[p].codeExpires >= clock /\ found(c)
                    \/ /\ rows[p].codeExpires < clock
                       /\ Load(t, p, "expire") /\ UNCHANGED token
           \/ \E r \in Exchanges :
                 /\ at[r] = "done" /\ rows[p].refresh = r
                 /\ rows[p].refreshExpires >= clock
                 /\ found(r)

ExchangeRead(t) ==
    /\ at[t] = "read"
    /\ token' = [token EXCEPT ![t].identity = claims]
    /\ Go(t, "save")
    /\ UNCHANGED <<rows, pushed, claims, clock, of, held, served>>

MutantRefreshUntil(t) == clock + RefreshLife \* refreshing extends it

\* issueRefreshTokenIfEnabled: a refresh keeps the expiry.
RefreshUntil(t) ==
    IF token[t].via \in Exchanges THEN held[t].refreshExpires ELSE clock + RefreshLife

MutantRetainUntil(t) == held[t].expires \* not retained

\* retainSessionForIssuedTokens
RetainUntil(t) == Larger(held[t].expires, Larger(clock + AccessLife, RefreshUntil(t)))

ExchangeSave(t) ==
    /\ at[t] = "save"
    /\ Save(t, [held[t] EXCEPT
                   !.status = "issued", !.refresh = t,
                   !.refreshExpires = RefreshUntil(t), !.expires = RetainUntil(t)])
    /\ token' = [token EXCEPT ![t].time = clock]
    /\ Go(t, "done")

Exchange(t) == ExchangeLoad(t) \/ ExchangeRead(t) \/ ExchangeSave(t)

Granted(t) == at[t] = "done"
OfChained(t) == token[t].identity \notin Pushes

\* getUpstreamIdentityByIssuerState: any row of the offer; if it has no login, or
\* there is none, the token names the user.
CredentialIdentity(k) ==
    /\ served[k][1] = None
    /\ \E t \in Exchanges :
          /\ Granted(t) /\ OfChained(t) /\ clock <= token[t].time + AccessLife
          /\ \E i \in {rows[p].login : p \in {q \in pushed : rows[q].stored}} \cup
                      (IF \A p \in pushed : ~rows[p].stored THEN {None} ELSE {}) :
                served' = [served EXCEPT ![k] =
                              <<t, IF i = None THEN token[t].identity ELSE i>>]
    /\ UNCHANGED <<rows, pushed, claims, clock, at, of, held, token>>
-----------------------------------------------------------------------------
\* deleteExpired
Forgettable(row) ==
    /\ row.expires < clock
    /\ row.refresh = None \/ row.refreshExpires < clock

Cleanup ==
    /\ \E p \in pushed : rows[p].stored /\ Forgettable(rows[p])
    /\ rows' = [p \in Pushes |->
                   IF rows[p].stored /\ Forgettable(rows[p]) THEN NoRow ELSE rows[p]]
    /\ UNCHANGED <<pushed, claims, clock, at, of, held, token, served>>

Tick ==
    /\ clock < Horizon
    /\ clock' = clock + 1
    /\ UNCHANGED <<rows, pushed, claims, at, of, held, token, served>>

Next ==
    \/ \E p \in Pushes : Par(p)
    \/ \E h \in Handlers : Expire(h)
    \/ \E a \in Authorizations : Authorize(a)
    \/ \E c \in Callbacks : Callback(c)
    \/ \E t \in Exchanges : Exchange(t)
    \/ \E k \in Credentials : CredentialIdentity(k)
    \/ Cleanup \/ Tick

Spec == Init /\ [][Next]_vars
-----------------------------------------------------------------------------
(***************************************************************************)
(* Properties.                                                             *)
(***************************************************************************)
Times == 0 .. LastRequest + Larger(SessionLife, Larger(AccessLife, RefreshLife))
Row == [stored : BOOLEAN, server : {"chained", "oid4vp", None}, status : Status,
        state : Authorizations \cup {None}, login : Callbacks \cup {None},
        code : Callbacks \cup {None}, codeExpires : Nat,
        refresh : Exchanges \cup {None}, refreshExpires : Times, expires : Times]
Identities == Callbacks \cup Pushes \cup {None}

TypeOK ==
    /\ rows \in [Pushes -> Row]
    /\ pushed \subseteq Pushes
    /\ claims \in Pushes \cup {None}
    /\ clock \in Nat
    /\ at \in [Handlers -> {"idle", "read", "publish", "save", "expire", "done", "refused"}]
    /\ of \in [Handlers -> Pushes \cup {None}]
    /\ held \in [Handlers -> Row]
    /\ token \in [Exchanges -> [via : Callbacks \cup Exchanges \cup {None},
                                identity : Identities, time : Nat]]
    /\ served \in [Credentials -> (Exchanges \cup {None}) \X Identities]

\* "Refreshing never extends the authorization ... its original expiry stays"
\* (security-model.md): whatever rows are written over or come back, the refresh
\* token in a row expires one lifetime after a code was exchanged for that row.
RefreshNeverExtends ==
    \A p \in Pushes : rows[p].refresh # None =>
        \E s \in Exchanges :
            /\ Granted(s) /\ of[s] = p /\ token[s].via \in Callbacks
            /\ rows[p].refreshExpires = token[s].time + RefreshLife

\* A token of the chained server names the user of the very login that gave the
\* redeemed code; a refreshed one names the user of the token it was refreshed for.
TokenNamesItsLogin ==
    \A t \in Exchanges : Granted(t) /\ OfChained(t) =>
        token[t].identity = IF token[t].via \in Callbacks THEN token[t].via
                            ELSE token[token[t].via].identity

\* retainSessionForIssuedTokens: "Keep the session ... until the tokens issued for it
\* expire".  The cleanup deletes a row only after the access token and the refresh
\* token of the response it was last saved with are over.
KeptForItsTokens ==
    [][\A p \in Pushes, t \in Exchanges :
          /\ rows[p].stored /\ rows[p].refresh = t /\ ~rows'[p].stored
          => /\ clock > token[t].time + AccessLife
             /\ \E s \in Exchanges : /\ Granted(s) /\ of[s] = p
                                     /\ clock > token[s].time + RefreshLife]_vars

\* "single use" (security-model.md), "Codes work once" (issuance.md).
CodesWorkOnce ==
    \A s, t \in Exchanges :
        /\ Granted(s) /\ Granted(t) /\ token[s].via = token[t].via
        /\ token[s].via \in Callbacks
        => s = t

\* The identity passed to attribute providers "always describes the access token
\* that the wallet presented at the credential endpoint", for the chained server the
\* upstream user (claims.md), at least while the row of that token has its login.
ServedTokensIdentity ==
    \A k \in Credentials, t \in Exchanges :
        served[k][1] = t /\ rows[of[t]].login = token[t].identity
            => served[k][2] = token[t].identity
=============================================================================
