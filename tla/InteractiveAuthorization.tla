---------------------- MODULE InteractiveAuthorization ----------------------
(***************************************************************************)
(* The Interactive Authorization Endpoint: auth sessions of one offer, in  *)
(* each of which a wallet works through the actions of the credential      *)
(* configuration (iaeActions), a presentation or a web page at a time, and *)
(* receives an authorization code after the last one.                      *)
(*                                                                         *)
(* A follow-up request works on the row it loaded: what it writes is       *)
(* computed from that copy, and none of its updates has a condition.  The  *)
(* session of the verifier has the id of the auth session, so all of its   *)
(* presentation steps share one row (PresentationFlow is the life of such  *)
(* a row).  Each action is what a handler does up to and including its     *)
(* next database statement.  A code is named by its auth session and by    *)
(* how many that session had before.                                       *)
(***************************************************************************)
EXTENDS SessionStore, Naturals, Sequences, FiniteSets

CONSTANTS Sessions,  \* auth sessions that name the offer as issuer_state
          FollowUps, \* follow-up requests that may be handled at once
          Backends,  \* calls of complete-web-auth that may be handled at once
          Exchanges, \* token requests
          Plans      \* iaeActions each may have: sequences of kinds of interactions

Kinds == {"openid4vp_presentation", "redirect_to_web"}

ASSUME PlansGiven ==
    /\ \A s \in Sessions : \A p \in Plans[s] : p \in Seq(Kinds) /\ p # <<>>
    /\ None \notin Sessions \X Nat /\ None \notin Sessions
    /\ None \notin {"active", "completed"}

VARIABLES
    plan,       \* iaeActions, as each auth session stored them
    auth,       \* the row of each auth session
    expired,    \* whether now is past the expiresAt of each auth session
    verifier,   \* the verifier session of each: the step it asks for, its status
    offer,      \* the issuance session
    following,  \* each follow-up: where it is, its auth session and step, its code
    completing, \* where each complete-web-auth is: the auth session it will mark
    exchanging, \* each token request: where it is, and its code
    issued,     \* how many codes each auth session had
    answered,   \* the codes wallets received
    done        \* the steps of each auth session that were verified, or finished
                \* by the user on the web page

vars == <<plan, auth, expired, verifier, offer, following, completing, exchanging,
          issued, answered, done>>

AuthStatus == {"pending", "presentation_received", "web_auth_completed",
               "all_steps_completed", "code_issued"}
FollowPC == {"idle", "respond", "verify", "forward", "advance", "ask", "issue", "publish"}
Code == Sessions \X Nat

Idle == [at |-> "idle", session |-> None, step |-> 0, code |-> None]

\* A token request that found this code good, or none yet.
Presents(c) == [at |-> IF c = None THEN "idle" ELSE "redeem", code |-> c]

Init ==
    /\ plan \in {p \in [Sessions -> UNION {Plans[s] : s \in Sessions}] :
                   \A s \in Sessions : p[s] \in Plans[s]}
    /\ auth = [s \in Sessions |-> [stored |-> FALSE, step |-> 1, status |-> "pending",
                                   code |-> None]]
    /\ expired = [s \in Sessions |-> FALSE]
    /\ verifier = [s \in Sessions |-> [step |-> 0, status |-> None]]
    /\ offer = [stored |-> TRUE, status |-> "active", consumed |-> FALSE, code |-> None,
                challenge |-> None, credentials |-> None]
    /\ following = [f \in FollowUps |-> Idle]
    /\ completing = [b \in Backends |-> None]
    /\ exchanging = [t \in Exchanges |-> Presents(None)]
    /\ issued = [s \in Sessions |-> 0]
    /\ answered = {}
    /\ done = [s \in Sessions |-> {}]

\* Updates by id: they change nothing once the row is gone.
WriteAuth(s, row) == auth' = IF auth[s].stored THEN [auth EXCEPT ![s] = row] ELSE auth
WriteOffer(row) == offer' = IF offer.stored THEN row ELSE offer

\* currentInteraction: what the step of the row asks for.
Interaction(s, i) == plan[s][i]

MutantAsks(s, i) == [step |-> i, status |-> verifier[s].status]  \* never active

\* CreateSession.execute and createRequest with the id of the auth session: the
\* first presentation step inserts the row, a later one only changes what it asks.
Asks(s, i) == [step |-> i,
               status |-> IF verifier[s].step = 0 THEN "active" ELSE verifier[s].status]

\* executeIaeAction.  (For a web page it stores a request_uri nothing reads.)
Ask(s, i) ==
    verifier' = IF Interaction(s, i) = "openid4vp_presentation"
                THEN [verifier EXCEPT ![s] = Asks(s, i)] ELSE verifier
-----------------------------------------------------------------------------
(***************************************************************************)
(* The initial request, and what the user and the wallet do elsewhere.     *)
(***************************************************************************)

\* handleInitialRequest: nobody knows the auth session before it is answered.
Start(s) ==
    /\ ~auth[s].stored /\ ~expired[s]
    /\ offer.stored /\ Usable(offer, FALSE)
    /\ auth' = [auth EXCEPT ![s].stored = TRUE]
    /\ Ask(s, 1)
    /\ UNCHANGED <<plan, expired, offer, following, completing, exchanging, issued,
                   answered, done>>

\* getResponse: only a session that is still active is completed, by a response to
\* the request it asks now, or failed.
Completes(s) == /\ verifier[s].status = "active"
                /\ verifier' = [verifier EXCEPT ![s].status = "completed"]
                /\ done' = [done EXCEPT ![s] = @ \cup {verifier[s].step}]
Fails(s) == /\ verifier[s].status = "active"
            /\ verifier' = [verifier EXCEPT ![s].status = "failed"]
            /\ UNCHANGED done

\* The wallet posts to the response_uri, or the verifier session expires.
Post(s) ==
    /\ Completes(s) \/ Fails(s)
    /\ UNCHANGED <<plan, auth, expired, offer, following, completing, exchanging,
                   issued, answered>>

\* The user finishes the web page of the current step.
Finish(s) ==
    /\ auth[s].stored /\ Interaction(s, auth[s].step) = "redirect_to_web"
    /\ done' = [done EXCEPT ![s] = @ \cup {auth[s].step}]
    /\ UNCHANGED <<plan, auth, expired, verifier, offer, following, completing,
                   exchanging, issued, answered>>

Pages(s) == {i \in done[s] : Interaction(s, i) = "redirect_to_web"}

\* completeWebAuthorization of a row it loaded.  The backend calls it once the user
\* finished a page, and may repeat the call.
ExpectsPage(s) == Interaction(s, auth[s].step) = "redirect_to_web"

CompleteLoad(b) ==
    /\ completing[b] = None
    /\ \E s \in Sessions :
        /\ Pages(s) # {}
        /\ auth[s].stored /\ ~expired[s] /\ ExpectsPage(s)
        /\ completing' = [completing EXCEPT ![b] = s]
    /\ UNCHANGED <<plan, auth, expired, verifier, offer, following, exchanging, issued,
                   answered, done>>

CompleteSave(b) ==
    /\ completing[b] # None
    /\ LET s == completing[b]
       IN  WriteAuth(s, [auth[s] EXCEPT !.status = "web_auth_completed"])
    /\ completing' = [completing EXCEPT ![b] = None]
    /\ UNCHANGED <<plan, expired, verifier, offer, following, exchanging, issued,
                   answered, done>>
-----------------------------------------------------------------------------
(***************************************************************************)
(* A follow-up request.                                                    *)
(***************************************************************************)
NotFollow == UNCHANGED <<plan, expired, completing, exchanging>>

To(f, at) == following' = [following EXCEPT ![f].at = at]
Answer(f) == following' = [following EXCEPT ![f] = Idle]

\* handleCodeVerifier: the row it loaded says that the backend completed the page.
PageDone(s) == auth[s].status = "web_auth_completed"

\* validateAuthSession, and that the auth session was not used.
Fresh(s) == auth[s].stored /\ ~expired[s] /\ auth[s].code = None

\* handleFollowUpRequest up to the first update: every other request is refused.  A
\* completed verifier session stays completed, so the first look at it is part of
\* this step.
FollowLoad(f) ==
    /\ following[f].at = "idle"
    /\ \E s \in Sessions :
        /\ Fresh(s)
        /\ LET pc == IF Interaction(s, auth[s].step) = "redirect_to_web" THEN "advance"
                     ELSE IF verifier[s].status = "completed" THEN "verify" ELSE "respond"
           IN  /\ pc = "advance" => PageDone(s)
               /\ following' = [following EXCEPT ![f] =
                      [at |-> pc, session |-> s, step |-> auth[s].step, code |-> None]]
    /\ UNCHANGED <<auth, verifier, offer, issued, answered, done>>
    /\ NotFollow

\* A request that finds its auth session expired deletes it.
FollowExpired(s) ==
    /\ auth[s].stored /\ expired[s]
    /\ auth' = [auth EXCEPT ![s].stored = FALSE]
    /\ UNCHANGED <<plan, expired, verifier, offer, following, completing, exchanging,
                   issued, answered, done>>

\* The response of the request goes through the verifier, which may refuse it.
FollowRespond(f) ==
    /\ following[f].at = "respond"
    /\ LET s == following[f].session
       IN  Completes(s) \/ Fails(s) \/ (UNCHANGED <<verifier, done>>)
    /\ To(f, "verify")
    /\ UNCHANGED <<auth, offer, issued, answered>>
    /\ NotFollow

MutantVerified(s) == verifier[s].step # 0  \* a response that was rejected counts

\* handleOpenid4vpResponse looks at the session of the verifier again.
Verified(s) == verifier[s].status = "completed"

FollowVerify(f) ==
    /\ following[f].at = "verify"
    /\ LET s == following[f].session
       IN  IF Verified(s)
           THEN /\ WriteAuth(s, [auth[s] EXCEPT !.status = "presentation_received"])
                /\ To(f, "forward")
           ELSE Answer(f) /\ UNCHANGED auth
    /\ UNCHANGED <<verifier, offer, issued, answered, done>>
    /\ NotFollow

MutantForwarded(s) == [offer EXCEPT !.code = None]  \* drops what was verified

\* The credentials of the verifier session are written to the issuance session.
Forwarded(s) == [offer EXCEPT !.credentials = s]

FollowForward(f) ==
    /\ following[f].at = "forward"
    /\ WriteOffer(Forwarded(following[f].session))
    /\ To(f, "advance")
    /\ UNCHANGED <<auth, verifier, issued, answered, done>>
    /\ NotFollow

\* advanceOrComplete, with the step of the copy.
FollowAdvance(f) ==
    /\ following[f].at = "advance"
    /\ LET s == following[f].session
           i == following[f].step
       IN  IF i < Len(plan[s])
           THEN /\ WriteAuth(s, [auth[s] EXCEPT !.step = i + 1, !.status = "pending"])
                /\ To(f, "ask")
           ELSE /\ WriteAuth(s, [auth[s] EXCEPT !.status = "all_steps_completed"])
                /\ To(f, "issue")
    /\ UNCHANGED <<verifier, offer, issued, answered, done>>
    /\ NotFollow

FollowAsk(f) ==
    /\ following[f].at = "ask"
    /\ Ask(following[f].session, following[f].step + 1)
    /\ Answer(f)
    /\ UNCHANGED <<auth, offer, issued, answered, done>>
    /\ NotFollow

\* issueAuthorizationCode: the code in the row of the auth session, ...
FollowIssue(f) ==
    /\ following[f].at = "issue"
    /\ LET s == following[f].session
           c == <<s, issued[s]>>
       IN  /\ WriteAuth(s, [auth[s] EXCEPT !.code = c, !.status = "code_issued"])
           /\ issued' = [issued EXCEPT ![s] = @ + 1]
           /\ following' = [following EXCEPT ![f].at = "publish", ![f].code = c]
    /\ UNCHANGED <<verifier, offer, answered, done>>
    /\ NotFollow

\* ... and in the issuance session, with the challenge of the auth session; when that
\* fails, the wallet receives the code all the same.
FollowPublish(f) ==
    /\ following[f].at = "publish"
    /\ \/ WriteOffer([offer EXCEPT !.code = following[f].code,
                                   !.challenge = following[f].session])
       \/ UNCHANGED offer
    /\ answered' = answered \cup {following[f].code}
    /\ Answer(f)
    /\ UNCHANGED <<auth, verifier, issued, done>>
    /\ NotFollow

\* The instance stops, or a statement fails: the wallet may send the request again.
FollowAbort(f) ==
    /\ following[f].at # "idle"
    /\ Answer(f)
    /\ UNCHANGED <<auth, verifier, offer, issued, answered, done>>
    /\ NotFollow

FollowUp(f) == \/ FollowLoad(f) \/ FollowRespond(f) \/ FollowVerify(f) \/ FollowForward(f)
               \/ FollowAdvance(f) \/ FollowAsk(f) \/ FollowIssue(f) \/ FollowPublish(f)
               \/ FollowAbort(f)
-----------------------------------------------------------------------------
(***************************************************************************)
(* The token endpoint (OfferFlow), the operator and the clock.             *)
(***************************************************************************)
NotExchange == UNCHANGED <<plan, auth, expired, verifier, following, completing, issued,
                           answered, done>>

\* The code is the one of the row, and its verifier matches the challenge there.
Matches(c) == offer.code = c /\ offer.challenge = c[1]

ExchangeLoad(t) ==
    /\ exchanging[t].at = "idle"
    /\ \E c \in answered :
        /\ offer.stored /\ Matches(c) /\ ~offer.consumed /\ Usable(offer, FALSE)
        /\ exchanging' = [exchanging EXCEPT ![t] = Presents(c)]
    /\ UNCHANGED offer
    /\ NotExchange

ExchangeRedeem(t) ==
    /\ exchanging[t].at = "redeem"
    /\ IF Unconsumed(offer, FALSE)
       THEN /\ offer' = [offer EXCEPT !.consumed = TRUE]
            /\ exchanging' = [exchanging EXCEPT ![t].at = "granted"]
       ELSE /\ exchanging' = [exchanging EXCEPT ![t] = Presents(None)]
            /\ UNCHANGED offer
    /\ NotExchange

Exchange(t) == ExchangeLoad(t) \/ ExchangeRedeem(t)

\* A cancellation or the expiry ends the offer.
EndOffer ==
    /\ Unconsumed(offer, FALSE)
    /\ offer' = [offer EXCEPT !.status = "cancelled"]
    /\ UNCHANGED exchanging
    /\ NotExchange

PassExpiry(s) ==
    /\ auth[s].stored /\ ~expired[s]
    /\ expired' = [expired EXCEPT ![s] = TRUE]
    /\ UNCHANGED <<plan, auth, verifier, offer, following, completing, exchanging,
                   issued, answered, done>>

Next ==
    \/ \E s \in Sessions : \/ Start(s) \/ Post(s) \/ Finish(s) \/ FollowExpired(s)
                           \/ PassExpiry(s)
    \/ \E f \in FollowUps : FollowUp(f)
    \/ \E b \in Backends : CompleteLoad(b) \/ CompleteSave(b)
    \/ \E t \in Exchanges : Exchange(t)
    \/ EndOffer

Spec == Init /\ [][Next]_vars
-----------------------------------------------------------------------------
(***************************************************************************)
(* Properties.                                                             *)
(***************************************************************************)

\* Every variable holds values of its kind; a verifier session without a step was
\* never created.
TypeOK ==
    /\ \A s \in Sessions :
        /\ plan[s] \in Plans[s]
        /\ auth[s].stored \in BOOLEAN /\ auth[s].step \in 1..Len(plan[s])
        /\ auth[s].status \in AuthStatus /\ auth[s].code \in Code \cup {None}
        /\ verifier[s].step \in 0..Len(plan[s])
        /\ verifier[s].status \in
             IF verifier[s].step = 0 THEN {None} ELSE {"active", "completed", "failed"}
        /\ done[s] \subseteq 1..Len(plan[s])
    /\ expired \in [Sessions -> BOOLEAN] /\ issued \in [Sessions -> Nat]
    /\ offer.status \in Status /\ offer.code \in Code \cup {None}
    /\ offer.challenge \in Sessions \cup {None} /\ offer.credentials \in Sessions \cup {None}
    /\ \A f \in FollowUps : /\ following[f].at \in FollowPC
                            /\ following[f].code \in Code \cup {None}
    /\ \A b \in Backends : completing[b] \in Sessions \cup {None}
    /\ answered \subseteq Code

\* Steps that no earlier step could stand for: the first one of each kind.
FirstOfKind(s) ==
    {i \in 1..Len(plan[s]) : \A j \in 1..(i - 1) : Interaction(s, j) # Interaction(s, i)}

Granted == {exchanging[t].code : t \in {u \in Exchanges : exchanging[u].at = "granted"}}

\* Requests that advance a session with a stale copy, late calls of the backend and
\* aborted requests never take a wallet past a page the user did not finish or a
\* presentation that was not verified, if the plan has one step of its kind: at each
\* step the earlier ones are done, and when there is a code, all of them.
StepsBeforeCode ==
    \A s \in Sessions :
        LET passed == IF issued[s] > 0 THEN 1..Len(plan[s]) ELSE 1..(auth[s].step - 1)
        IN  auth[s].stored \/ issued[s] > 0 => FirstOfKind(s) \cap passed \subseteq done[s]

\* Two follow-up requests may each receive a code of one auth session, and other auth
\* sessions of the offer write over it; still at most one token request is granted
\* the offer, with a code that a wallet received from an auth session that had it.
RedeemedOnce ==
    /\ Cardinality({t \in Exchanges : exchanging[t].at = "granted"}) <= 1
    /\ Granted # {} <=> offer.consumed
    /\ \A c \in Granted : c \in answered /\ c[2] < issued[c[1]]

Presentations(s) ==
    {i \in 1..Len(plan[s]) : Interaction(s, i) = "openid4vp_presentation"}

\* When tokens are granted for a plan with a presentation, the issuance session has
\* credentials for the attribute providers, and the verifier verified them: for the
\* auth session of the code or, as requests of several auth sessions write them over
\* one another, for another one of the offer.
CredentialsBeforeTokens ==
    \A c \in Granted : Presentations(c[1]) # {} =>
        \E s \in Sessions : offer.credentials = s /\ Presentations(s) \cap done[s] # {}

\* "The verified credentials are passed to the attribute provider when the credential
\* is issued" (issuance.md, of a presentation step): those of the auth session that
\* gave the code.  The code does not keep this for two auth sessions of one offer, the
\* second of which presents after the first one got its code.
OwnCredentials ==
    \A c \in Granted : Presentations(c[1]) # {} => offer.credentials = c[1]

\* Every step of the plan is done when there is a code: "the wallet works through the
\* actions in order and receives an authorization code after the last one".
EveryStepDone ==
    \A s \in Sessions : issued[s] > 0 => done[s] = 1..Len(plan[s])

\* An auth session yields a single authorization code.
OneCode == \A s \in Sessions : issued[s] <= 1
=============================================================================
