------------------------- MODULE CredentialEndpoint -------------------------
(***************************************************************************)
(* The credential, nonce and notification endpoints of the issuer, for one *)
(* issuance session whose wallet already holds an access token.  Requests  *)
(* of one wallet run concurrently, so each works on the session it loaded  *)
(* at its start.  A credential request is named by the notification id it  *)
(* generates.                                                              *)
(*                                                                         *)
(* The access token comes from one of three authorization servers: only    *)
(* the built-in one marked the session consumed when it issued the token,  *)
(* and only tokens of an external one bind to an active session.           *)
(***************************************************************************)
EXTENDS SessionStore, FiniteSets, Naturals

CONSTANTS Requests,   \* POST /vci/credential
          Notices,    \* POST /vci/notification
          Nonces,     \* c_nonce values of the nonce endpoint
          Jobs,       \* timers running the session maintenance
          Servers,    \* authorization servers the token may come from
          Deferral,   \* whether the claim source may defer
          MaxProofs   \* key proofs of one request (batchSize)

ASSUME NoRequestIsNone == None \notin Requests \cup Notices
ASSUME KnownServers == Servers \subseteq {"built-in", "chained", "external"}
ASSUME Settings == Deferral \in BOOLEAN /\ MaxProofs \in Nat \ {0}

VARIABLES
    server,     \* the authorization server that issued the access token
    session,    \* the row; notes is the column notifications
    overdue,    \* now is past expiresAt of the offer
    nonce,      \* the nonce table
    request,    \* where each credential request is
    proofs,     \* the nonces in the key proofs of each request
    current,    \* the nonce its loop is at
    took,       \* the nonces it has consumed
    late,       \* the nonces that had expired when it captured now
    loaded,     \* the notifications it loaded
    notice,     \* where each notification request is
    about,      \* the notification id it names
    event,      \* the event it reports
    seen,       \* the notifications it loaded
    job         \* where each maintenance run is

wallet == <<request, proofs, current, took, late, loaded>>
notifier == <<notice, about, event, seen>>
vars == <<server, session, overdue, nonce, wallet, notifier, job>>

\* credential_deleted is handled like credential_failure.
Events == {"credential_accepted", "credential_failure"}
Notes == [Requests -> Events \cup {"issued", None}]
NonceState == {"unissued", "fresh", "expired", "deleted"}
RequestPC == {"idle", "claims", "find", "delete", "purge", "issue", "record",
              "fetch", "issued", "defer", "verify", "deferred",
              "no session", "invalid nonce", "failed"}
NoticePC == {"idle", "record", "status", "done", "unknown"}

Init ==
    /\ server \in Servers
    /\ session = [stored |-> TRUE, status |-> "active",
                  consumed |-> (server = "built-in"),
                  notes |-> [r \in Requests |-> None]]
    /\ overdue = FALSE
    /\ nonce = [n \in Nonces |-> "unissued"]
    /\ request = [r \in Requests |-> "idle"]
    /\ proofs = [r \in Requests |-> {}]
    /\ current = [r \in Requests |-> None]
    /\ took = [r \in Requests |-> {}]
    /\ late = [r \in Requests |-> {}]
    /\ loaded = [r \in Requests |-> session.notes]
    /\ notice = [k \in Notices |-> "idle"]
    /\ about = [k \in Notices |-> None]
    /\ event = [k \in Notices |-> None]
    /\ seen = [k \in Notices |-> session.notes]
    /\ job = [j \in Jobs |-> "idle"]

Write(row) == session' = IF session.stored THEN row ELSE session
-----------------------------------------------------------------------------
(***************************************************************************)
(* The nonce endpoint, the clock and the cleanup job every 10 minutes.     *)
(***************************************************************************)
IssueNonce(n) ==
    /\ nonce[n] = "unissued"
    /\ nonce' = [nonce EXCEPT ![n] = "fresh"]
    /\ UNCHANGED <<server, session, overdue, wallet, notifier, job>>

ExpireNonce(n) ==
    /\ nonce[n] = "fresh"
    /\ nonce' = [nonce EXCEPT ![n] = "expired"]
    /\ UNCHANGED <<server, session, overdue, wallet, notifier, job>>

CleanNonces ==
    /\ \E n \in Nonces : nonce[n] = "expired"
    /\ nonce' = [n \in Nonces |-> IF nonce[n] = "expired" THEN "deleted" ELSE nonce[n]]
    /\ UNCHANGED <<server, session, overdue, wallet, notifier, job>>

Stored(n) == nonce[n] \in {"fresh", "expired"}
-----------------------------------------------------------------------------
(***************************************************************************)
(* A credential request.                                                   *)
(***************************************************************************)
NotWallet == UNCHANGED <<server, overdue, notifier, job>>
To(r, pc) == request' = [request EXCEPT ![r] = pc]

MutantFindsSession(row) == row.stored /\ row.status = "active"  \* for every server

\* ResolveCredentialSession.execute: an external token binds to an active session
\* (bindExternalAuthorization), any other finds its session whatever its status.
FindsSession(row) == row.stored /\ (server = "external" => row.status = "active")

\* Loads the session; the claim source is asked next.
Receive(r) ==
    /\ request[r] = "idle"
    /\ IF FindsSession(session)
       THEN \E P \in SUBSET {n \in Nonces : nonce[n] # "unissued"} :
               /\ Cardinality(P) \in 1..MaxProofs
               /\ proofs' = [proofs EXCEPT ![r] = P]
               /\ loaded' = [loaded EXCEPT ![r] = session.notes]
               /\ To(r, "claims")
       ELSE To(r, "no session") /\ UNCHANGED <<proofs, loaded>>
    /\ UNCHANGED <<session, nonce, current, took, late>>
    /\ NotWallet

\* The claims are there: ValidateAndConsumeCredentialNonces.execute captures now
\* once, or the request is deferred.
StartProofs(r) ==
    /\ request[r] = "claims"
    /\ late' = [late EXCEPT ![r] = {n \in proofs[r] : nonce[n] = "expired"}]
    /\ \/ To(r, "find")
       \/ /\ Deferral
          /\ To(r, IF \E n \in Nonces : proofs[r] = {n} THEN "defer" ELSE "failed")
    /\ UNCHANGED <<session, nonce, proofs, current, took, loaded>>
    /\ NotWallet

MutantExpiredFor(r, n) == FALSE  \* forgets the lifetime

ExpiredFor(r, n) == n \in late[r]

FindNonce(r) ==
    /\ request[r] = "find"
    /\ \E n \in proofs[r] \ took[r] :
          /\ current' = [current EXCEPT ![r] = n]
          /\ To(r, CASE ~Stored(n) -> "invalid nonce"
                     [] Stored(n) /\ ExpiredFor(r, n) -> "purge"
                     [] OTHER -> "delete")
    /\ UNCHANGED <<session, nonce, proofs, took, late, loaded>>
    /\ NotWallet

MutantConsumes(n) == TRUE  \* takes the nonce without looking at the rows deleted

\* The DELETE of a nonce reports whether this request was the one to delete it.
Consumes(n) == Stored(n)

DeleteNonce(r) ==
    /\ request[r] \in {"delete", "purge"}
    /\ nonce' = [nonce EXCEPT ![current[r]] = "deleted"]
    /\ IF request[r] = "delete" /\ Consumes(current[r])
       THEN /\ took' = [took EXCEPT ![r] = @ \cup {current[r]}]
            /\ To(r, IF took'[r] = proofs[r] THEN "issue" ELSE "find")
       ELSE To(r, "invalid nonce") /\ UNCHANGED took
    /\ UNCHANGED <<session, proofs, current, late, loaded>>
    /\ NotWallet

\* Proofs are verified, claims validated and credentials signed, or the request fails.
Issue(r) ==
    /\ request[r] = "issue"
    /\ To(r, "record") \/ To(r, "failed")
    /\ UNCHANGED <<session, nonce, proofs, current, took, late, loaded>>
    /\ NotWallet

\* The notifications loaded at the start go back with the new one at their end.
RecordIssued(r) ==
    /\ request[r] = "record"
    /\ Write([session EXCEPT !.notes = [loaded[r] EXCEPT ![r] = "issued"]])
    /\ To(r, "fetch")
    /\ UNCHANGED <<nonce, proofs, current, took, late, loaded>>
    /\ NotWallet

\* executeFrom([active], fetched); the response goes out whatever it changed.
Fetch(r) ==
    /\ request[r] = "fetch"
    /\ session' = IF InStatus(session, {"active"}) THEN [session EXCEPT !.status = "fetched"]
                  ELSE session
    /\ To(r, "issued")
    /\ UNCHANGED <<nonce, proofs, current, took, late, loaded>>
    /\ NotWallet

\* createDeferredTransaction consumes the nonce of its single proof ...
DeferNonce(r) ==
    /\ request[r] = "defer"
    /\ \E n \in proofs[r] :
          /\ current' = [current EXCEPT ![r] = n]
          /\ nonce' = [nonce EXCEPT ![n] = "deleted"]
          /\ IF Consumes(n)
             THEN took' = [took EXCEPT ![r] = {n}] /\ To(r, "verify")
             ELSE To(r, "invalid nonce") /\ UNCHANGED took
    /\ UNCHANGED <<session, proofs, late, loaded>>
    /\ NotWallet

\* ... and verifies the proof before it stores the transaction.
Defer(r) ==
    /\ request[r] = "verify"
    /\ To(r, "deferred") \/ To(r, "failed")
    /\ UNCHANGED <<session, nonce, proofs, current, took, late, loaded>>
    /\ NotWallet

CredentialRequest(r) ==
    \/ Receive(r) \/ StartProofs(r) \/ FindNonce(r) \/ DeleteNonce(r)
    \/ Issue(r) \/ RecordIssued(r) \/ Fetch(r) \/ DeferNonce(r) \/ Defer(r)
-----------------------------------------------------------------------------
(***************************************************************************)
(* The wallet reports what became of a credential it received.             *)
(***************************************************************************)
NotNotifier == UNCHANGED <<server, overdue, nonce, wallet, job>>

\* handleNotification: the session of the token, in any status, must hold the id.
NoticeLoad(k) ==
    /\ notice[k] = "idle"
    /\ \E r \in Requests, e \in Events :
          /\ request[r] = "issued"
          /\ about' = [about EXCEPT ![k] = r]
          /\ event' = [event EXCEPT ![k] = e]
          /\ seen' = [seen EXCEPT ![k] = session.notes]
          /\ notice' = [notice EXCEPT ![k] =
                IF session.stored /\ session.notes[r] # None THEN "record" ELSE "unknown"]
    /\ UNCHANGED session
    /\ NotNotifier

NoticeRecord(k) ==
    /\ notice[k] = "record"
    /\ Write([session EXCEPT !.notes = [seen[k] EXCEPT ![about[k]] = event[k]]])
    /\ notice' = [notice EXCEPT ![k] = "status"]
    /\ UNCHANGED <<about, event, seen>>
    /\ NotNotifier

StatusAfter(e) == IF e = "credential_accepted" THEN "completed" ELSE "failed"

\* ChangeSessionState.execute: whatever the status was.
NoticeStatus(k) ==
    /\ notice[k] = "status"
    /\ Write([session EXCEPT !.status = StatusAfter(event[k])])
    /\ notice' = [notice EXCEPT ![k] = "done"]
    /\ UNCHANGED <<about, event, seen>>
    /\ NotNotifier

Notice(k) == NoticeLoad(k) \/ NoticeRecord(k) \/ NoticeStatus(k)
-----------------------------------------------------------------------------
(***************************************************************************)
(* The rest of the system: a cancellation, the maintenance job, deletion.  *)
(***************************************************************************)
Others == UNCHANGED <<server, nonce, wallet, notifier>>

\* The conditional update of CancelSession.execute.
Cancel ==
    /\ Unconsumed(session, overdue)
    /\ session' = [session EXCEPT !.status = "cancelled"]
    /\ UNCHANGED <<overdue, job>>
    /\ Others

\* The timer keeps firing; most runs find nothing to expire.
JobSelect(j) ==
    /\ job[j] = "idle"
    /\ job' = [job EXCEPT ![j] = IF ExpirableOffer(session, overdue) THEN "expire" ELSE "idle"]
    /\ UNCHANGED <<session, overdue>>
    /\ Others

JobExpire(j) ==
    /\ job[j] = "expire"
    /\ session' = IF InStatus(session, Open) THEN [session EXCEPT !.status = "expired"]
                  ELSE session
    /\ job' = [job EXCEPT ![j] = "idle"]
    /\ UNCHANGED overdue
    /\ Others

\* DELETE /session/{id}, or the retention job in mode "full".
DeleteSession ==
    /\ session.stored
    /\ session' = [session EXCEPT !.stored = FALSE]
    /\ UNCHANGED <<overdue, job>>
    /\ Others

PassExpiry ==
    /\ ~overdue
    /\ overdue' = TRUE
    /\ UNCHANGED <<session, job>>
    /\ Others

Next ==
    \/ \E n \in Nonces : IssueNonce(n) \/ ExpireNonce(n)
    \/ CleanNonces
    \/ \E r \in Requests : CredentialRequest(r)
    \/ \E k \in Notices : Notice(k)
    \/ \E j \in Jobs : JobSelect(j) \/ JobExpire(j)
    \/ Cancel \/ DeleteSession \/ PassExpiry

Spec == Init /\ [][Next]_vars
-----------------------------------------------------------------------------
(***************************************************************************)
(* Properties.                                                             *)
(***************************************************************************)
Rows == [stored : BOOLEAN, status : Status, consumed : BOOLEAN, notes : Notes]

TypeOK ==
    /\ server \in Servers
    /\ session \in Rows
    /\ overdue \in BOOLEAN
    /\ nonce \in [Nonces -> NonceState]
    /\ request \in [Requests -> RequestPC]
    /\ proofs \in [Requests -> SUBSET Nonces]
    /\ current \in [Requests -> Nonces \cup {None}]
    /\ took \in [Requests -> SUBSET Nonces]
    /\ late \in [Requests -> SUBSET Nonces]
    /\ loaded \in [Requests -> Notes]
    /\ notice \in [Notices -> NoticePC]
    /\ about \in [Notices -> Requests \cup {None}]
    /\ event \in [Notices -> Events \cup {None}]
    /\ seen \in [Notices -> Notes]
    /\ job \in [Jobs -> {"idle", "expire"}]

Accepted(r) == request[r] \in {"issue", "record", "fetch", "issued", "verify", "deferred"}
Holds(r) == request[r] = "issued"

\* A nonce is "single-use" (nonce.service.ts): requests that were accepted, at
\* once or deferred, share no nonce, and took every nonce of their proofs, even
\* when they interleave on proofs with several nonces.
NonceSingleUse ==
    \A r1, r2 \in Requests :
        Accepted(r1) /\ Accepted(r2) =>
            /\ took[r1] = proofs[r1]
            /\ r1 # r2 => proofs[r1] \cap proofs[r2] = {}

\* A nonce is "time-limited" (nonce.service.ts): a request whose proofs carry a
\* nonce that had expired when its check began is issued nothing, also when the
\* cleanup deletes that nonce, or another request takes it, during the check.
\* (The deferred path does not look at the lifetime.)
ExpiredNonceRefused ==
    \A r \in Requests :
        request[r] \in {"issue", "record", "fetch", "issued"} => late[r] = {}

\* "A later request must not reopen a completed or failed session"
\* (oid4vci.service.ts), whatever the request had loaded.
NeverReopened ==
    [][session.status \in Terminal => session'.status \in Terminal]_vars

\* sessions.md: "Terminal states are final. completed, failed, expired and
\* cancelled never change again."
TerminalStatusFinal ==
    [][session.status \in Terminal => session'.status = session.status]_vars

\* issuance.md: "Once redeemed, a session no longer expires, so a wallet holding
\* tokens can keep requesting credentials": it is only denied its session when
\* the session was deleted or has ended.
HolderKeepsRequesting ==
    \A r \in Requests :
        request[r] = "no session" => ~session.stored \/ session.status \in Terminal

\* What the built-in server redeemed serves its wallet until it is deleted, in any
\* status, and after the first credential it counts neither as an offer that
\* expired "not redeemed" nor as a withdrawn one (the table of sessions.md),
\* whichever credential request, cancellation and maintenance run come first.
RedeemedSessionServes ==
    session.consumed /\ session.stored =>
        /\ \A r \in Requests : request[r] # "no session"
        /\ (\E r \in Requests : Holds(r)) =>
               session.status \in {"fetched", "completed", "failed"}

\* The notification_id of every credential response stays known to the session,
\* so that the wallet's notification is not "unknown" (notifications.md).
IssuedIdsKnown ==
    \A r \in Requests : Holds(r) /\ session.stored => session.notes[r] # None
=============================================================================
