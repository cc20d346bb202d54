---------------------- MODULE CredentialEndpointProofs ----------------------
(***************************************************************************)
(* The safety of the credential endpoint for every number of concurrent    *)
(* requests, nonces and authorization servers.                             *)
(*                                                                         *)
(* The argument for the nonces: whoever took a nonce deleted it while it   *)
(* was stored, and a deleted nonce is never stored again (Taken).  The     *)
(* loop over the proofs of a request passes an accepted request only when  *)
(* it took all of them, none of which had expired for it (Loop).  For the  *)
(* session: the column consumed is never written here, and whatever        *)
(* withdraws a session demands that it is not consumed (Redeemed).         *)
(*                                                                         *)
(* After it, about what a credential request leads to: the deferred        *)
(* transaction of a request that the claim source deferred, and the active *)
(* issuance set of requests for one subject.                               *)
(***************************************************************************)
EXTENDS CredentialEndpoint, DeferredIssuance, ActiveIssuance, FiniteSetTheorems, TLAPS

\* Whoever took a nonce was the one to delete it.
Taken ==
    /\ \A r \in Requests : \A n \in took[r] : nonce[n] = "deleted"
    /\ \A r1, r2 \in Requests : r1 # r2 => took[r1] \cap took[r2] = {}

\* How far each request is with the nonces of its proofs.
LoopOf(r) ==
    /\ took[r] \subseteq proofs[r]
    /\ request[r] = "idle" => late[r] = {}
    /\ late[r] \subseteq proofs[r]
    /\ request[r] \in {"idle", "claims", "defer"} => took[r] = {}
    /\ request[r] = "defer" => \E n \in Nonces : proofs[r] = {n}
    /\ request[r] \in {"delete", "purge"} => current[r] \in proofs[r] \ took[r]
    /\ request[r] = "delete" => current[r] \notin late[r]
    /\ request[r] \in {"find", "delete", "purge", "issue", "record", "fetch", "issued"} =>
           took[r] \cap late[r] = {}
    /\ Accepted(r) => took[r] = proofs[r]
Loop == \A r \in Requests : LoopOf(r)

\* What the built-in server redeemed is not withdrawn.
Redeemed ==
    /\ session.consumed <=> server = "built-in"
    /\ session.consumed => session.status \notin {"cancelled", "expired"}
    /\ \A j \in Jobs : job[j] = "expire" => ~session.consumed
    /\ session.consumed /\ session.stored =>
           \A r \in Requests :
               /\ request[r] # "no session"
               /\ request[r] = "issued" => session.status # "active"

IInv == TypeOK /\ Taken /\ Loop /\ Redeemed
-----------------------------------------------------------------------------
(***************************************************************************)
(* What the steps with several outcomes do.                                *)
(***************************************************************************)
LEMMA FindNonceCases ==
    ASSUME NEW r \in Requests, FindNonce(r)
    PROVE  \E n \in proofs[r] \ took[r] :
              /\ current' = [current EXCEPT ![r] = n]
              /\ \/ To(r, "invalid nonce")
                 \/ To(r, "purge")
                 \/ To(r, "delete") /\ n \notin late[r]
<1>1. PICK n \in proofs[r] \ took[r] :
         /\ current' = [current EXCEPT ![r] = n]
         /\ To(r, CASE ~Stored(n) -> "invalid nonce"
                    [] Stored(n) /\ ExpiredFor(r, n) -> "purge"
                    [] OTHER -> "delete")
  BY DEF FindNonce
<1>2. \/ To(r, "invalid nonce") \/ To(r, "purge")
      \/ To(r, "delete") /\ Stored(n) /\ ~ExpiredFor(r, n)
  BY <1>1, Zenon
<1> QED
  BY <1>1, <1>2 DEF ExpiredFor

LEMMA DeleteNonceCases ==
    ASSUME NEW r \in Requests, DeleteNonce(r)
    PROVE  \/ /\ request[r] = "delete" /\ Stored(current[r])
              /\ took' = [took EXCEPT ![r] = @ \cup {current[r]}]
              /\ \/ To(r, "issue") /\ took'[r] = proofs[r]
                 \/ To(r, "find")
           \/ To(r, "invalid nonce") /\ took' = took
BY DEF DeleteNonce, Consumes

LEMMA DeferNonceCases ==
    ASSUME NEW r \in Requests, DeferNonce(r)
    PROVE  \E n \in proofs[r] :
              /\ nonce' = [nonce EXCEPT ![n] = "deleted"]
              /\ current' = [current EXCEPT ![r] = n]
              /\ \/ Stored(n) /\ took' = [took EXCEPT ![r] = {n}] /\ To(r, "verify")
                 \/ To(r, "invalid nonce") /\ took' = took
BY DEF DeferNonce, Consumes
-----------------------------------------------------------------------------
(***************************************************************************)
(* Types.                                                                  *)
(***************************************************************************)
LEMMA TypeInit == Init => TypeOK
<1> SUFFICES ASSUME Init PROVE TypeOK
  OBVIOUS
<1>1. [r \in Requests |-> None] \in Notes
  BY DEF Notes
<1>2. session = [stored |-> TRUE, status |-> "active", consumed |-> (server = "built-in"),
                 notes |-> [r \in Requests |-> None]]
  BY DEF Init
<1>3. (server = "built-in") \in BOOLEAN
  OBVIOUS
<1>4. session \in Rows /\ session.notes \in Notes
  BY <1>1, <1>2, <1>3 DEF Rows, Status, Open
<1> QED
  BY <1>4 DEF Init, TypeOK, NonceState, RequestPC, NoticePC

\* The nonce a request deletes is one of its proofs: Loop.
LEMMA RequestTypes ==
    ASSUME TypeOK, Loop, NEW r \in Requests, CredentialRequest(r)
    PROVE  TypeOK'
<1> USE DEF TypeOK, NonceState, RequestPC, To, NotWallet, notifier
<1>1. CASE Receive(r)
  <2>1. session.notes \in Notes
    BY DEF Rows
  <2>2. /\ proofs' \in [Requests -> SUBSET Nonces]
        /\ loaded' \in [Requests -> Notes]
        /\ request' \in [Requests -> RequestPC]
    BY <1>1, <2>1 DEF Receive
  <2> QED
    BY <1>1, <2>2 DEF Receive
<1>2. CASE StartProofs(r)
  <2>1. {n \in proofs[r] : nonce[n] = "expired"} \in SUBSET Nonces
    OBVIOUS
  <2>2. late' \in [Requests -> SUBSET Nonces] /\ request' \in [Requests -> RequestPC]
    BY <1>2, <2>1 DEF StartProofs
  <2> QED
    BY <1>2, <2>2 DEF StartProofs
<1>3. CASE FindNonce(r)
  <2>1. PICK n \in proofs[r] \ took[r] :
           /\ current' = [current EXCEPT ![r] = n]
           /\ To(r, "invalid nonce") \/ To(r, "purge") \/ To(r, "delete")
    BY <1>3, FindNonceCases
  <2>2. request' \in [Requests -> RequestPC] /\ current' \in [Requests -> Nonces \cup {None}]
    BY <2>1
  <2> QED
    BY <1>3, <2>2 DEF FindNonce
<1>4. CASE DeleteNonce(r)
  <2>1. current[r] \in Nonces
    BY <1>4 DEF DeleteNonce, Loop, LoopOf
  <2>2. nonce' \in [Nonces -> NonceState]
    BY <1>4 DEF DeleteNonce
  <2>3. took[r] \cup {current[r]} \in SUBSET Nonces
    BY <2>1
  <2>4. took' = took \/ took' = [took EXCEPT ![r] = @ \cup {current[r]}]
    BY <1>4, DeleteNonceCases
  <2>5. took' \in [Requests -> SUBSET Nonces]
    BY <2>3, <2>4
  <2>6. request' \in [Requests -> RequestPC]
    BY <1>4, DeleteNonceCases
  <2> QED
    BY <1>4, <2>2, <2>5, <2>6 DEF DeleteNonce
<1>5. CASE Issue(r)
  BY <1>5 DEF Issue
<1>6. CASE RecordIssued(r)
  <2>1. [loaded[r] EXCEPT ![r] = "issued"] \in Notes
    BY DEF Notes
  <2>2. [session EXCEPT !.notes = [loaded[r] EXCEPT ![r] = "issued"]] \in Rows
    BY <2>1 DEF Rows
  <2> QED
    BY <1>6, <2>2 DEF RecordIssued, Write
<1>7. CASE Fetch(r)
  <2>1. [session EXCEPT !.status = "fetched"] \in Rows
    BY DEF Rows, Status, Open
  <2> QED
    BY <1>7, <2>1 DEF Fetch
<1>8. CASE DeferNonce(r)
  <2>1. PICK n \in proofs[r] :
           /\ nonce' = [nonce EXCEPT ![n] = "deleted"]
           /\ current' = [current EXCEPT ![r] = n]
           /\ \/ took' = [took EXCEPT ![r] = {n}] /\ To(r, "verify")
              \/ To(r, "invalid nonce") /\ took' = took
    BY <1>8, DeferNonceCases
  <2>2. /\ nonce' \in [Nonces -> NonceState]
        /\ current' \in [Requests -> Nonces \cup {None}]
    BY <2>1
  <2>3. {n} \in SUBSET Nonces /\ (took' = took \/ took' = [took EXCEPT ![r] = {n}])
    BY <2>1
  <2>4. took' \in [Requests -> SUBSET Nonces]
    BY <2>3
  <2>5. request' \in [Requests -> RequestPC]
    BY <2>1
  <2> QED
    BY <1>8, <2>2, <2>4, <2>5 DEF DeferNonce
<1>9. CASE Defer(r)
  BY <1>9 DEF Defer
<1> QED
  BY <1>1, <1>2, <1>3, <1>4, <1>5, <1>6, <1>7, <1>8, <1>9 DEF CredentialRequest

LEMMA NoticeTypes ==
    ASSUME TypeOK, NEW k \in Notices, Notice(k)
    PROVE  TypeOK'
<1> USE DEF TypeOK, NoticePC, NotNotifier, wallet
<1>1. CASE NoticeLoad(k)
  BY <1>1 DEF NoticeLoad, Rows
<1>2. CASE NoticeRecord(k)
  <2>1. about[k] \in Requests => [seen[k] EXCEPT ![about[k]] = event[k]] \in Notes
    BY DEF Notes
  <2>2. about[k] \notin Requests => [seen[k] EXCEPT ![about[k]] = event[k]] \in Notes
    BY DEF Notes
  <2>3. [session EXCEPT !.notes = [seen[k] EXCEPT ![about[k]] = event[k]]] \in Rows
    BY <2>1, <2>2 DEF Rows
  <2> QED
    BY <1>2, <2>3 DEF NoticeRecord, Write
<1>3. CASE NoticeStatus(k)
  BY <1>3 DEF NoticeStatus, Write, StatusAfter, Rows, Status, Terminal
<1> QED
  BY <1>1, <1>2, <1>3 DEF Notice

LEMMA TypeStep == TypeOK /\ Loop /\ [Next]_vars => TypeOK'
<1> SUFFICES ASSUME TypeOK, Loop, [Next]_vars PROVE TypeOK'
  OBVIOUS
<1> USE DEF TypeOK
<1>1. ASSUME NEW n \in Nonces, IssueNonce(n) \/ ExpireNonce(n)
      PROVE  TypeOK'
  BY <1>1 DEF IssueNonce, ExpireNonce, NonceState, wallet, notifier
<1>2. CASE CleanNonces
  BY <1>2 DEF CleanNonces, NonceState, wallet, notifier
<1>3. ASSUME NEW r \in Requests, CredentialRequest(r)
      PROVE  TypeOK'
  BY <1>3, RequestTypes
<1>4. ASSUME NEW k \in Notices, Notice(k)
      PROVE  TypeOK'
  BY <1>4, NoticeTypes
<1>5. ASSUME NEW j \in Jobs, JobSelect(j) \/ JobExpire(j)
      PROVE  TypeOK'
  BY <1>5 DEF JobSelect, JobExpire, Rows, Status, Terminal, Others, wallet, notifier
<1>6. CASE Cancel \/ DeleteSession \/ PassExpiry
  BY <1>6 DEF Cancel, DeleteSession, PassExpiry, Rows, Status, Terminal, Others, wallet, notifier
<1>7. CASE UNCHANGED vars
  BY <1>7 DEF vars, wallet, notifier
<1> QED
  BY <1>1, <1>2, <1>3, <1>4, <1>5, <1>6, <1>7 DEF Next

-----------------------------------------------------------------------------
(***************************************************************************)
(* The invariant.                                                          *)
(***************************************************************************)
LEMMA InvInit == Init => IInv
<1> SUFFICES ASSUME Init PROVE IInv
  OBVIOUS
<1>1. TypeOK
  BY TypeInit
<1>2. session.consumed = (server = "built-in") /\ session.status = "active"
  BY DEF Init
<1> QED
  BY <1>1, <1>2 DEF Init, IInv, Taken, Loop, LoopOf, Redeemed, Accepted

\* A step of a request leaves the loops of the others alone, deletes at most its
\* own nonce and takes it only while it is stored.
LEMMA LoopFrame ==
    ASSUME NEW r \in Requests, Loop,
           \A q \in Requests \ {r} :
              /\ request'[q] = request[q] /\ proofs'[q] = proofs[q]
              /\ current'[q] = current[q] /\ took'[q] = took[q] /\ late'[q] = late[q],
           LoopOf(r)'
    PROVE  Loop'
BY DEF Loop, LoopOf, Accepted

LEMMA TakenFrame ==
    ASSUME NEW r \in Requests, Taken,
           \A n \in Nonces : nonce[n] = "deleted" => nonce'[n] = "deleted",
           \A q \in Requests \ {r} : took'[q] = took[q],
           \A q \in Requests : took[q] \subseteq Nonces,
           \A n \in took'[r] \ took[r] : nonce[n] # "deleted" /\ nonce'[n] = "deleted"
    PROVE  Taken'
BY DEF Taken

LEMMA RequestKeeps ==
    ASSUME TypeOK, Taken, Loop, NEW r \in Requests, CredentialRequest(r)
    PROVE  Taken' /\ Loop'
<1>0. /\ request \in [Requests -> RequestPC] /\ proofs \in [Requests -> SUBSET Nonces]
      /\ current \in [Requests -> Nonces \cup {None}]
      /\ took \in [Requests -> SUBSET Nonces] /\ late \in [Requests -> SUBSET Nonces]
      /\ nonce \in [Nonces -> NonceState]
  BY DEF TypeOK
<1>a. LoopOf(r)
  BY DEF Loop
<1> SUFFICES /\ \A q \in Requests \ {r} :
                   /\ request'[q] = request[q] /\ proofs'[q] = proofs[q]
                   /\ current'[q] = current[q] /\ took'[q] = took[q] /\ late'[q] = late[q]
             /\ \A n \in Nonces : nonce[n] = "deleted" => nonce'[n] = "deleted"
             /\ \A n \in took'[r] \ took[r] : nonce[n] # "deleted" /\ nonce'[n] = "deleted"
             /\ LoopOf(r)'
  BY <1>0, LoopFrame, TakenFrame
<1> USE DEF LoopOf, Accepted, To
<1>1. CASE Receive(r)
  BY <1>0, <1>a, <1>1 DEF Receive
<1>2. CASE StartProofs(r)
  BY <1>0, <1>a, <1>2 DEF StartProofs
<1>3. CASE FindNonce(r)
  BY <1>0, <1>a, <1>3, FindNonceCases DEF FindNonce
<1>4. CASE DeleteNonce(r)
  <2>0. /\ nonce' = [nonce EXCEPT ![current[r]] = "deleted"]
        /\ proofs' = proofs /\ current' = current /\ late' = late
        /\ request[r] \in {"delete", "purge"}
    BY <1>4 DEF DeleteNonce
  <2>1. CASE To(r, "invalid nonce") /\ took' = took
    BY <1>0, <1>a, <2>0, <2>1
  <2>2. CASE /\ request[r] = "delete" /\ Stored(current[r])
             /\ took' = [took EXCEPT ![r] = @ \cup {current[r]}]
             /\ \/ To(r, "issue") /\ took'[r] = proofs[r]
                \/ To(r, "find")
    <3>1. current[r] \in proofs[r] \ took[r] /\ current[r] \notin late[r] /\ current[r] \in Nonces
      BY <1>0, <1>a, <2>2
    <3>2. took'[r] = took[r] \cup {current[r]} /\ took'[r] \subseteq proofs[r]
          /\ took'[r] \cap late[r] = {}
      BY <1>0, <1>a, <2>2, <3>1
    <3>3. request'[r] = "find" \/ (request'[r] = "issue" /\ took'[r] = proofs[r])
      BY <1>0, <2>2
    <3>4. LoopOf(r)'
      BY <1>a, <2>0, <3>2, <3>3
    <3> QED
      BY <1>0, <2>0, <2>2, <3>1, <3>2, <3>4 DEF Stored
  <2> QED
    BY <1>4, <2>1, <2>2, DeleteNonceCases
<1>5. CASE Issue(r) \/ RecordIssued(r) \/ Fetch(r) \/ Defer(r)
  BY <1>0, <1>a, <1>5 DEF Issue, RecordIssued, Fetch, Defer
<1>6. CASE DeferNonce(r)
  <2>0. request[r] = "defer" /\ proofs' = proofs /\ late' = late
    BY <1>6 DEF DeferNonce
  <2>1. PICK n \in proofs[r] :
           /\ nonce' = [nonce EXCEPT ![n] = "deleted"]
           /\ current' = [current EXCEPT ![r] = n]
           /\ \/ Stored(n) /\ took' = [took EXCEPT ![r] = {n}] /\ To(r, "verify")
              \/ To(r, "invalid nonce") /\ took' = took
    BY <1>6, DeferNonceCases
  <2>2. CASE To(r, "invalid nonce") /\ took' = took
    BY <1>0, <1>a, <2>0, <2>1, <2>2
  <2>3. CASE Stored(n) /\ took' = [took EXCEPT ![r] = {n}] /\ To(r, "verify")
    BY <1>0, <1>a, <2>0, <2>1, <2>3 DEF Stored
  <2> QED
    BY <2>1, <2>2, <2>3
<1> QED
  BY <1>1, <1>2, <1>3, <1>4, <1>5, <1>6 DEF CredentialRequest

\* Everything but a request leaves the loops alone and revives no nonce.
LEMMA OthersKeep ==
    ASSUME Taken, Loop, UNCHANGED wallet, TypeOK,
           \A n \in Nonces : nonce[n] = "deleted" => nonce'[n] = "deleted"
    PROVE  Taken' /\ Loop'
BY DEF Taken, Loop, LoopOf, Accepted, wallet, TypeOK

\* What a step does to the row: it may store notes, delete the row, let an active
\* session be fetched, or set a result; the withdrawals are left to Next.
RowStep ==
    /\ session'.consumed <=> session.consumed
    /\ session'.stored => session.stored
    /\ \/ session'.status = session.status
       \/ session'.status = "fetched" /\ session.status = "active"
       \/ session'.status \in {"completed", "failed"}

LEMMA WriteFields ==
    ASSUME session \in Rows, NEW notes, NEW to,
           \/ session' = session
           \/ session' = [session EXCEPT !.notes = notes]
           \/ session' = [session EXCEPT !.status = to]
           \/ session' = [session EXCEPT !.stored = FALSE]
    PROVE  /\ session'.consumed <=> session.consumed
           /\ session'.stored => session.stored
           /\ session'.status \in {session.status, to}
BY DEF Rows

LEMMA RequestRow ==
    ASSUME TypeOK, NEW r \in Requests, CredentialRequest(r)
    PROVE  /\ RowStep
           /\ \A q \in Requests \ {r} : request'[q] = request[q]
           /\ request'[r] = "no session" => ~FindsSession(session) /\ session' = session
           /\ request'[r] = "issued" =>
                  ~session'.stored \/ session'.status # "active" \/ request[r] = "issued"
<1>0. session \in Rows /\ request \in [Requests -> RequestPC]
  BY DEF TypeOK
<1> USE DEF To, NotWallet, RowStep
<1>1. CASE Receive(r)
  BY <1>0, <1>1 DEF Receive
<1>2. CASE StartProofs(r)
  BY <1>0, <1>2 DEF StartProofs
<1>3. CASE FindNonce(r)
  BY <1>0, <1>3, FindNonceCases DEF FindNonce
<1>4. CASE DeleteNonce(r)
  BY <1>0, <1>4, DeleteNonceCases DEF DeleteNonce
<1>5. CASE Issue(r) \/ Defer(r)
  BY <1>0, <1>5 DEF Issue, Defer
<1>6. CASE RecordIssued(r)
  BY <1>0, <1>6 DEF RecordIssued, Write, Rows
<1>7. CASE Fetch(r)
  <2>1. CASE InStatus(session, {"active"})
    BY <1>0, <1>7, <2>1 DEF Fetch, InStatus, Rows
  <2>2. CASE ~InStatus(session, {"active"})
    BY <1>0, <1>7, <2>2 DEF Fetch, InStatus, Rows
  <2> QED
    BY <2>1, <2>2
<1>8. CASE DeferNonce(r)
  BY <1>0, <1>8, DeferNonceCases DEF DeferNonce
<1> QED
  BY <1>1, <1>2, <1>3, <1>4, <1>5, <1>6, <1>7, <1>8 DEF CredentialRequest

LEMMA NoticeRow ==
    ASSUME TypeOK, NEW k \in Notices, Notice(k)
    PROVE  RowStep
<1>0. session \in Rows
  BY DEF TypeOK
<1>1. CASE NoticeLoad(k)
  BY <1>1 DEF NoticeLoad, RowStep
<1>2. CASE NoticeRecord(k)
  <2> DEFINE notes == [seen[k] EXCEPT ![about[k]] = event[k]]
  <2>1. session' = session \/ session' = [session EXCEPT !.notes = notes]
    BY <1>2 DEF NoticeRecord, Write
  <2> HIDE DEF notes
  <2> QED
    BY <1>0, <2>1, WriteFields DEF RowStep
<1>3. CASE NoticeStatus(k)
  <2>1. \/ session' = session
        \/ session' = [session EXCEPT !.status = StatusAfter(event[k])]
    BY <1>3 DEF NoticeStatus, Write
  <2>2. StatusAfter(event[k]) \in {"completed", "failed"}
    BY DEF StatusAfter
  <2> QED
    BY <1>0, <2>1, <2>2, WriteFields DEF RowStep
<1> QED
  BY <1>1, <1>2, <1>3 DEF Notice

LEMMA InvStep == IInv /\ [Next]_vars => IInv'
<1> SUFFICES ASSUME IInv, [Next]_vars PROVE IInv'
  OBVIOUS
<1>0. TypeOK /\ Taken /\ Loop /\ Redeemed /\ TypeOK'
  BY TypeStep DEF IInv
<1> SUFFICES Taken' /\ Loop' /\ Redeemed'
  BY <1>0 DEF IInv
<1>1. ASSUME NEW n \in Nonces, IssueNonce(n) \/ ExpireNonce(n)
      PROVE  Taken' /\ Loop' /\ Redeemed'
  <2>1. \A m \in Nonces : nonce[m] = "deleted" => nonce'[m] = "deleted"
    BY <1>0, <1>1 DEF IssueNonce, ExpireNonce, TypeOK
  <2> QED
    BY <1>0, <1>1, <2>1, OthersKeep DEF IssueNonce, ExpireNonce, Redeemed, wallet
<1>2. CASE CleanNonces
  <2>1. \A m \in Nonces : nonce[m] = "deleted" => nonce'[m] = "deleted"
    BY <1>2 DEF CleanNonces
  <2> QED
    BY <1>0, <1>2, <2>1, OthersKeep DEF CleanNonces, Redeemed, wallet
<1>3. ASSUME NEW r \in Requests, CredentialRequest(r)
      PROVE  Taken' /\ Loop' /\ Redeemed'
  <2>1. UNCHANGED <<server, overdue, job>>
    BY <1>3 DEF CredentialRequest, Receive, StartProofs, FindNonce, DeleteNonce, Issue,
       RecordIssued, Fetch, DeferNonce, Defer, NotWallet
  <2>2. /\ RowStep
        /\ \A q \in Requests \ {r} : request'[q] = request[q]
        /\ request'[r] = "no session" => ~FindsSession(session) /\ session' = session
        /\ request'[r] = "issued" =>
               ~session'.stored \/ session'.status # "active" \/ request[r] = "issued"
    BY <1>0, <1>3, RequestRow
  <2>3. /\ session'.consumed <=> server' = "built-in"
        /\ session'.consumed => session'.status \notin {"cancelled", "expired"}
        /\ \A j \in Jobs : job'[j] = "expire" => ~session'.consumed
    BY <1>0, <2>1, <2>2 DEF Redeemed, RowStep
  <2>4. ASSUME session'.consumed, session'.stored, NEW q \in Requests
        PROVE  /\ request'[q] # "no session"
               /\ request'[q] = "issued" => session'.status # "active"
    <3>1. session.consumed /\ session.stored /\ FindsSession(session)
      BY <1>0, <2>2, <2>4 DEF Redeemed, RowStep, FindsSession
    <3>2. request[q] # "no session" /\ (request[q] = "issued" => session.status # "active")
      BY <1>0, <3>1 DEF Redeemed
    <3> QED
      BY <2>2, <2>4, <3>1, <3>2 DEF RowStep
  <2>5. Redeemed'
    BY <2>3, <2>4 DEF Redeemed
  <2> QED
    BY <1>0, <1>3, <2>5, RequestKeeps
<1>4. ASSUME NEW k \in Notices, Notice(k)
      PROVE  Taken' /\ Loop' /\ Redeemed'
  <2>1. UNCHANGED <<server, overdue, nonce, wallet, job>>
    BY <1>4 DEF Notice, NoticeLoad, NoticeRecord, NoticeStatus, NotNotifier
  <2> QED
    BY <1>0, <1>4, <2>1, NoticeRow, OthersKeep DEF Redeemed, RowStep, wallet
<1>5. ASSUME NEW j \in Jobs, JobSelect(j) \/ JobExpire(j)
      PROVE  Taken' /\ Loop' /\ Redeemed'
  <2>1. /\ \/ session' = session
           \/ job[j] = "expire" /\ session' = [session EXCEPT !.status = "expired"]
        /\ \A i \in Jobs : job'[i] = "expire" => job[i] = "expire" \/ ~session.consumed
        /\ UNCHANGED <<server, nonce, wallet>>
    BY <1>0, <1>5 DEF JobSelect, JobExpire, ExpirableOffer, Others, TypeOK
  <2>2. /\ session'.consumed <=> session.consumed
        /\ session'.stored => session.stored
        /\ session'.status = session.status \/ ~session.consumed
    BY <1>0, <2>1, WriteFields DEF TypeOK, Redeemed
  <2> QED
    BY <1>0, <2>1, <2>2, OthersKeep DEF Redeemed, wallet
<1>6. CASE Cancel \/ DeleteSession \/ PassExpiry
  <2>1. /\ \/ session' = session
           \/ session' = [session EXCEPT !.stored = FALSE]
           \/ ~session.consumed /\ session' = [session EXCEPT !.status = "cancelled"]
        /\ UNCHANGED <<server, nonce, wallet, job>>
    BY <1>6 DEF Cancel, DeleteSession, PassExpiry, Unconsumed, Others
  <2>2. /\ session'.consumed <=> session.consumed
        /\ session'.stored => session.stored
        /\ session'.status = session.status \/ ~session.consumed
    BY <1>0, <2>1 DEF TypeOK, Rows
  <2> QED
    BY <1>0, <2>1, <2>2, OthersKeep DEF Redeemed, wallet
<1>7. CASE UNCHANGED vars
  BY <1>0, <1>7, OthersKeep DEF Redeemed, vars, wallet
<1> QED
  BY <1>1, <1>2, <1>3, <1>4, <1>5, <1>6, <1>7 DEF Next

\* IInv is an invariant of every number of requests and nonces.
LEMMA Invariance == Spec => []IInv
BY InvInit, InvStep, PTL DEF Spec

\* The values of the state are what the code stores.
THEOREM TypeCorrect == Spec => []TypeOK
<1>1. IInv => TypeOK
  BY DEF IInv
<1> QED
  BY <1>1, Invariance, PTL

\* Requests that were accepted took every nonce of their proofs and share none.
THEOREM NoncesAreSingleUse == Spec => []NonceSingleUse
<1>1. IInv => NonceSingleUse
  BY DEF IInv, Taken, Loop, LoopOf, NonceSingleUse
<1> QED
  BY <1>1, Invariance, PTL

\* A request one of whose nonces had expired is issued nothing.
THEOREM ExpiredNoncesAreRefused == Spec => []ExpiredNonceRefused
<1>1. IInv => ExpiredNonceRefused
  <2> SUFFICES ASSUME IInv, NEW r \in Requests,
                      request[r] \in {"issue", "record", "fetch", "issued"}
               PROVE  late[r] = {}
    BY DEF ExpiredNonceRefused
  <2>1. LoopOf(r)
    BY DEF IInv, Loop
  <2> QED
    BY <2>1 DEF LoopOf, Accepted
<1> QED
  BY <1>1, Invariance, PTL

\* What the built-in server redeemed serves its wallet until it is deleted.
THEOREM RedeemedSessionsServe == Spec => []RedeemedSessionServes
<1>1. IInv => RedeemedSessionServes
  BY DEF IInv, TypeOK, Rows, Status, Open, Terminal, Redeemed, RedeemedSessionServes, Holds
<1> QED
  BY <1>1, Invariance, PTL

\* No request, notification or maintenance run reopens a session that has ended.
THEOREM EndedStaysEnded == Spec => NeverReopened
<1>1. TypeOK /\ [Next]_vars => [session.status \in Terminal => session'.status \in Terminal]_vars
  <2> SUFFICES ASSUME TypeOK, Next PROVE session.status \in Terminal => session'.status \in Terminal
    BY DEF vars
  <2> USE DEF Terminal
  <2>0. session \in Rows
    BY DEF TypeOK
  <2>1. ASSUME NEW n \in Nonces, IssueNonce(n) \/ ExpireNonce(n) PROVE session' = session
    BY <2>1 DEF IssueNonce, ExpireNonce
  <2>2. CASE CleanNonces
    BY <2>2 DEF CleanNonces
  <2>3. ASSUME NEW r \in Requests, CredentialRequest(r) PROVE RowStep
    BY <2>3, RequestRow
  <2>4. ASSUME NEW k \in Notices, Notice(k) PROVE RowStep
    BY <2>4, NoticeRow
  <2>5. ASSUME NEW j \in Jobs, JobSelect(j) \/ JobExpire(j)
        PROVE  session' = session \/ session' = [session EXCEPT !.status = "expired"]
    BY <2>5 DEF JobSelect, JobExpire
  <2>6. CASE Cancel \/ DeleteSession \/ PassExpiry
    BY <2>0, <2>6 DEF Cancel, DeleteSession, PassExpiry, Rows
  <2> QED
    BY <2>0, <2>1, <2>2, <2>3, <2>4, <2>5, <2>6 DEF Next, RowStep, Rows
<1> QED
  BY <1>1, TypeCorrect, PTL DEF Spec, NeverReopened
-----------------------------------------------------------------------------
(***************************************************************************)
(* A deferred transaction (DeferredIssuance), which follows a request that *)
(* the claim source deferred, for every number of completions, failures    *)
(* and polls.                                                              *)
(*                                                                         *)
(* The argument: a completion pays for one retrieval.  It is spent by the  *)
(* one poll whose update finds the row ready, and lost by a failure, an    *)
(* expiry or another completion that overwrites it (Budget).  Credentials  *)
(* only move from a completion to the row, to a poll that loads the row,   *)
(* to its answer (Signed).                                                 *)
(***************************************************************************)

\* A ready row may be retrieved once.
Due == IF transaction.status = "ready" THEN 1 ELSE 0

Budget == Cardinality(Answered) + Due <= Cardinality(Completed)

\* Every credential in the system was signed by a completion.
Signed ==
    /\ transaction.credential \in Completed \cup {NoCredential}
    /\ \A p \in Polls :
        /\ found[p].credential \in Completed \cup {NoCredential}
        /\ poll[p] = "retrieve" => found[p].credential # NoCredential
        /\ poll[p] = "credential" => received[p] \in Completed

DeferredInv == DeferredTypeOK /\ Budget /\ Signed
-----------------------------------------------------------------------------
(***************************************************************************)
(* Types.                                                                  *)
(***************************************************************************)
LEMMA ResolveType ==
    ASSUME NEW row, NEW now \in BOOLEAN
    PROVE  /\ Resolve(row, now) \in {"expire", "issuance_pending", "retrieve", "invalid_transaction_id"}
           /\ Resolve(row, now) = "retrieve" => ~now /\ row.credential # NoCredential
BY DEF Resolve

LEMMA DeferredTypeInit == DeferredInit => DeferredTypeOK
<1> SUFFICES ASSUME DeferredInit PROVE DeferredTypeOK
  OBVIOUS
<1>1. transaction \in Row
  BY DEF DeferredInit, Row, TransactionStatus
<1> QED
  BY <1>1 DEF DeferredInit, DeferredTypeOK, CompletePC, FailPC, PollPC

LEMMA DeferredTypeStep == DeferredTypeOK /\ [DeferredNext]_deferredVars => DeferredTypeOK'
<1> SUFFICES ASSUME DeferredTypeOK, [DeferredNext]_deferredVars PROVE DeferredTypeOK'
  OBVIOUS
<1> USE DEF DeferredTypeOK, CompletePC, FailPC, PollPC
<1>1. ASSUME NEW c \in Completes, Complete(c)
      PROVE  DeferredTypeOK'
  <2>1. [transaction EXCEPT !.status = "ready", !.credential = c] \in Row
    BY DEF Row, TransactionStatus
  <2>2. transaction' \in Row
    BY <1>1, <2>1 DEF Complete, FindPending, IssueCredential, MarkReady, CompleteReread, Mark
  <2>3. complete' \in [Completes -> CompletePC]
    BY <1>1 DEF Complete, FindPending, IssueCredential, MarkReady, CompleteReread, CompleteTo
  <2>4. NotComplete
    BY <1>1 DEF Complete, FindPending, IssueCredential, MarkReady, CompleteReread
  <2> QED
    BY <2>2, <2>3, <2>4 DEF NotComplete
<1>2. ASSUME NEW f \in Fails, Fail(f)
      PROVE  DeferredTypeOK'
  <2>1. [transaction EXCEPT !.status = "failed"] \in Row
    BY DEF Row, TransactionStatus
  <2>2. transaction' \in Row
    BY <1>2, <2>1 DEF Fail, FailFind, MarkFailed, FailReread, Mark
  <2>3. fail' \in [Fails -> FailPC]
    BY <1>2 DEF Fail, FailFind, MarkFailed, FailReread, FailTo
  <2>4. NotFail
    BY <1>2 DEF Fail, FailFind, MarkFailed, FailReread
  <2> QED
    BY <2>2, <2>3, <2>4 DEF NotFail
<1>3. ASSUME NEW p \in Polls, Poll(p)
      PROVE  DeferredTypeOK'
  <2>1. /\ [transaction EXCEPT !.status = "expired"] \in Row
        /\ [transaction EXCEPT !.status = "retrieved"] \in Row
        /\ found[p].credential \in Completes \cup {NoCredential}
    BY DEF Row, TransactionStatus
  <2>2. transaction' \in Row
    BY <1>3, <2>1 DEF Poll, PollFind, PollResolve, MarkExpired, MarkRetrieved, Mark
  <2>3. poll' \in [Polls -> PollPC]
    <3>1. Resolve(found[p], lapsed) \in PollPC
      BY ResolveType
    <3>2. \E place \in PollPC : PollTo(p, place)
      BY <1>3, <3>1 DEF Poll, PollFind, PollResolve, MarkExpired, MarkRetrieved
    <3> QED
      BY <3>2 DEF PollTo
  <2>4. /\ found' = found \/ found' = [found EXCEPT ![p] = transaction]
        /\ received' = received \/ received' = [received EXCEPT ![p] = found[p].credential]
    BY <1>3 DEF Poll, PollFind, PollResolve, MarkExpired, MarkRetrieved
  <2>4a. found' \in [Polls -> Row]
    BY <2>4
  <2>4b. received' \in [Polls -> Completes \cup {NoCredential}]
    BY <2>1, <2>4
  <2>5. NotPoll
    BY <1>3 DEF Poll, PollFind, PollResolve, MarkExpired, MarkRetrieved
  <2> QED
    BY <2>2, <2>3, <2>4a, <2>4b, <2>5 DEF NotPoll
<1>4. CASE DeleteExpired \/ PassExpiresAt \/ LoseSession
  <2>1. [transaction EXCEPT !.stored = FALSE] \in Row
    BY DEF Row
  <2> QED
    BY <1>4, <2>1 DEF DeleteExpired, PassExpiresAt, LoseSession, NotRequests
<1>5. CASE UNCHANGED deferredVars
  BY <1>5 DEF deferredVars
<1> QED
  BY <1>1, <1>2, <1>3, <1>4, <1>5 DEF DeferredNext

\* The values of the state are what the code stores.
THEOREM DeferredTypes == DeferredSpec => []DeferredTypeOK
BY DeferredTypeInit, DeferredTypeStep, PTL DEF DeferredSpec
-----------------------------------------------------------------------------
(***************************************************************************)
(* The budget.                                                             *)
(***************************************************************************)
LEMMA DeferredInvInit == DeferredInit => DeferredInv
<1> SUFFICES ASSUME DeferredInit PROVE DeferredInv
  OBVIOUS
<1>1. DeferredTypeOK
  BY DeferredTypeInit
<1>2. Answered = {} /\ Completed = {}
  BY DEF DeferredInit, Answered, Completed
<1>3. Cardinality({}) = 0
  BY FS_EmptySet
<1>4. Due = 0
  BY DEF DeferredInit, Due
<1> QED
  BY <1>1, <1>2, <1>3, <1>4 DEF DeferredInit, DeferredInv, Budget, Signed

\* The sets that are counted are finite.
LEMMA DeferredCounts ==
    ASSUME DeferredInv
    PROVE  /\ IsFiniteSet(Answered) /\ Cardinality(Answered) \in Nat
           /\ IsFiniteSet(Completed) /\ Cardinality(Completed) \in Nat
<1>1. IsFiniteSet(Answered) /\ IsFiniteSet(Completed)
  BY FS_Subset, FinitelyMany DEF DeferredInv, Answered, Completed
<1> QED
  BY <1>1, FS_CardinalityType

\* A step that answers no poll, makes nothing ready and forgets no completion.
LEMMA Spends ==
    ASSUME DeferredInv, Answered' = Answered, Completed' = Completed,
           transaction'.status = "ready" => transaction.status = "ready"
    PROVE  Budget'
BY DeferredCounts DEF DeferredInv, Budget, Due

LEMMA CompleteKeeps ==
    ASSUME DeferredInv, NEW c \in Completes, Complete(c)
    PROVE  Budget' /\ Signed'
<1>0. /\ transaction \in Row /\ complete \in [Completes -> CompletePC]
      /\ UNCHANGED <<poll, found, received>> /\ Answered' = Answered
  BY DEF DeferredInv, DeferredTypeOK, Complete, FindPending, IssueCredential, MarkReady,
     CompleteReread, NotComplete, Answered
<1>1. CASE MarkReady(c)
  <2>1. c \notin Completed /\ Completed' = Completed \cup {c}
    BY <1>0, <1>1 DEF MarkReady, CompleteTo, Completed
  <2>2. Cardinality(Completed') = Cardinality(Completed) + 1
    BY <2>1, DeferredCounts, FS_AddElement
  <2>3. Budget'
    BY <1>0, <2>2, DeferredCounts DEF DeferredInv, Budget, Due
  <2>4. \/ transaction' = transaction
        \/ transaction' = [transaction EXCEPT !.status = "ready", !.credential = c]
    BY <1>1 DEF MarkReady, Mark
  <2>5. transaction'.credential \in {transaction.credential, c}
    BY ONLY <1>0, <2>4 DEF Row
  <2> QED
    BY <1>0, <2>1, <2>3, <2>5 DEF DeferredInv, Signed
<1>2. CASE FindPending(c) \/ IssueCredential(c) \/ CompleteReread(c)
  <2>1. Completed' = Completed /\ transaction' = transaction
    BY <1>0, <1>2 DEF FindPending, IssueCredential, CompleteReread, CompleteTo, Completed
  <2> QED
    BY <1>0, <2>1, Spends DEF DeferredInv, Signed
<1> QED
  BY <1>1, <1>2 DEF Complete

LEMMA FailKeeps ==
    ASSUME DeferredInv, NEW f \in Fails, Fail(f)
    PROVE  Budget' /\ Signed'
<1>1. transaction \in Row /\ UNCHANGED <<complete, poll, found, received>>
  BY DEF DeferredInv, DeferredTypeOK, Fail, FailFind, MarkFailed, FailReread, NotFail
<1>2. transaction' = transaction \/ transaction' = [transaction EXCEPT !.status = "failed"]
  BY DEF Fail, FailFind, MarkFailed, FailReread, Mark
<1>3. /\ transaction'.credential = transaction.credential
      /\ transaction'.status = "ready" => transaction.status = "ready"
  BY ONLY <1>1, <1>2 DEF Row
<1>4. Answered' = Answered /\ Completed' = Completed
  BY <1>1 DEF Answered, Completed
<1> QED
  BY <1>1, <1>3, <1>4, Spends DEF DeferredInv, Signed

LEMMA PollKeeps ==
    ASSUME DeferredInv, NEW p \in Polls, Poll(p)
    PROVE  Budget' /\ Signed'
<1>0. /\ transaction \in Row /\ poll \in [Polls -> PollPC] /\ found \in [Polls -> Row]
      /\ received \in [Polls -> Completes \cup {NoCredential}] /\ lapsed \in BOOLEAN
      /\ complete' = complete /\ Completed' = Completed
  BY DEF DeferredInv, DeferredTypeOK, Poll, PollFind, PollResolve, MarkExpired,
     MarkRetrieved, NotPoll, Completed
<1>1. CASE PollFind(p)
  <2>1. Answered' = Answered /\ transaction' = transaction
    BY <1>0, <1>1 DEF PollFind, PollTo, Answered
  <2> QED
    BY <1>0, <1>1, <2>1, Spends DEF PollFind, PollTo, DeferredInv, Signed
<1>2. CASE PollResolve(p)
  <2>1. /\ transaction' = transaction /\ found' = found /\ received' = received
        /\ poll' = [poll EXCEPT ![p] = Resolve(found[p], lapsed)] /\ poll[p] = "resolve"
    BY <1>2 DEF PollResolve, PollTo
  <2>2. /\ Resolve(found[p], lapsed) # "credential"
        /\ Resolve(found[p], lapsed) = "retrieve" => found[p].credential # NoCredential
    BY <1>0, ResolveType
  <2>3. Answered' = Answered
    BY <1>0, <2>1, <2>2 DEF Answered
  <2> QED
    BY <1>0, <2>1, <2>2, <2>3, Spends DEF DeferredInv, Signed
<1>3. CASE MarkExpired(p)
  <2>1. transaction' = transaction \/ transaction' = [transaction EXCEPT !.status = "expired"]
    BY <1>3 DEF MarkExpired, Mark
  <2>2. /\ transaction'.credential = transaction.credential
        /\ transaction'.status = "ready" => transaction.status = "ready"
    BY ONLY <1>0, <2>1 DEF Row
  <2>3. Answered' = Answered
    BY <1>0, <1>3 DEF MarkExpired, PollTo, Answered
  <2> QED
    BY <1>0, <1>3, <2>2, <2>3, Spends DEF MarkExpired, PollTo, DeferredInv, Signed
<1>4. CASE MarkRetrieved(p) /\ ~Retrievable(transaction)
  <2>1. /\ transaction' = transaction /\ found' = found /\ received' = received
        /\ poll' = [poll EXCEPT ![p] = "invalid_transaction_id"] /\ poll[p] = "retrieve"
    BY <1>4 DEF MarkRetrieved, PollTo
  <2>2. Answered' = Answered
    BY <1>0, <2>1 DEF Answered
  <2> QED
    BY <1>0, <2>1, <2>2, Spends DEF DeferredInv, Signed
<1>5. CASE MarkRetrieved(p) /\ Retrievable(transaction)
  \* The poll spends what a completion paid.
  <2>1. /\ transaction' = [transaction EXCEPT !.status = "retrieved"] /\ found' = found
        /\ received' = [received EXCEPT ![p] = found[p].credential]
        /\ poll' = [poll EXCEPT ![p] = "credential"] /\ poll[p] = "retrieve"
        /\ transaction.status = "ready"
    BY <1>5 DEF MarkRetrieved, PollTo, Retrievable
  <2>2. transaction'.credential = transaction.credential /\ transaction'.status = "retrieved"
    BY ONLY <1>0, <2>1 DEF Row
  <2>3. p \notin Answered /\ Answered' = Answered \cup {p}
    BY <1>0, <2>1 DEF Answered
  <2>4. Cardinality(Answered') = Cardinality(Answered) + 1
    BY <2>3, DeferredCounts, FS_AddElement
  <2>5. Budget'
    BY <1>0, <2>1, <2>2, <2>4, DeferredCounts DEF DeferredInv, Budget, Due
  <2> QED
    BY <1>0, <2>1, <2>2, <2>5 DEF DeferredInv, Signed
<1> QED
  BY <1>1, <1>2, <1>3, <1>4, <1>5 DEF Poll

LEMMA DeferredStep == DeferredInv /\ [DeferredNext]_deferredVars => DeferredInv'
<1> SUFFICES ASSUME DeferredInv, [DeferredNext]_deferredVars PROVE DeferredInv'
  OBVIOUS
<1> SUFFICES Budget' /\ Signed'
  BY DeferredTypeStep DEF DeferredInv
<1>1. CASE DeleteExpired \/ PassExpiresAt \/ LoseSession
  <2>1. transaction \in Row /\ UNCHANGED <<complete, poll, found, received>>
    BY <1>1 DEF DeferredInv, DeferredTypeOK, DeleteExpired, PassExpiresAt, LoseSession, NotRequests
  <2>2. transaction' = transaction \/ transaction' = [transaction EXCEPT !.stored = FALSE]
    BY <1>1 DEF DeleteExpired, PassExpiresAt, LoseSession
  <2>3. transaction'.credential = transaction.credential /\ transaction'.status = transaction.status
    BY ONLY <2>1, <2>2 DEF Row
  <2>4. Answered' = Answered /\ Completed' = Completed
    BY <2>1 DEF Answered, Completed
  <2> QED
    BY <2>1, <2>3, <2>4, Spends DEF DeferredInv, Signed
<1>2. CASE UNCHANGED deferredVars
  BY <1>2 DEF deferredVars, DeferredInv, Budget, Due, Signed, Answered, Completed
<1> QED
  BY <1>1, <1>2, CompleteKeeps, FailKeeps, PollKeeps DEF DeferredNext

\* IInv is an invariant of every number of handlers.
LEMMA DeferredInvariance == DeferredSpec => []DeferredInv
<1>1. DeferredInit => DeferredInv
  BY DeferredInvInit
<1> QED
  BY <1>1, DeferredStep, PTL DEF DeferredSpec

\* Polls receive no more credentials than completions made ready, and only those.
THEOREM RetrievalsArePaid == DeferredSpec => []RetrievalsMatchCompletions
<1>1. DeferredInv => RetrievalsMatchCompletions
  <2> SUFFICES ASSUME DeferredInv PROVE RetrievalsMatchCompletions
    OBVIOUS
  <2>1. Cardinality(Answered) \in Nat /\ Cardinality(Completed) \in Nat
    BY DeferredCounts
  <2>2. Cardinality(Answered) <= Cardinality(Completed)
    BY <2>1 DEF DeferredInv, Budget, Due
  <2>3. \A p \in Answered : received[p] \in Completed
    BY DEF DeferredInv, Signed, Answered
  <2> QED
    BY <2>2, <2>3 DEF RetrievalsMatchCompletions
<1> QED
  BY <1>1, DeferredInvariance, PTL

\* Before its time is over nobody deletes the row or marks it expired.
InTime == ~lapsed => transaction.stored /\ \A p \in Polls : poll[p] # "expire"

LEMMA InTimeStep == DeferredTypeOK /\ InTime /\ [DeferredNext]_deferredVars => InTime'
<1> SUFFICES ASSUME DeferredTypeOK, InTime, [DeferredNext]_deferredVars, ~lapsed'
             PROVE  transaction'.stored /\ \A p \in Polls : poll'[p] # "expire"
  BY DEF InTime
<1>0. transaction \in Row /\ poll \in [Polls -> PollPC] /\ found \in [Polls -> Row]
  BY DEF DeferredTypeOK
<1> USE DEF InTime
<1>1. ASSUME NEW c \in Completes, Complete(c)
      PROVE  transaction'.stored /\ \A p \in Polls : poll'[p] # "expire"
  BY <1>0, <1>1 DEF Complete, FindPending, IssueCredential, MarkReady, CompleteReread,
     NotComplete, Mark, Row
<1>2. ASSUME NEW f \in Fails, Fail(f)
      PROVE  transaction'.stored /\ \A p \in Polls : poll'[p] # "expire"
  BY <1>0, <1>2 DEF Fail, FailFind, MarkFailed, FailReread, NotFail, Mark, Row
<1>3. ASSUME NEW q \in Polls, Poll(q)
      PROVE  transaction'.stored /\ \A p \in Polls : poll'[p] # "expire"
  <2>0. ~lapsed /\ \A p \in Polls : poll[p] # "expire"
    BY <1>3 DEF Poll, PollFind, PollResolve, MarkExpired, MarkRetrieved, NotPoll
  <2>1. Resolve(found[q], lapsed) # "expire"
    BY <1>0, <2>0 DEF Resolve
  <2>2. CASE PollFind(q) \/ PollResolve(q)
    BY <1>0, <2>0, <2>1, <2>2 DEF PollFind, PollResolve, PollTo
  <2>3. CASE MarkRetrieved(q)
    BY <1>0, <2>0, <2>3 DEF MarkRetrieved, PollTo, Row
  <2> QED
    BY <1>3, <2>0, <2>2, <2>3 DEF Poll, MarkExpired
<1>4. CASE DeleteExpired
  <2>1. UNCHANGED <<lapsed, poll>> /\ UNCHANGED transaction
    BY <1>0, <1>4 DEF DeleteExpired, Deletable, NotRequests
  <2> QED
    BY <2>1
<1>5. CASE PassExpiresAt
  BY <1>0, <1>5 DEF PassExpiresAt
<1>6. CASE LoseSession
  BY <1>0, <1>6 DEF LoseSession, NotRequests
<1>7. CASE UNCHANGED deferredVars
  BY <1>0, <1>7 DEF deferredVars
<1> QED
  BY <1>1, <1>2, <1>3, <1>4, <1>5, <1>6, <1>7 DEF DeferredNext

\* Time that has passed has passed for good.
LEMMA TimePasses == [DeferredNext]_deferredVars /\ ~lapsed' => ~lapsed
<1> SUFFICES ASSUME [DeferredNext]_deferredVars, ~lapsed' PROVE ~lapsed
  OBVIOUS
<1>1. ASSUME NEW c \in Completes, Complete(c) PROVE UNCHANGED lapsed
  BY <1>1 DEF Complete, FindPending, IssueCredential, MarkReady, CompleteReread, NotComplete
<1>2. ASSUME NEW f \in Fails, Fail(f) PROVE UNCHANGED lapsed
  BY <1>2 DEF Fail, FailFind, MarkFailed, FailReread, NotFail
<1>3. ASSUME NEW p \in Polls, Poll(p) PROVE UNCHANGED lapsed
  BY <1>3 DEF Poll, PollFind, PollResolve, MarkExpired, MarkRetrieved, NotPoll
<1>4. CASE DeleteExpired \/ PassExpiresAt \/ LoseSession
  BY <1>4 DEF DeleteExpired, PassExpiresAt, LoseSession
<1>5. CASE UNCHANGED deferredVars
  BY <1>5 DEF deferredVars
<1> QED
  BY <1>1, <1>2, <1>3, <1>4, <1>5 DEF DeferredNext

LEMMA ReadyStep ==
    DeferredTypeOK /\ InTime /\ ReadyUntilRetrieved /\ [DeferredNext]_deferredVars
    => ReadyUntilRetrieved'
<1> SUFFICES ASSUME DeferredTypeOK, InTime, ReadyUntilRetrieved, [DeferredNext]_deferredVars,
                    Completed' # {}, ~lapsed'
             PROVE  \/ Retrievable(transaction)' \/ Answered' # {}
                    \/ \E f \in Fails : fail'[f] \in {"reread", "done", "error"}
  BY DEF ReadyUntilRetrieved
<1>0. /\ transaction \in Row /\ poll \in [Polls -> PollPC]
      /\ complete \in [Completes -> CompletePC] /\ fail \in [Fails -> FailPC]
  BY DEF DeferredTypeOK
<1>1. ~lapsed /\ transaction.stored
  BY TimePasses DEF InTime
<1>2. ASSUME NEW c \in Completes, Complete(c)
      PROVE  \/ Retrievable(transaction)' \/ Answered' # {}
             \/ \E f \in Fails : fail'[f] \in {"reread", "done", "error"}
  <2>1. CASE MarkReady(c)
    BY <1>0, <1>1, <2>1 DEF MarkReady, Mark, Retrievable, Row
  <2>2. CASE FindPending(c) \/ IssueCredential(c) \/ CompleteReread(c)
    <3>1. UNCHANGED <<transaction, poll, fail>> /\ Completed' \subseteq Completed
      BY <1>0, <2>2 DEF FindPending, IssueCredential, CompleteReread, CompleteTo,
         NotComplete, Completed
    <3> QED
      BY <1>1, <3>1 DEF ReadyUntilRetrieved, Retrievable, Answered
  <2> QED
    BY <1>2, <2>1, <2>2 DEF Complete
<1>3. ASSUME NEW f \in Fails, Fail(f)
      PROVE  \/ Retrievable(transaction)' \/ Answered' # {}
             \/ \E g \in Fails : fail'[g] \in {"reread", "done", "error"}
  <2>1. CASE MarkFailed(f)
    BY <1>0, <2>1 DEF MarkFailed, FailTo
  <2>2. CASE FailFind(f) \/ FailReread(f)
    <3>1. UNCHANGED <<transaction, poll, complete>>
      BY <2>2 DEF FailFind, FailReread, NotFail
    <3>2. \A g \in Fails : fail[g] \in {"reread", "done", "error"}
             => fail'[g] \in {"reread", "done", "error"}
      BY <1>0, <2>2 DEF FailFind, FailReread, FailTo
    <3> QED
      BY <1>1, <3>1, <3>2 DEF ReadyUntilRetrieved, Retrievable, Answered, Completed
  <2> QED
    BY <1>3, <2>1, <2>2 DEF Fail
<1>4. ASSUME NEW p \in Polls, Poll(p)
      PROVE  \/ Retrievable(transaction)' \/ Answered' # {}
             \/ \E f \in Fails : fail'[f] \in {"reread", "done", "error"}
  <2>0. UNCHANGED <<complete, fail>> /\ poll[p] # "expire"
    BY <1>1, <1>4 DEF InTime, Poll, PollFind, PollResolve, MarkExpired, MarkRetrieved, NotPoll
  <2>1. CASE MarkRetrieved(p) /\ Retrievable(transaction)
    BY <1>0, <2>1 DEF MarkRetrieved, PollTo, Answered
  <2>2. CASE ~(MarkRetrieved(p) /\ Retrievable(transaction))
    <3>1. UNCHANGED transaction
      BY <1>4, <2>0, <2>2 DEF Poll, PollFind, PollResolve, MarkExpired, MarkRetrieved
    <3>2. Answered \subseteq Answered'
      BY <1>0, <1>4 DEF Poll, PollFind, PollResolve, MarkExpired, MarkRetrieved, PollTo, Answered
    <3> QED
      BY <1>1, <2>0, <3>1, <3>2 DEF ReadyUntilRetrieved, Retrievable, Completed
  <2> QED
    BY <2>1, <2>2
<1>5. CASE DeleteExpired \/ PassExpiresAt \/ LoseSession \/ UNCHANGED deferredVars
  <2>1. UNCHANGED <<transaction, poll, complete, fail>>
    BY <1>1, <1>5 DEF DeleteExpired, Deletable, PassExpiresAt, LoseSession, NotRequests, deferredVars
  <2> QED
    BY <1>1, <2>1 DEF ReadyUntilRetrieved, Retrievable, Answered, Completed
<1> QED
  BY <1>2, <1>3, <1>4, <1>5 DEF DeferredNext

\* A credential that is ready stays so until a poll was answered with it, the backend
\* failed the transaction or its time is over.
THEOREM ReadyIsKept == DeferredSpec => []ReadyUntilRetrieved
<1>1. DeferredInit => InTime /\ ReadyUntilRetrieved
  BY DEF DeferredInit, InTime, ReadyUntilRetrieved, Completed
<1>2. DeferredTypeOK /\ InTime /\ ReadyUntilRetrieved /\ [DeferredNext]_deferredVars
      => (InTime /\ ReadyUntilRetrieved)'
  BY InTimeStep, ReadyStep
<1> QED
  BY <1>1, <1>2, DeferredTypes, PTL DEF DeferredSpec
-----------------------------------------------------------------------------
(***************************************************************************)
(* The active-credential limit (ActiveIssuance), which a request applies   *)
(* before it is answered, for every number of requests, tokens and         *)
(* attempts.                                                               *)
(*                                                                         *)
(* The argument: a request that read the slot knows its set as long as the *)
(* version is the one it read (Comparison), so the set it displaces is the *)
(* one that held the slot, and of another token (Displacement).  The       *)
(* credentials of the displaced set thereby change from active to pending, *)
(* until each is revoked or the request fails (Covered).                   *)
(***************************************************************************)

\* A request that may still lose a race has not lost them all.
TriesLeft ==
    \A q \in Issuances :
        at[q] \in {"start", "read", "insert", "update"} => tries[q] < MaxRetries

Comparison ==
    \A q \in Issuances : at[q] = "update" =>
        /\ slotSeen[q][1] \notin {NoSet, Token[q]}
        /\ slotSeen[q][2] \leq version
        /\ slotSeen[q][2] = version => slot = slotSeen[q][1]

Displacement ==
    \A q \in Issuances : at[q] \in {"find", "revoke"} =>
        /\ displaced[q] \in replaced
        /\ at[q] = "revoke" => \A e \in todo[q] : Of(e) = displaced[q]

\* OneActiveSet, also for the requests that are revoking.
Placed(q) == at[q] \in {"find", "revoke", "issued"}
Covered ==
    \A q \in Issuances :
        Placed(q) /\ status[Credential(q)] = "valid" =>
            \/ Token[q] \in {slot} \cup spared
            \/ \E p \in Issuances : Pending(p, Credential(q))

ActiveInv ==
    SlotTypeOK /\ TriesLeft /\ Comparison /\ Displacement /\ Covered /\ RevokedWereReplaced
-----------------------------------------------------------------------------
LEMMA CredentialIsEntry ==
    ASSUME SlotTypeOK, NEW q \in Issuances
    PROVE  Credential(q) \in Entries /\ Of(Credential(q)) = Token[q]
BY DEF SlotTypeOK, Credential, Entries, Of

LEMMA ActiveInit == SlotInit => ActiveInv
<1> SUFFICES ASSUME SlotInit PROVE ActiveInv
  OBVIOUS
<1> USE DEF SlotInit
<1>1. SlotTypeOK
  BY TokensGiven, BoundsGiven DEF SlotTypeOK
<1>2. TriesLeft
  BY TokensGiven, BoundsGiven DEF TriesLeft
<1>3. Comparison /\ Displacement
  BY DEF Comparison, Displacement
<1>4. Covered
  BY DEF Covered, Placed
<1>5. RevokedWereReplaced
  BY DEF RevokedWereReplaced
<1> QED
  BY <1>1, <1>2, <1>3, <1>4, <1>5 DEF ActiveInv
-----------------------------------------------------------------------------
(***************************************************************************)
(* Types and tries.                                                        *)
(***************************************************************************)
LEMMA ActiveTypeStep == ActiveInv /\ [SlotNext]_slotVars => SlotTypeOK' /\ TriesLeft'
<1> SUFFICES ASSUME ActiveInv, [SlotNext]_slotVars PROVE SlotTypeOK' /\ TriesLeft'
  OBVIOUS
<1> USE TokensGiven, BoundsGiven DEF ActiveInv, SlotTypeOK, TriesLeft
<1>1. ASSUME NEW q \in Issuances, Allocate(q) PROVE SlotTypeOK' /\ TriesLeft'
  BY <1>1 DEF Allocate, Go, history, Entries
<1>2. ASSUME NEW q \in Issuances, ReadSlot(q) PROVE SlotTypeOK' /\ TriesLeft'
  <2>1. at' \in [Issuances -> {"start", "read", "insert", "update", "find", "revoke",
                              "issued", "failed"}]
    BY <1>2 DEF ReadSlot, Go
  <2> QED
    BY <1>2, <2>1 DEF ReadSlot, Go, history
<1>3. ASSUME NEW q \in Issuances, LoseRace(q), at[q] \in {"insert", "update"},
             UNCHANGED <<status, attempt, slotSeen, todo>>
      PROVE  SlotTypeOK' /\ TriesLeft'
  <2>1. tries[q] + 1 \in 0..MaxRetries /\ tries'[q] = tries[q] + 1
    BY <1>3 DEF LoseRace
  <2>2. tries[q] + 1 # MaxRetries => tries[q] + 1 < MaxRetries
    BY <2>1
  <2> QED
    BY <1>3, <2>1, <2>2 DEF LoseRace, Go
<1>4. ASSUME NEW q \in Issuances, InsertSlot(q) PROVE SlotTypeOK' /\ TriesLeft'
  <2>1. CASE slot = NoSet
    BY <1>4, <2>1 DEF InsertSlot, Go, history
  <2> QED
    BY <1>3, <1>4, <2>1 DEF InsertSlot
<1>5. ASSUME NEW q \in Issuances, UpdateSlot(q) PROVE SlotTypeOK' /\ TriesLeft'
  <2>1. CASE version = slotSeen[q][2]
    <3>1. slotSeen[q][1] \in Sets /\ slotSeen[q][2] \in Nat
      BY <1>5 DEF UpdateSlot, Comparison
    <3>2. replaced' \subseteq Sets
      BY <1>5, <2>1, <3>1 DEF UpdateSlot
    <3>3. at' = [at EXCEPT ![q] = "find"] /\ UNCHANGED <<status, attempt, slotSeen, todo>>
      BY <1>5, <2>1 DEF UpdateSlot, Go
    <3>4. slot' \in Sets /\ version' \in Nat /\ displaced' \in [Issuances -> Sets \cup {NoSet}]
          /\ tries' = tries /\ spared' = spared
      BY <1>5, <2>1, <3>1 DEF UpdateSlot
    <3>5. SlotTypeOK'
      BY <3>2, <3>3, <3>4
    <3>6. TriesLeft'
      BY <3>3, <3>4
    <3> QED
      BY <3>5, <3>6
  <2> QED
    BY <1>3, <1>5, <2>1 DEF UpdateSlot
<1>6. ASSUME NEW q \in Issuances, FindEntries(q) PROVE SlotTypeOK' /\ TriesLeft'
  BY <1>6 DEF FindEntries, Go, history
<1>7. ASSUME NEW q \in Issuances, Revoke(q) PROVE SlotTypeOK' /\ TriesLeft'
  <2>1. CASE todo[q] = {} /\ Go(q, "issued") /\ UNCHANGED <<status, todo>>
    BY <1>7, <2>1 DEF Revoke, Go, history
  <2>2. ASSUME NEW e \in todo[q], status' = [status EXCEPT ![e] = "revoked"],
               todo' = [todo EXCEPT ![q] = @ \ {e}], UNCHANGED at
        PROVE  SlotTypeOK' /\ TriesLeft'
    <3>1. todo' \in [Issuances -> SUBSET Entries] /\ status' \in [Entries -> {"none", "valid", "revoked"}]
      BY <2>2
    <3> QED
      BY <1>7, <2>2, <3>1 DEF Revoke, history
  <2> QED
    BY <1>7, <2>1, <2>2 DEF Revoke
<1>8. ASSUME NEW q \in Issuances, FailIssuance(q) PROVE SlotTypeOK' /\ TriesLeft'
  <2>1. spared' \subseteq Sets
    BY <1>8 DEF FailIssuance, Displacement
  <2>2. attempt' \in [Issuances -> 1..MaxAttempts]
    BY <1>8 DEF FailIssuance, MayRetry
  <2>3. at' \in [Issuances -> {"start", "read", "insert", "update", "find", "revoke",
                              "issued", "failed"}]
    BY <1>8 DEF FailIssuance, Go
  <2>4. tries' = [tries EXCEPT ![q] = 0] /\ 0 < MaxRetries /\ 0 \in 0..MaxRetries
    BY <1>8 DEF FailIssuance
  <2>5. SlotTypeOK'
    <3>1. /\ UNCHANGED <<slot, version, status, slotSeen, replaced>>
          /\ displaced' = [displaced EXCEPT ![q] = NoSet]
          /\ todo' = [todo EXCEPT ![q] = {}]
      BY <1>8 DEF FailIssuance
    <3>2. displaced' \in [Issuances -> Sets \cup {NoSet}] /\ todo' \in [Issuances -> SUBSET Entries]
          /\ tries' \in [Issuances -> 0..MaxRetries]
      BY <2>4, <3>1
    <3> QED
      BY <2>1, <2>2, <2>3, <3>1, <3>2
  <2>6. TriesLeft'
    BY <1>8, <2>4 DEF FailIssuance, Go
  <2> QED
    BY <2>5, <2>6
<1>9. CASE UNCHANGED slotVars
  BY <1>9 DEF slotVars, work, history
<1> QED
  BY <1>1, <1>2, <1>4, <1>5, <1>6, <1>7, <1>8, <1>9 DEF SlotNext
-----------------------------------------------------------------------------
(***************************************************************************)
(* What requests know.                                                     *)
(***************************************************************************)
LEMMA KnowledgeStep == ActiveInv /\ [SlotNext]_slotVars => Comparison' /\ Displacement'
<1> SUFFICES ASSUME ActiveInv, [SlotNext]_slotVars PROVE Comparison' /\ Displacement'
  OBVIOUS
<1> USE TokensGiven, BoundsGiven DEF ActiveInv, SlotTypeOK, Comparison, Displacement
<1>1. ASSUME NEW q \in Issuances, Allocate(q) PROVE Comparison' /\ Displacement'
  BY <1>1 DEF Allocate, Go, history
<1>2. ASSUME NEW q \in Issuances, ReadSlot(q) PROVE Comparison' /\ Displacement'
  <2>1. \A p \in Issuances \ {q} : at'[p] = at[p] /\ slotSeen'[p] = slotSeen[p]
    BY <1>2 DEF ReadSlot, Go
  <2>2. /\ at'[q] \in {"insert", "issued", "update"}
        /\ at'[q] = "update" => slot \notin {NoSet, Token[q]}
        /\ slotSeen'[q] = <<slot, version>>
    BY <1>2 DEF ReadSlot, Go
  <2> QED
    BY <1>2, <2>1, <2>2 DEF ReadSlot, history
<1>3. ASSUME NEW q \in Issuances, LoseRace(q), UNCHANGED <<status, attempt, slotSeen, todo>>
      PROVE  Comparison' /\ Displacement'
  BY <1>3 DEF LoseRace, Go
<1>4. ASSUME NEW q \in Issuances, InsertSlot(q) PROVE Comparison' /\ Displacement'
  <2>1. CASE slot = NoSet
    BY <1>4, <2>1 DEF InsertSlot, Go, history
  <2> QED
    BY <1>3, <1>4, <2>1 DEF InsertSlot
<1>5. ASSUME NEW q \in Issuances, UpdateSlot(q) PROVE Comparison' /\ Displacement'
  <2>1. CASE version = slotSeen[q][2]
    <3>1. /\ at' = [at EXCEPT ![q] = "find"] /\ displaced' = [displaced EXCEPT ![q] = slotSeen[q][1]]
          /\ replaced' = replaced \cup ({slotSeen[q][1]} \ {Token[q]})
          /\ slotSeen' = slotSeen /\ todo' = todo /\ version' = version + 1
      BY <1>5, <2>1 DEF UpdateSlot, Go
    <3>2. slotSeen[q][1] # Token[q]
      BY <1>5 DEF UpdateSlot
    <3>3. Comparison'
      <4>1. \A p \in Issuances : at'[p] = "update" => p # q /\ at[p] = "update"
        BY <3>1
      <4>2. \A p \in Issuances : at[p] = "update" => slotSeen[p][2] \in Nat /\ slotSeen[p][2] < version'
        BY <3>1
      <4> QED
        BY <3>1, <4>1, <4>2
    <3>4. Displacement'
      <4>1. displaced'[q] \in replaced' /\ at'[q] # "revoke"
        BY <3>1, <3>2
      <4>2. \A p \in Issuances \ {q} : at'[p] = at[p] /\ displaced'[p] = displaced[p]
        BY <3>1
      <4> QED
        BY <3>1, <4>1, <4>2
    <3> QED
      BY <3>3, <3>4
  <2> QED
    BY <1>3, <1>5, <2>1 DEF UpdateSlot
<1>6. ASSUME NEW q \in Issuances, FindEntries(q) PROVE Comparison' /\ Displacement'
  BY <1>6 DEF FindEntries, Go, history
<1>7. ASSUME NEW q \in Issuances, Revoke(q) PROVE Comparison' /\ Displacement'
  BY <1>7 DEF Revoke, Go, history
<1>8. ASSUME NEW q \in Issuances, FailIssuance(q) PROVE Comparison' /\ Displacement'
  BY <1>8 DEF FailIssuance, Go
<1>9. CASE UNCHANGED slotVars
  BY <1>9 DEF slotVars, work, history
<1> QED
  BY <1>1, <1>2, <1>4, <1>5, <1>6, <1>7, <1>8, <1>9 DEF SlotNext

LEMMA RevokedStep == ActiveInv /\ [SlotNext]_slotVars => RevokedWereReplaced'
<1> SUFFICES ASSUME ActiveInv, [SlotNext]_slotVars PROVE RevokedWereReplaced'
  OBVIOUS
<1> USE DEF ActiveInv, SlotTypeOK, RevokedWereReplaced, Of
<1>1. replaced \subseteq replaced'
  BY DEF SlotNext, Allocate, ReadSlot, InsertSlot, UpdateSlot, LoseRace,
     FindEntries, Revoke,
         FailIssuance, slotVars, history
<1>2. ASSUME NEW e \in Entries, status'[e] = "revoked", status[e] # "revoked"
      PROVE  Of(e) \in replaced
  <2>1. PICK q \in Issuances : Revoke(q)
    BY <1>2 DEF SlotNext, Allocate, ReadSlot, InsertSlot, UpdateSlot, FindEntries,
       FailIssuance,
                slotVars, Entries
  <2>2. e \in todo[q] /\ at[q] = "revoke"
    BY <1>2, <2>1 DEF Revoke
  <2> QED
    BY <2>2 DEF Displacement
<1> QED
  BY <1>1, <1>2
-----------------------------------------------------------------------------
(***************************************************************************)
(* Every valid credential is active, pending or spared.                    *)
(***************************************************************************)
\* The credentials of other requests stay covered in a step that keeps the slot and
\* takes nothing from what is pending.
LEMMA OthersCovered ==
    ASSUME ActiveInv, SlotTypeOK', NEW q \in Issuances,
           slot' = slot, spared \subseteq spared',
           \A p \in Issuances \ {q} : at'[p] = at[p] /\ attempt'[p] = attempt[p],
           \A e \in Entries : status'[e] = "valid" => status[e] = "valid" \/ e[1] = q,
           \A p \in Issuances, e \in Entries :
               Pending(p, e) /\ status'[e] = "valid" => Pending(p, e)' \/ Of(e) \in spared'
    PROVE  \A r \in Issuances \ {q} :
               Placed(r)' /\ status'[Credential(r)'] = "valid" =>
                   \/ Token[r] \in {slot'} \cup spared'
                   \/ \E p \in Issuances : Pending(p, Credential(r))'
<1> TAKE r \in Issuances \ {q}
<1> HAVE Placed(r)' /\ status'[Credential(r)'] = "valid"
<1>1. Credential(r)' = Credential(r) /\ Credential(r) \in Entries
      /\ Of(Credential(r)) = Token[r] /\ Credential(r)[1] = r
  BY CredentialIsEntry DEF ActiveInv, Credential
<1>2. Placed(r) /\ status[Credential(r)] = "valid"
  BY <1>1 DEF Placed
<1>3. CASE Token[r] \in {slot} \cup spared
  BY <1>3
<1>4. CASE \E p \in Issuances : Pending(p, Credential(r))
  <2>1. PICK p \in Issuances : Pending(p, Credential(r))
    BY <1>4
  <2>2. Pending(p, Credential(r))' \/ Token[r] \in spared'
    <3> DEFINE e == Credential(r)
    <3>1. Pending(p, e)' <=> Pending(p, Credential(r))'
      BY <1>1 DEF Pending, Of
    <3> QED
      BY <1>1, <2>1, <3>1
  <2> QED
    BY <2>2
<1> QED
  BY <1>2, <1>3, <1>4 DEF ActiveInv, Covered

\* A step that hands the slot over or changes nothing of it is covered request by
\* request.
LEMMA CoveredStep == ActiveInv /\ SlotTypeOK' /\ [SlotNext]_slotVars => Covered'
<1> SUFFICES ASSUME ActiveInv, SlotTypeOK', [SlotNext]_slotVars PROVE Covered'
  OBVIOUS
<1> USE TokensGiven, BoundsGiven DEF ActiveInv, SlotTypeOK
<1>0. ASSUME NEW q \in Issuances, at'[q] \notin {"find", "revoke", "issued"},
             \A r \in Issuances \ {q} :
               Placed(r)' /\ status'[Credential(r)'] = "valid" =>
                   \/ Token[r] \in {slot'} \cup spared'
                   \/ \E p \in Issuances : Pending(p, Credential(r))'
      PROVE  Covered'
  BY <1>0 DEF Covered, Placed
<1>1. ASSUME NEW q \in Issuances, Allocate(q) PROVE Covered'
  <2>1. \A p \in Issuances, e \in Entries : Pending(p, e) => Pending(p, e)'
    BY <1>1 DEF Allocate, Go, Pending
  <2>2. \A e \in Entries : status'[e] = "valid" => status[e] = "valid" \/ e[1] = q
    BY <1>1 DEF Allocate
  <2>3. /\ at'[q] = "read" /\ slot' = slot /\ spared' = spared
        /\ \A p \in Issuances \ {q} : at'[p] = at[p] /\ attempt'[p] = attempt[p]
    BY <1>1 DEF Allocate, Go, history
  <2> QED
    BY <1>0, <2>1, <2>2, <2>3, OthersCovered
<1>2. ASSUME NEW q \in Issuances, ReadSlot(q) PROVE Covered'
  <2>1. \A p \in Issuances, e \in Entries : Pending(p, e) => Pending(p, e)'
    BY <1>2 DEF ReadSlot, Go, Pending
  <2>2. /\ status' = status /\ slot' = slot /\ spared' = spared
        /\ \A p \in Issuances \ {q} : at'[p] = at[p] /\ attempt'[p] = attempt[p]
        /\ at'[q] \in {"insert", "update", "issued"}
        /\ at'[q] = "issued" => slot = Token[q]
    BY <1>2 DEF ReadSlot, Go, history
  <2>3. \A r \in Issuances \ {q} :
               Placed(r)' /\ status'[Credential(r)'] = "valid" =>
                   \/ Token[r] \in {slot'} \cup spared'
                   \/ \E p \in Issuances : Pending(p, Credential(r))'
    BY <2>1, <2>2, OthersCovered
  <2> QED
    BY <2>2, <2>3 DEF Covered, Placed
<1>3. ASSUME NEW q \in Issuances, LoseRace(q), at[q] \in {"insert", "update"},
             UNCHANGED <<status, attempt, slotSeen, todo>>
      PROVE  Covered'
  <2>1. \A p \in Issuances, e \in Entries : Pending(p, e) => Pending(p, e)'
    BY <1>3 DEF LoseRace, Go, Pending
  <2>2. /\ status' = status /\ slot' = slot /\ spared \subseteq spared'
        /\ \A p \in Issuances \ {q} : at'[p] = at[p] /\ attempt'[p] = attempt[p]
        /\ at'[q] = "read" \/ Token[q] \in spared'
    BY <1>3 DEF LoseRace, Go
  <2>3. \A r \in Issuances \ {q} :
               Placed(r)' /\ status'[Credential(r)'] = "valid" =>
                   \/ Token[r] \in {slot'} \cup spared'
                   \/ \E p \in Issuances : Pending(p, Credential(r))'
    BY <2>1, <2>2, OthersCovered
  <2> QED
    BY <2>2, <2>3 DEF Covered, Placed
<1>4. ASSUME NEW q \in Issuances, InsertSlot(q) PROVE Covered'
  <2>1. CASE slot = NoSet
    <3>1. /\ status' = status /\ slot' = Token[q] /\ spared' = spared /\ attempt' = attempt
          /\ \A p \in Issuances \ {q} : at'[p] = at[p]
      BY <1>4, <2>1 DEF InsertSlot, Go, history
    <3>2. ASSUME NEW r \in Issuances \ {q}, Placed(r)', status'[Credential(r)'] = "valid"
          PROVE  \/ Token[r] \in spared'
                 \/ \E p \in Issuances : Pending(p, Credential(r))'
      <4>1. Credential(r)' = Credential(r)
        BY <3>1 DEF Credential
      <4>2. Placed(r) /\ status[Credential(r)] = "valid"
        BY <3>1, <3>2, <4>1 DEF Placed
      <4>3. Token[r] \in spared \/ \E p \in Issuances : Pending(p, Credential(r))
        <5>1. r \in Issuances /\ Token[r] # slot
          BY <2>1, TokensGiven
        <5> QED
          BY <4>2, <5>1 DEF Covered
      <4>4. \A p \in Issuances : Pending(p, Credential(r)) => Pending(p, Credential(r))'
        <5>1. UNCHANGED <<displaced, todo>> /\ at[q] \notin {"find", "revoke"}
          BY <1>4, <2>1 DEF InsertSlot, history
        <5> QED
          BY <3>1, <4>1, <5>1 DEF Pending, Of
      <4> QED
        BY <3>1, <4>3, <4>4
    <3> QED
      BY <3>1, <3>2 DEF Covered
  <2> QED
    BY <1>3, <1>4, <2>1 DEF InsertSlot
<1>5. ASSUME NEW q \in Issuances, UpdateSlot(q) PROVE Covered'
  <2>1. CASE version = slotSeen[q][2]
    <3>1. /\ status' = status /\ slot' = Token[q] /\ spared' = spared /\ attempt' = attempt
          /\ \A p \in Issuances \ {q} : at'[p] = at[p] /\ displaced'[p] = displaced[p]
          /\ at'[q] = "find" /\ displaced'[q] = slot /\ todo' = todo
      BY <1>5, <2>1 DEF UpdateSlot, Go, Comparison
    <3>2. ASSUME NEW r \in Issuances \ {q}, Placed(r)', status'[Credential(r)'] = "valid"
          PROVE  \/ Token[r] \in spared'
                 \/ \E p \in Issuances : Pending(p, Credential(r))'
      <4>1. Credential(r)' = Credential(r) /\ Of(Credential(r)) = Token[r]
        BY <3>1, CredentialIsEntry DEF Credential
      <4>2. Placed(r) /\ status[Credential(r)] = "valid"
        BY <3>1, <3>2, <4>1 DEF Placed
      <4>3. CASE Token[r] = slot
        BY <3>1, <4>1, <4>3 DEF Pending, Of
      <4>4. ASSUME NEW p \in Issuances, Pending(p, Credential(r))
            PROVE  Pending(p, Credential(r))'
        <5>1. p # q
          BY <1>5, <4>4 DEF UpdateSlot, Pending
        <5> QED
          BY <3>1, <4>1, <4>4, <5>1 DEF Pending, Of
      <4> QED
        BY <3>1, <4>2, <4>3, <4>4 DEF Covered
    <3> QED
      BY <3>1, <3>2 DEF Covered
  <2> QED
    BY <1>3, <1>5, <2>1 DEF UpdateSlot
<1>6. ASSUME NEW q \in Issuances, FindEntries(q) PROVE Covered'
  <2>1. /\ status' = status /\ slot' = slot /\ spared' = spared /\ attempt' = attempt
        /\ displaced' = displaced /\ at[q] = "find" /\ at'[q] = "revoke"
        /\ \A p \in Issuances \ {q} : at'[p] = at[p] /\ todo'[p] = todo[p]
        /\ todo'[q] = {e \in Entries : Of(e) = displaced[q] /\ status[e] # "none"}
    BY <1>6 DEF FindEntries, Go, history
  <2>2. ASSUME NEW r \in Issuances, Placed(r)', status'[Credential(r)'] = "valid"
        PROVE  \/ Token[r] \in {slot'} \cup spared'
               \/ \E p \in Issuances : Pending(p, Credential(r))'
    <3>1. Credential(r)' = Credential(r) /\ Credential(r) \in Entries
      BY <2>1, CredentialIsEntry DEF Credential
    <3>2. Placed(r) /\ status[Credential(r)] = "valid"
      BY <2>1, <2>2, <3>1 DEF Placed
    <3>3. ASSUME NEW p \in Issuances, Pending(p, Credential(r))
          PROVE  Pending(p, Credential(r))'
      <4>1. CASE p = q
        BY <2>1, <3>1, <3>2, <3>3, <4>1 DEF Pending
      <4>2. CASE p # q
        BY <2>1, <3>1, <3>3, <4>2 DEF Pending, Of
      <4> QED
        BY <4>1, <4>2
    <3> QED
      BY <2>1, <3>2, <3>3 DEF Covered
  <2> QED
    BY <2>2 DEF Covered
<1>7. ASSUME NEW q \in Issuances, Revoke(q) PROVE Covered'
  <2>1. /\ slot' = slot /\ spared' = spared /\ attempt' = attempt /\ displaced' = displaced
        /\ at[q] = "revoke" /\ at'[q] \in {"revoke", "issued"}
        /\ \A p \in Issuances \ {q} : at'[p] = at[p] /\ todo'[p] = todo[p]
    BY <1>7 DEF Revoke, Go, history
  <2>2. \A e \in Entries : status'[e] = "valid" =>
           status[e] = "valid" /\ (e \in todo[q] => e \in todo'[q] /\ at'[q] = "revoke")
    BY <1>7 DEF Revoke, Go
  <2>3. ASSUME NEW r \in Issuances, Placed(r)', status'[Credential(r)'] = "valid"
        PROVE  \/ Token[r] \in {slot'} \cup spared'
               \/ \E p \in Issuances : Pending(p, Credential(r))'
    <3>1. Credential(r)' = Credential(r) /\ Credential(r) \in Entries
      BY <2>1, CredentialIsEntry DEF Credential
    <3>2. Placed(r) /\ status[Credential(r)] = "valid"
      BY <2>1, <2>2, <2>3, <3>1 DEF Placed
    <3>3. ASSUME NEW p \in Issuances, Pending(p, Credential(r))
          PROVE  Pending(p, Credential(r))'
      <4>1. CASE p = q
        BY <2>1, <2>2, <2>3, <3>1, <3>3, <4>1 DEF Pending
      <4>2. CASE p # q
        BY <2>1, <3>1, <3>3, <4>2 DEF Pending, Of
      <4> QED
        BY <4>1, <4>2
    <3> QED
      BY <2>1, <3>2, <3>3 DEF Covered
  <2> QED
    BY <2>3 DEF Covered
<1>8. ASSUME NEW q \in Issuances, FailIssuance(q) PROVE Covered'
  <2>1. /\ status' = status /\ slot' = slot /\ spared \subseteq spared'
        /\ \A p \in Issuances \ {q} : /\ at'[p] = at[p] /\ attempt'[p] = attempt[p]
                                    /\ displaced'[p] = displaced[p] /\ todo'[p] = todo[p]
        /\ at'[q] \in {"start", "failed"}
        /\ at[q] \in {"find", "revoke"} => displaced[q] \in spared'
    BY <1>8 DEF FailIssuance, Go
  <2>2. ASSUME NEW p \in Issuances, NEW e \in Entries, Pending(p, e)
        PROVE  Pending(p, e)' \/ Of(e) \in spared'
    <3>1. CASE p = q
      BY <2>1, <2>2, <3>1 DEF Pending, Displacement
    <3>2. CASE p # q
      BY <2>1, <2>2, <3>2 DEF Pending, Of
    <3> QED
      BY <3>1, <3>2
  <2> QED
    BY <1>0, <2>1, <2>2, OthersCovered
<1>9. CASE UNCHANGED slotVars
  BY <1>9 DEF slotVars, work, history, Covered, Placed, Credential, Pending, Of
<1> QED
  BY <1>1, <1>2, <1>4, <1>5, <1>6, <1>7, <1>8, <1>9 DEF SlotNext
-----------------------------------------------------------------------------
(***************************************************************************)
(* The theorems.                                                           *)
(***************************************************************************)
\* IInv is an invariant of the active-credential limit.
THEOREM ActiveInductive == SlotSpec => []ActiveInv
<1>1. ActiveInv /\ [SlotNext]_slotVars => ActiveInv'
  BY ActiveTypeStep, KnowledgeStep, RevokedStep, CoveredStep DEF ActiveInv
<1>2. SlotInit => ActiveInv
  BY ActiveInit
<1> QED
  BY <1>1, <1>2, PTL DEF SlotSpec

\* Every state of the slot, the entries and the requests is well formed.
THEOREM ActiveIssuanceTypes == SlotSpec => []SlotTypeOK
<1>1. ActiveInv => SlotTypeOK
  BY DEF ActiveInv
<1> QED
  BY ActiveInductive, <1>1, PTL

\* However requests interleave, a valid credential is of the active set, or about to
\* be revoked, or of a set that was spared.
THEOREM OnlyOneSetActive == SlotSpec => []OneActiveSet
<1>1. ActiveInv => OneActiveSet
  BY DEF ActiveInv, Covered, OneActiveSet, Placed
<1> QED
  BY ActiveInductive, <1>1, PTL

\* Nobody revokes a credential whose set no other token has displaced.
THEOREM NeverRevokedUnreplaced == SlotSpec => []RevokedWereReplaced
<1>1. ActiveInv => RevokedWereReplaced
  BY DEF ActiveInv
<1> QED
  BY ActiveInductive, <1>1, PTL
=============================================================================
