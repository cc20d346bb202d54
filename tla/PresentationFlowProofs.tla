----------------------- MODULE PresentationFlowProofs -----------------------
(***************************************************************************)
(* The safety of a presentation session for every number of wallets,       *)
(* operators and backend instances.                                        *)
(*                                                                         *)
(* The argument: a handler ends the session with an update that demands an *)
(* open row, and the status it writes is frozen from then on, because      *)
(* every later write of the status demands an open row as well.  So the    *)
(* status remembers who won: Settled ties what each winner does next       *)
(* (announce, call the webhook) to the frozen status.                      *)
(***************************************************************************)
EXTENDS PresentationFlow, TLAPS

\* The row after the session was redeemed.
RedeemedRow ==
    /\ session.consumed => session.status = "completed"
    /\ ~session.consumed => session.code = None

\* Whoever ended the session wrote the status it still has.
Settled ==
    /\ \A r \in Responses :
        /\ responding[r] = "completed" => session.status = "completed" /\ session.code = r
        /\ responding[r] = "failed" => session.status = "failed"
        /\ responding[r] = "done" => session.status \in {"completed", "failed"}
    /\ \A c \in Cancels : CancelledFirst(c) => session.status = "cancelled"
    /\ \A j \in Jobs : ExpiredFirst(j) => session.status = "expired"

\* At most one handler of a kind ended the session.
Unique ==
    /\ \A r1, r2 \in Responses : RespondedFirst(r1) /\ RespondedFirst(r2) => r1 = r2
    /\ \A c1, c2 \in Cancels : CancelledFirst(c1) /\ CancelledFirst(c2) => c1 = c2
    /\ \A j1, j2 \in Jobs : ExpiredFirst(j1) /\ ExpiredFirst(j2) => j1 = j2
    /\ \A f1, f2 \in Fetches : fetching[f1] = "announce" /\ fetching[f2] = "announce" => f1 = f2

\* What is still to be published has not been published, and what was published
\* is the status of the row (or the passing status "fetched").
Published ==
    /\ \A s \in Status : announced[s] <= 1
    /\ \A s \in Terminal : announced[s] > 0 => session.status = s
    /\ announced["active"] = 0
    /\ session.status = "active" => announced["fetched"] = 0
    /\ \A f \in Fetches : fetching[f] = "announce" =>
           announced["fetched"] = 0 /\ session.status # "active"
    /\ \A r \in Responses : responding[r] \in {"completed", "failed"} =>
           announced[responding[r]] = 0
    /\ \A c \in Cancels : cancelling[c] = "cancelled" => announced["cancelled"] = 0
    /\ \A j \in Jobs : ExpiredFirst(j) => announced["expired"] = 0

\* The webhook was called by the response that ended the session.
Delivered ==
    \A w \in webhook :
        /\ w[2] = session.status
        /\ w[2] = "cancelled" => w[1] \in Cancels /\ CancelledFirst(w[1])
        /\ w[2] # "cancelled" => w[1] \in Responses /\ responding[w[1]] = "done"
        /\ w[2] = "completed" => session.code = w[1]

\* What a refused cancellation found was final when it found it.
Refused ==
    /\ session.status = "expired" => overdue
    /\ \A j \in Jobs : job[j] = "expire" => overdue
    /\ \A c \in Cancels :
        /\ cancelling[c] = "reread" =>
               ~session.stored \/ session.status \in Terminal \/ overdue
        /\ reason[c] # "redeemed"
        /\ reason[c] = "expired" => overdue
        /\ reason[c] \in Terminal \ {"expired"} => session.status = reason[c]

IInv == /\ TypeOK /\ RedeemedRow /\ Settled /\ Unique /\ Published
        /\ Delivered /\ Refused
-----------------------------------------------------------------------------
(***************************************************************************)
(* Types.                                                                  *)
(***************************************************************************)
\* What stateUpdate writes, field by field.
LEMMA StateUpdateFields ==
    ASSUME NEW row \in Rows, NEW status \in Status
    PROVE  /\ StateUpdate(row, status) \in Rows
           /\ StateUpdate(row, status).status = status
           /\ StateUpdate(row, status).stored = row.stored
           /\ StateUpdate(row, status).consumed = row.consumed
           /\ StateUpdate(row, status).code = row.code
<1> DEFINE key == IF status \in Terminal THEN None ELSE row.key
<1>1. key \in Generators \cup {None}
  BY DEF Rows
<1>2. StateUpdate(row, status) = [[row EXCEPT !.status = status] EXCEPT !.key = key]
  BY DEF Rows, StateUpdate
<1> HIDE DEF key
<1> QED
  BY <1>1, <1>2 DEF Rows

LEMMA TypeInit == Init => TypeOK
<1> SUFFICES ASSUME Init PROVE TypeOK
  OBVIOUS
<1>1. session \in Rows
  <2>1. PICK k \in Kinds : session = [kind |-> k, stored |-> TRUE, status |-> "active",
            consumed |-> FALSE, code |-> None, key |-> None,
            nonce |-> IF k = "iso-18013-7" THEN Offer ELSE None, request |-> None]
    BY DEF Init
  <2> QED
    BY <2>1 DEF Rows, Status, Open, Generators
<1>2. offering \in OfferPC
  BY DEF Init, OfferPC
<1> QED
  BY <1>1, <1>2 DEF Init, TypeOK, Status, Open, Terminal, FetchPC, ResponsePC, CancelPC, JobPC

LEMMA TypeStep == TypeOK /\ [Next]_vars => TypeOK'
<1> SUFFICES ASSUME TypeOK, [Next]_vars PROVE TypeOK'
  OBVIOUS
<1> USE DEF TypeOK, Status, Open, Terminal, FetchPC, ResponsePC, CancelPC, JobPC
<1>0. ASSUME CreateOffer
      PROVE  TypeOK'
  BY <1>0 DEF Rows, Generators, CreateOffer, OfferNonce, OfferKey, OfferStore, OfferAbort,
     OfferPC, Write, NotOffer
<1>1. ASSUME NEW f \in Fetches, FetchLoad(f)
      PROVE  TypeOK'
  BY <1>1 DEF Rows, FetchLoad, NeedsRequest, Usable, NotFetch
<1>2. ASSUME NEW f \in Fetches, FetchNonce(f)
      PROVE  TypeOK'
  BY <1>2 DEF Rows, Generators, FetchNonce, Write, NotFetch
<1>3. ASSUME NEW f \in Fetches, FetchKey(f)
      PROVE  TypeOK'
  BY <1>3 DEF Rows, Generators, FetchKey, Write, NotFetch
<1>4. ASSUME NEW f \in Fetches, FetchStore(f)
      PROVE  TypeOK'
  BY <1>4 DEF Rows, Generators, FetchStore, Write, NotFetch
<1>5. ASSUME NEW f \in Fetches, FetchMark(f)
      PROVE  TypeOK'
  BY <1>5, StateUpdateFields DEF Rows, FetchMark, InStatus, NotFetch
<1>6. ASSUME NEW f \in Fetches, FetchAnnounce(f)
      PROVE  TypeOK'
  BY <1>6 DEF FetchAnnounce, Announce, NotFetch
<1>7. ASSUME NEW f \in Fetches, FetchAbort(f)
      PROVE  TypeOK'
  BY <1>7 DEF FetchAbort, NotFetch
<1>8. ASSUME NEW r \in Responses, RespondLoad(r)
      PROVE  TypeOK'
  BY <1>8 DEF RespondLoad, Usable, NextOfResponse, NextOfIsoResponse, NotResponse
<1>9. ASSUME NEW r \in Responses, RespondComplete(r)
      PROVE  TypeOK'
  <2>1. StateUpdate(session, "completed") \in Rows
    BY StateUpdateFields
  <2>2. [StateUpdate(session, "completed") EXCEPT !.consumed = TRUE, !.code = r] \in Rows
    BY <2>1 DEF Rows
  <2>3. session' \in Rows
    BY <1>9, <2>2 DEF RespondComplete
  <2> QED
    BY <1>9, <2>3 DEF RespondComplete, NotResponse
<1>10. ASSUME NEW r \in Responses, RespondFail(r)
      PROVE  TypeOK'
  BY <1>10, StateUpdateFields DEF RespondFail, Unconsumed, Rows, NotResponse
<1>11. ASSUME NEW r \in Responses, RespondPublish(r)
      PROVE  TypeOK'
  BY <1>11 DEF RespondPublish, Announce, NotResponse
<1>12. ASSUME NEW r \in Responses, RespondAbort(r)
      PROVE  TypeOK'
  BY <1>12 DEF RespondAbort, NotResponse
<1>13. ASSUME NEW c \in Cancels, CancelLoad(c)
      PROVE  TypeOK'
  BY <1>13 DEF CancelLoad, NotCancel
<1>14. ASSUME NEW c \in Cancels, CancelUpdate(c)
      PROVE  TypeOK'
  BY <1>14, StateUpdateFields DEF CancelUpdate, Unconsumed, Rows, NotCancel
<1>15. ASSUME NEW c \in Cancels, CancelReread(c)
      PROVE  TypeOK'
  BY <1>15 DEF CancelReread, NotCancellableReason, NotCancel
<1>16a. ASSUME NEW c \in Cancels, CancelNotify(c)
      PROVE  TypeOK'
  BY <1>16a DEF CancelNotify, NotCancel
<1>16. ASSUME NEW c \in Cancels, CancelAnnounce(c)
      PROVE  TypeOK'
  BY <1>16 DEF CancelAnnounce, Announce, NotCancel
<1>17. ASSUME NEW j \in Jobs, JobSelect(j)
      PROVE  TypeOK'
  BY <1>17 DEF JobSelect, Expirable, InStatus, NotJob
<1>18. ASSUME NEW j \in Jobs, JobExpire(j)
      PROVE  TypeOK'
  BY <1>18, StateUpdateFields DEF JobExpire, InStatus, NotJob
<1>19. ASSUME NEW j \in Jobs, JobAnnounce(j)
      PROVE  TypeOK'
  BY <1>19 DEF JobAnnounce, Announce, NotJob
<1>20. ASSUME NEW j \in Jobs, JobRetain(j)
      PROVE  TypeOK'
  <2>1. /\ [session EXCEPT !.request = None, !.key = None] \in Rows
        /\ [session EXCEPT !.stored = FALSE] \in Rows
    BY DEF Rows
  <2>2. session' \in Rows
    BY <1>20, <2>1 DEF JobRetain, Write
  <2> QED
    BY <1>20, <2>2 DEF JobRetain, NotJob
<1>21. ASSUME DeleteSession
      PROVE  TypeOK'
  BY <1>21 DEF Rows, Generators, DeleteSession
<1>22. ASSUME PassExpiry
      PROVE  TypeOK'
  BY <1>22 DEF PassExpiry
<1>23. ASSUME PassRetention
      PROVE  TypeOK'
  BY <1>23 DEF PassRetention
<1>24. CASE UNCHANGED vars
  BY <1>24 DEF vars
<1> QED
  BY <1>0, <1>1, <1>2, <1>3, <1>4, <1>5, <1>6, <1>7, <1>8, <1>9, <1>10, <1>11, <1>12, <1>13, <1>14, <1>15, <1>16a, <1>16, <1>17, <1>18, <1>19, <1>20, <1>21, <1>22, <1>23, <1>24 DEF Next, Fetch, Respond, Cancel, JobStep

LEMMA InvStep == IInv /\ [Next]_vars => IInv'
<1> SUFFICES ASSUME IInv, [Next]_vars PROVE IInv'
  OBVIOUS
<1>0. TypeOK /\ TypeOK'
  BY TypeStep DEF IInv
<1> USE DEF IInv, RedeemedRow, Settled, Unique, Published, Delivered, Refused, RespondedFirst, CancelledFirst, ExpiredFirst, TypeOK, Rows, Status, Open, Terminal, FetchPC, ResponsePC, CancelPC, JobPC
<1>1a. ASSUME CreateOffer
      PROVE  IInv'
  <2>1. /\ session'.status = session.status /\ session'.code = session.code
        /\ session'.consumed <=> session.consumed
        /\ session'.stored = session.stored
    BY <1>0, <1>1a DEF CreateOffer, OfferNonce, OfferKey, OfferStore, OfferAbort, Write
  <2>2. NotOffer
    BY <1>1a DEF CreateOffer, OfferNonce, OfferKey, OfferStore, OfferAbort
  <2> QED
    BY <1>0, <2>1, <2>2 DEF NotOffer
<1>1. ASSUME NEW f \in Fetches, FetchLoad(f)
      PROVE  IInv'
  BY <1>0, <1>1 DEF FetchLoad, NeedsRequest, Usable, NotFetch
<1>2. ASSUME NEW f \in Fetches, FetchNonce(f)
      PROVE  IInv'
  BY <1>0, <1>2 DEF FetchNonce, Write, NotFetch
<1>3. ASSUME NEW f \in Fetches, FetchKey(f)
      PROVE  IInv'
  BY <1>0, <1>3 DEF FetchKey, Write, NotFetch
<1>4. ASSUME NEW f \in Fetches, FetchStore(f)
      PROVE  IInv'
  BY <1>0, <1>4 DEF FetchStore, Write, NotFetch
<1>5. ASSUME NEW f \in Fetches, FetchMark(f)
      PROVE  IInv'
  BY <1>0, <1>5, StateUpdateFields DEF FetchMark, InStatus, NotFetch
<1>6. ASSUME NEW f \in Fetches, FetchAnnounce(f)
      PROVE  IInv'
  BY <1>0, <1>6 DEF FetchAnnounce, Announce, NotFetch
<1>7. ASSUME NEW f \in Fetches, FetchAbort(f)
      PROVE  IInv'
  BY <1>0, <1>7 DEF FetchAbort, NotFetch
<1>8. ASSUME NEW r \in Responses, RespondLoad(r)
      PROVE  IInv'
  BY <1>0, <1>8 DEF RespondLoad, Usable, NextOfResponse, NextOfIsoResponse, NotResponse
<1>9. ASSUME NEW r \in Responses, RespondComplete(r)
      PROVE  IInv'
  <2>1. CASE ~Unconsumed(session, overdue)
    BY <1>0, <1>9, <2>1 DEF RespondComplete, NotResponse
  <2>2. CASE Unconsumed(session, overdue)
    \* The row was open, so by Settled nobody had won before.
    <3>1. session.status \in Open
      BY <2>2 DEF Unconsumed
    <3>2. /\ \A q \in Responses : ~RespondedFirst(q)
          /\ \A c \in Cancels : ~CancelledFirst(c)
          /\ \A j \in Jobs : ~ExpiredFirst(j)
          /\ webhook = {}
      BY <3>1
    <3>3. /\ session'.status = "completed" /\ session'.code = r /\ session'.consumed
          /\ session'.stored = session.stored
      <4> DEFINE row == StateUpdate(session, "completed")
      <4>1. row \in Rows /\ row.stored = session.stored /\ row.status = "completed"
        BY <1>0, StateUpdateFields
      <4>2. session' = [row EXCEPT !.consumed = TRUE, !.code = r]
        BY <1>9, <2>2 DEF RespondComplete
      <4> HIDE DEF row
      <4> QED
        BY <4>1, <4>2
    <3>4. responding' = [responding EXCEPT ![r] = "completed"]
      BY <1>9, <2>2 DEF RespondComplete
    <3> QED
      BY <1>0, <1>9, <3>1, <3>2, <3>3, <3>4 DEF RespondComplete, NotResponse
  <2> QED
    BY <2>1, <2>2
<1>10. ASSUME NEW r \in Responses, RespondFail(r)
      PROVE  IInv'
  BY <1>0, <1>10, StateUpdateFields DEF RespondFail, Unconsumed, NotResponse
<1>11. ASSUME NEW r \in Responses, RespondPublish(r)
      PROVE  IInv'
  BY <1>0, <1>11 DEF RespondPublish, Announce, NotResponse
<1>12. ASSUME NEW r \in Responses, RespondAbort(r)
      PROVE  IInv'
  BY <1>0, <1>12 DEF RespondAbort, NotResponse
<1>13. ASSUME NEW c \in Cancels, CancelLoad(c)
      PROVE  IInv'
  BY <1>0, <1>13 DEF CancelLoad, NotCancel
<1>14. ASSUME NEW c \in Cancels, CancelUpdate(c)
      PROVE  IInv'
  BY <1>0, <1>14, StateUpdateFields DEF CancelUpdate, Unconsumed, NotCancel
<1>15. ASSUME NEW c \in Cancels, CancelReread(c)
      PROVE  IInv'
  \* What it reads is final or overdue, and a redeemed session is completed.
  <2>1. CASE ~session.stored
    BY <1>0, <1>15, <2>1, NoReasonIsNone DEF CancelReread, NotCancel
  <2>2. CASE session.stored /\ session.status \in Terminal
    BY <1>0, <1>15, <2>2 DEF CancelReread, NotCancellableReason, NotCancel
  <2>3. CASE session.stored /\ session.status \notin Terminal
    <3>1. ~session.consumed /\ overdue
      BY <1>15, <2>3 DEF CancelReread
    <3>2. NotCancellableReason(session) = "expired"
      BY <2>3, <3>1 DEF NotCancellableReason
    <3> QED
      BY <1>0, <1>15, <2>3, <3>1, <3>2 DEF CancelReread, NotCancel
  <2> QED
    BY <2>1, <2>2, <2>3
<1>16a. ASSUME NEW c \in Cancels, CancelNotify(c)
      PROVE  IInv'
  BY <1>0, <1>16a DEF CancelNotify, NotCancel
<1>16. ASSUME NEW c \in Cancels, CancelAnnounce(c)
      PROVE  IInv'
  BY <1>0, <1>16 DEF CancelAnnounce, Announce, NotCancel
<1>17. ASSUME NEW j \in Jobs, JobSelect(j)
      PROVE  IInv'
  BY <1>0, <1>17 DEF JobSelect, Expirable, InStatus, NotJob
<1>18. ASSUME NEW j \in Jobs, JobExpire(j)
      PROVE  IInv'
  BY <1>0, <1>18, StateUpdateFields DEF JobExpire, InStatus, NotJob
<1>19. ASSUME NEW j \in Jobs, JobAnnounce(j)
      PROVE  IInv'
  BY <1>0, <1>19 DEF JobAnnounce, Announce, NotJob
<1>20. ASSUME NEW j \in Jobs, JobRetain(j)
      PROVE  IInv'
  <2>1. /\ session'.status = session.status /\ session'.code = session.code
        /\ session'.consumed <=> session.consumed
        /\ session'.stored => session.stored
    <3>1. \/ session' = session
          \/ session' = [session EXCEPT !.request = None, !.key = None]
          \/ session' = [session EXCEPT !.stored = FALSE]
      BY <1>20 DEF JobRetain, Write
    <3>2. session \in Rows
      BY <1>0
    <3> QED
      BY ONLY <3>1, <3>2 DEF Rows
  <2> QED
    BY <1>0, <1>20, <2>1 DEF JobRetain, NotJob
<1>21. ASSUME DeleteSession
      PROVE  IInv'
  BY <1>0, <1>21 DEF DeleteSession
<1>22. ASSUME PassExpiry
      PROVE  IInv'
  BY <1>0, <1>22 DEF PassExpiry
<1>23. ASSUME PassRetention
      PROVE  IInv'
  BY <1>0, <1>23 DEF PassRetention
<1>24. CASE UNCHANGED vars
  BY <1>0, <1>24 DEF vars
<1> QED
  BY <1>1a, <1>1, <1>2, <1>3, <1>4, <1>5, <1>6, <1>7, <1>8, <1>9, <1>10, <1>11, <1>12, <1>13, <1>14, <1>15, <1>16a, <1>16, <1>17, <1>18, <1>19, <1>20, <1>21, <1>22, <1>23, <1>24 DEF Next, Fetch, Respond, Cancel, JobStep

LEMMA InvInit == Init => IInv
<1> SUFFICES ASSUME Init PROVE IInv
  OBVIOUS
<1>1. TypeOK
  BY TypeInit
<1>2. /\ session.status = "active" /\ session.code = None /\ session.consumed = FALSE
      /\ webhook = {} /\ \A s \in Status : announced[s] = 0
  BY DEF Init
<1> QED
  BY <1>1, <1>2, NoReasonIsNone DEF Init, IInv, RedeemedRow, Settled, Unique, Published, Delivered,
     Refused, RespondedFirst, CancelledFirst, ExpiredFirst, Status, Open, Terminal

\* The values of the state are what the code stores.
THEOREM TypeCorrect == Spec => []TypeOK
<1>1. TypeOK /\ [Next]_vars => TypeOK'
  BY TypeStep
<1> QED
  BY TypeInit, <1>1, PTL DEF Spec

\* IInv is an invariant of every number of handlers.
LEMMA Invariance == Spec => []IInv
BY InvInit, InvStep, PTL DEF Spec

\* A response, a cancellation and an expiry never all believe that they ended
\* the session (sessions.md: "when they race exactly one wins").
THEOREM RaceHasOneWinner == Spec => []OneWinner
<1>1. IInv => OneWinner
  BY DEF IInv, Unique, Settled, OneWinner, RespondedFirst
<1> QED
  BY <1>1, Invariance, PTL

\* No status is published twice, and a published terminal status is the final one.
THEOREM PublishedOnce == Spec => []AnnouncedOnce
<1>1. IInv => AnnouncedOnce
  BY DEF IInv, Published, AnnouncedOnce
<1> QED
  BY <1>1, Invariance, PTL

\* The webhook hears of one result, the stored one.
THEOREM WebhookTellsTheTruth == Spec => []WebhookMatchesSession
<1>1. IInv => WebhookMatchesSession
  <2> SUFFICES ASSUME IInv, NEW w \in webhook
               PROVE  /\ session.status = w[2]
                      /\ w[2] = "completed" => session.code = w[1]
                      /\ \A v \in webhook : v = w
    BY DEF WebhookMatchesSession
  <2>1. \A v \in webhook : v[1] = w[1] /\ v[2] = w[2]
    BY DEF IInv, Delivered, Unique, RespondedFirst
  <2>2. \A v \in webhook : v = <<v[1], v[2]>>
    BY DEF IInv, TypeOK
  <2> QED
    BY <2>1, <2>2 DEF IInv, Delivered
<1> QED
  BY <1>1, Invariance, PTL

\* A refused cancellation names the true reason.
THEOREM RefusalIsTrue == Spec => []CancelReasonTrue
<1>1. IInv => CancelReasonTrue
  BY DEF IInv, Refused, CancelReasonTrue
<1> QED
  BY <1>1, Invariance, PTL
-----------------------------------------------------------------------------
(***************************************************************************)
(* The refinement: a step that leaves the row's existence, status and code *)
(* alone is a stutter of the contract; the others are its actions.         *)
(***************************************************************************)
Kept == /\ session'.stored = session.stored /\ session'.status = session.status
        /\ session'.code = session.code

LEMMA KeptIsStutter == Kept => UNCHANGED Contract!vars
BY DEF Kept, Contract!vars

\* A session that is still open was not redeemed.
LEMMA OpenIsUnredeemed == IInv /\ session.status \in Open => session.code = None
BY DEF IInv, RedeemedRow, Open

LEMMA OfferRefines == IInv /\ CreateOffer => UNCHANGED Contract!vars
<1> SUFFICES ASSUME IInv, CreateOffer PROVE UNCHANGED Contract!vars
  OBVIOUS
<1>1. Kept
  BY DEF IInv, TypeOK, CreateOffer, OfferNonce, OfferKey, OfferStore, OfferAbort, Write, Kept, Rows
<1> QED
  BY <1>1, KeptIsStutter

LEMMA FetchRefines ==
    ASSUME IInv, NEW f \in Fetches, Fetch(f)
    PROVE  Contract!Fetch \/ UNCHANGED Contract!vars
<1>0. session \in Rows
  BY DEF IInv, TypeOK
<1>1. CASE FetchMark(f) /\ InStatus(session, {"active"})
  <2>1. session' = StateUpdate(session, "fetched") /\ "fetched" \in Status
    BY <1>1 DEF FetchMark, Status, Open
  <2>2. session'.status = "fetched" /\ session'.stored = session.stored
        /\ session'.code = session.code
    BY <1>0, <2>1, StateUpdateFields
  <2> QED
    BY <1>1, <2>2 DEF InStatus, Contract!Fetch
<1>2. CASE ~(FetchMark(f) /\ InStatus(session, {"active"}))
  <2>1. Kept
    BY <1>0, <1>2 DEF Fetch, FetchLoad, FetchNonce, FetchKey, FetchStore, FetchMark,
       FetchAnnounce, FetchAbort, Write, Kept, Rows
  <2> QED
    BY <2>1, KeptIsStutter
<1> QED
  BY <1>1, <1>2

LEMMA RespondRefines ==
    ASSUME IInv, NEW r \in Responses, Respond(r)
    PROVE  Contract!Redeem(r) \/ Contract!Finish \/ UNCHANGED Contract!vars
<1>0. session \in Rows
  BY DEF IInv, TypeOK
<1>1. CASE RespondComplete(r) /\ Unconsumed(session, overdue)
  <2> DEFINE row == StateUpdate(session, "completed")
  <2>1. row \in Rows /\ row.stored = session.stored /\ row.status = "completed"
    BY <1>0, StateUpdateFields DEF Status, Terminal
  <2>2. session' = [row EXCEPT !.consumed = TRUE, !.code = r]
    BY <1>1 DEF RespondComplete
  <2> HIDE DEF row
  <2>3. session'.status = "completed" /\ session'.stored = session.stored
        /\ session'.code = r
    BY <2>1, <2>2 DEF Rows
  <2>4. session.stored /\ session.status \in Open /\ session.code = None
    BY <1>1, OpenIsUnredeemed DEF Unconsumed
  <2> QED
    BY <2>3, <2>4 DEF Contract!Redeem, Contract!Open, Open
<1>2. CASE RespondFail(r) /\ Unconsumed(session, overdue)
  <2>1. session' = StateUpdate(session, "failed") /\ "failed" \in Status
    BY <1>2 DEF RespondFail, Status, Terminal
  <2>2. session'.status = "failed" /\ session'.stored = session.stored
        /\ session'.code = session.code
    BY <1>0, <2>1, StateUpdateFields
  <2> QED
    BY <1>2, <2>2 DEF Unconsumed, Contract!Finish, Contract!Open, Open
<1>3. CASE ~Unconsumed(session, overdue) \/ RespondLoad(r) \/ RespondPublish(r) \/ RespondAbort(r)
  <2>1. Kept
    BY <1>3 DEF Respond, RespondLoad, RespondComplete, RespondFail, RespondPublish,
       RespondAbort, Kept
  <2> QED
    BY <2>1, KeptIsStutter
<1> QED
  BY <1>1, <1>2, <1>3 DEF Respond

LEMMA CancelRefines ==
    ASSUME IInv, NEW c \in Cancels, Cancel(c)
    PROVE  Contract!Withdraw \/ UNCHANGED Contract!vars
<1>0. session \in Rows
  BY DEF IInv, TypeOK
<1>1. CASE CancelUpdate(c) /\ Unconsumed(session, overdue)
  <2>1. session' = StateUpdate(session, "cancelled") /\ "cancelled" \in Status
    BY <1>1 DEF CancelUpdate, Status, Terminal
  <2>2. session'.status = "cancelled" /\ session'.stored = session.stored
        /\ session'.code = session.code
    BY <1>0, <2>1, StateUpdateFields
  <2> QED
    BY <1>1, <2>2, OpenIsUnredeemed
       DEF Unconsumed, Contract!Withdraw, Contract!Open, Open
<1>2. CASE ~(CancelUpdate(c) /\ Unconsumed(session, overdue))
  <2>1. Kept
    BY <1>2 DEF Cancel, CancelLoad, CancelUpdate, CancelReread, CancelAnnounce, CancelNotify, Kept
  <2> QED
    BY <2>1, KeptIsStutter
<1> QED
  BY <1>1, <1>2

LEMMA JobRefines ==
    ASSUME IInv, NEW j \in Jobs, JobStep(j)
    PROVE  Contract!Withdraw \/ Contract!Delete \/ UNCHANGED Contract!vars
<1>0. session \in Rows
  BY DEF IInv, TypeOK
<1>1. CASE JobExpire(j) /\ InStatus(session, Open)
  <2>1. session' = StateUpdate(session, "expired") /\ "expired" \in Status
    BY <1>1 DEF JobExpire, Status, Terminal
  <2>2. session'.status = "expired" /\ session'.stored = session.stored
        /\ session'.code = session.code
    BY <1>0, <2>1, StateUpdateFields
  <2> QED
    BY <1>1, <2>2, OpenIsUnredeemed
       DEF InStatus, Contract!Withdraw, Contract!Open, Open
<1>2. CASE JobRetain(j)
  <2>1. \/ session' = session
        \/ session.stored /\ session' = [session EXCEPT !.request = None, !.key = None]
        \/ session' = [session EXCEPT !.stored = FALSE]
    BY <1>2 DEF JobRetain, Write
  <2>2. Kept \/ ~session'.stored
    BY <1>0, <2>1 DEF Kept, Rows
  <2>3. CASE ~session'.stored /\ session.stored
    BY <1>0, <2>3 DEF Contract!Delete, Rows, Status, Open, Terminal
  <2>4. CASE ~session'.stored /\ ~session.stored
    BY <2>4 DEF Contract!vars
  <2> QED
    BY <2>2, <2>3, <2>4, KeptIsStutter
<1>3. CASE JobSelect(j) \/ JobAnnounce(j) \/ (JobExpire(j) /\ ~InStatus(session, Open))
  <2>1. Kept
    BY <1>3 DEF JobSelect, JobAnnounce, JobExpire, Kept
  <2> QED
    BY <2>1, KeptIsStutter
<1> QED
  BY <1>1, <1>2, <1>3 DEF JobStep

\* No wallet was given anything of the session.
Unserved ==
    /\ \A f \in Fetches : served[f] = None /\ fetching[f] \in {"idle", "refused"}
    /\ \A r \in Responses : responding[r] \in {"idle", "refused"}

\* Before the offer is returned only operators and the maintenance job reach the row.
Unoffered ==
    offering # "done" =>
        /\ session.kind = "prepared" /\ session.status \in {"active", "cancelled", "expired"}
        /\ Unserved

\* What the creating handler has written stays, and an end takes the key with it, or
\* overtook the handler.
Written ==
    /\ offering \in {"key", "store", "done"} => session.nonce = Offer
    /\ offering = "done" => session.request = Offer
    /\ offering \in {"store", "done"} /\ session.status \in Open => session.key = Offer
    /\ session.status \in Terminal /\ session.key # None =>
          session.status \in {"cancelled", "expired"} /\ Unserved

\* Until the retention clears the row, a request signed with the offer is the only
\* one, and nobody generates another.  A session without one of its own has no key.
Unchanging ==
    /\ Unoffered
    /\ ~aged /\ session.kind # "lazy" =>
        /\ \A f \in Fetches : fetching[f] \notin {"generate", "key", "store"}
        /\ session.kind = "prepared" /\ session.stored => Written
        /\ session.kind # "prepared" =>
              session.key = None /\ \A f \in Fetches : fetching[f] = "idle"

LEMMA UnchangingInit == Init => Unchanging
<1> SUFFICES ASSUME Init PROVE Unchanging
  OBVIOUS
<1>1. PICK k \in Kinds :
        /\ session = [kind |-> k, stored |-> TRUE, status |-> "active",
               consumed |-> FALSE, code |-> None, key |-> None,
               nonce |-> IF k = "iso-18013-7" THEN Offer ELSE None, request |-> None]
        /\ offering = IF k = "prepared" THEN "nonce" ELSE "done"
  BY DEF Init
<1> QED
  BY <1>1 DEF Init, Unchanging, Unoffered, Written, Unserved, Terminal

\* What a status update does to the key.
LEMMA StateUpdateUnchanging ==
    ASSUME TypeOK, NEW status \in Status,
           session.status \in Open,
           session' \in {StateUpdate(session, status)} \cup
               {[StateUpdate(session, status) EXCEPT !.consumed = TRUE, !.code = r]
                   : r \in Responses}
    PROVE  /\ session'.kind = session.kind /\ session'.nonce = session.nonce
           /\ session'.request = session.request /\ session'.status = status
           /\ session'.stored = session.stored
           /\ session'.key = IF status \in Terminal THEN None ELSE session.key
BY DEF TypeOK, Rows, StateUpdate

LEMMA UnchangingStep == TypeOK /\ Unchanging /\ [Next]_vars => Unchanging'
<1> SUFFICES ASSUME TypeOK, Unchanging, [Next]_vars PROVE Unchanging'
  OBVIOUS
<1> USE DEF Unchanging, Unoffered, Written, Unserved
<1>0. session \in Rows /\ fetching \in [Fetches -> FetchPC] /\ responding \in [Responses -> ResponsePC]
  BY DEF TypeOK
\* A key that is written to an ended row is that of an offer no wallet has.
<1>1a. ASSUME CreateOffer
      PROVE  Unchanging'
  <2>1. NotOffer /\ offering # "done" /\ session.kind = "prepared"
    BY <1>1a DEF CreateOffer, OfferNonce, OfferKey, OfferStore, OfferAbort
  <2>2. /\ session'.kind = session.kind /\ session'.status = session.status
        /\ session'.stored = session.stored
    BY <1>0, <1>1a DEF CreateOffer, OfferNonce, OfferKey, OfferStore, OfferAbort, Write, Rows
  <2>3. Unoffered'
    BY <2>1, <2>2 DEF NotOffer
  <2>4. session.stored /\ ~aged => Written'
    <3> SUFFICES ASSUME session.stored, ~aged PROVE Written'
      OBVIOUS
    <3>1. session.status \in {"active", "cancelled", "expired"} /\ Unserved /\ Written
      BY <2>1
    <3>2. UNCHANGED <<served, fetching, responding>>
      BY <2>1 DEF NotOffer
    <3>3. CASE OfferNonce
      BY <1>0, <3>1, <3>2, <3>3, <2>2 DEF OfferNonce, Write, Rows, Open, Terminal
    <3>4. CASE OfferKey
      BY <1>0, <3>1, <3>2, <3>4, <2>2 DEF OfferKey, Write, Rows, Open, Terminal
    <3>5. CASE OfferStore
      BY <1>0, <3>1, <3>2, <3>5, <2>2 DEF OfferStore, Write, Rows, Open, Terminal
    <3>6. CASE OfferAbort
      BY <3>1, <3>2, <3>6 DEF OfferAbort
    <3> QED
      BY <1>1a, <3>3, <3>4, <3>5, <3>6 DEF CreateOffer
  <2> QED
    BY <2>1, <2>2, <2>3, <2>4 DEF NotOffer
<1>1. ASSUME NEW f \in Fetches, Fetch(f)
      PROVE  Unchanging'
  <2>0. offering = "done" /\ offering' = "done" /\ UNCHANGED <<aged, responding>>
    BY <1>1 DEF Fetch, FetchLoad, FetchNonce, FetchKey, FetchStore, FetchMark, FetchAnnounce,
       FetchAbort, NotFetch
  \* A fetch of an ended session with a key is refused before it reads a request.
  <2>1. CASE FetchLoad(f)
    <3>1. session.kind \in {"prepared", "lazy"} /\ UNCHANGED session
      BY <1>0, <2>1, KnownSettings DEF FetchLoad, Rows
    <3>2. ~aged /\ session.kind = "prepared" /\ session.stored => ~NeedsRequest(session)
      BY <2>0, GeneratorsDiffer DEF NeedsRequest
    <3>3. ~aged /\ session.kind = "prepared" => fetching'[f] \in {"refused", "mark"}
      BY <1>0, <2>1, <3>2 DEF FetchLoad, FetchPC
    <3>4. \A g \in Fetches \ {f} : fetching'[g] = fetching[g]
      BY <1>0, <2>1 DEF FetchLoad
    <3>5. session.status \in Terminal => fetching'[f] = "refused" /\ UNCHANGED served
      BY <1>0, <2>1 DEF FetchLoad, Usable, FetchPC, Open, Terminal
    <3>6. ~aged /\ session.kind = "prepared" /\ session.stored => Written'
      BY <2>0, <3>1, <3>4, <3>5
    <3> QED
      BY <2>0, <3>1, <3>3, <3>4, <3>6
  <2>2. CASE FetchNonce(f) \/ FetchKey(f) \/ FetchStore(f)
    <3>1. session'.kind = session.kind /\ aged' = aged
      BY <1>0, <2>2 DEF FetchNonce, FetchKey, FetchStore, Write, NotFetch, Rows
    <3>2. fetching[f] \in {"generate", "key", "store"}
      BY <2>2 DEF FetchNonce, FetchKey, FetchStore
    <3> QED
      BY <2>0, <3>1, <3>2
  <2>3. CASE FetchMark(f) /\ InStatus(session, {"active"})
    <3>1. session' = StateUpdate(session, "fetched") /\ "fetched" \in Status \ Terminal
          /\ session.status = "active" /\ "active" \in Open
      BY <2>3 DEF FetchMark, InStatus, Status, Open, Terminal
    <3>2. /\ session'.kind = session.kind /\ session'.nonce = session.nonce
          /\ session'.request = session.request /\ session'.status = "fetched"
          /\ session'.stored = session.stored /\ session'.key = session.key
      BY <3>1, StateUpdateUnchanging
    <3> QED
      BY <1>0, <2>0, <2>3, <3>1, <3>2 DEF FetchMark, NotFetch, FetchPC, Open, Terminal
  <2>4. CASE (FetchMark(f) /\ ~InStatus(session, {"active"})) \/ FetchAnnounce(f) \/ FetchAbort(f)
    <3>1. UNCHANGED session /\ fetching[f] \notin {"idle", "refused"}
      BY <2>4 DEF FetchMark, FetchAnnounce, FetchAbort
    <3>2. ~Unserved
      BY <3>1
    <3>3. fetching' \in {[fetching EXCEPT ![f] = "done"], [fetching EXCEPT ![f] = "refused"]}
      BY <2>4 DEF FetchMark, FetchAnnounce, FetchAbort
    <3> QED
      BY <1>0, <2>0, <3>1, <3>2, <3>3
  <2> QED
    BY <1>1, <2>1, <2>2, <2>3, <2>4 DEF Fetch
\* A terminal status is written to an open row and takes the key with it.
<1>2. ASSUME NEW status \in Terminal, session.status \in Open,
             session' \in {StateUpdate(session, status)} \cup
                 {[StateUpdate(session, status) EXCEPT !.consumed = TRUE, !.code = r]
                     : r \in Responses},
             UNCHANGED <<offering, aged, fetching, served>>,
             offering # "done" => status \in {"cancelled", "expired"} /\ UNCHANGED responding
      PROVE  Unchanging'
  <2>1. status \in Status
    BY DEF Status
  <2>2. /\ session'.kind = session.kind /\ session'.nonce = session.nonce
        /\ session'.request = session.request /\ session'.status = status
        /\ session'.stored = session.stored /\ session'.key = None
    BY <1>2, <2>1, StateUpdateUnchanging
  <2> QED
    BY <1>2, <2>2 DEF Open, Terminal
<1>3. ASSUME NEW r \in Responses, Respond(r)
      PROVE  Unchanging'
  <2>0. offering = "done" /\ UNCHANGED <<offering, aged, fetching, served>>
    BY <1>3 DEF Respond, RespondLoad, RespondComplete, RespondFail, RespondPublish, RespondAbort,
       NotResponse
  <2>1. CASE RespondComplete(r) /\ Unconsumed(session, overdue)
    <3>1. session' \in {[StateUpdate(session, "completed") EXCEPT !.consumed = TRUE, !.code = q]
                            : q \in Responses}
      BY <2>1 DEF RespondComplete
    <3> QED
      BY <2>0, <2>1, <3>1, <1>2 DEF Unconsumed, Terminal
  <2>2. CASE RespondFail(r) /\ Unconsumed(session, overdue)
    <3>1. session' = StateUpdate(session, "failed")
      BY <2>2 DEF RespondFail
    <3> QED
      BY <2>0, <2>2, <3>1, <1>2 DEF Unconsumed, Terminal
  \* A response to an ended session is refused, and one under way contradicts Unserved.
  <2>3. CASE UNCHANGED session
    <3>1. Unserved /\ session.status \in Terminal => Unserved'
      BY <1>0, <1>3, <2>0 DEF Respond, RespondLoad, RespondComplete, RespondFail, RespondPublish,
         RespondAbort, Usable, ResponsePC, Open, Terminal
    <3> QED
      BY <2>0, <2>3, <3>1
  <2> QED
    BY <1>3, <2>1, <2>2, <2>3
       DEF Respond, RespondLoad, RespondComplete, RespondFail, RespondPublish, RespondAbort
<1>4. ASSUME NEW c \in Cancels, Cancel(c)
      PROVE  Unchanging'
  <2>0. UNCHANGED <<offering, aged, fetching, served, responding>>
    BY <1>4 DEF Cancel, CancelLoad, CancelUpdate, CancelReread, CancelAnnounce, CancelNotify, NotCancel
  <2>1. CASE CancelUpdate(c) /\ Unconsumed(session, overdue)
    <3>1. session' = StateUpdate(session, "cancelled")
      BY <2>1 DEF CancelUpdate
    <3> QED
      BY <2>0, <2>1, <3>1, <1>2 DEF Unconsumed, Terminal
  <2>2. CASE UNCHANGED session
    BY <2>0, <2>2
  <2> QED
    BY <1>4, <2>1, <2>2
       DEF Cancel, CancelLoad, CancelUpdate, CancelReread, CancelAnnounce, CancelNotify
<1>5. ASSUME NEW j \in Jobs, JobStep(j)
      PROVE  Unchanging'
  <2>0. UNCHANGED <<offering, aged, fetching, served, responding>>
    BY <1>5 DEF JobStep, JobSelect, JobExpire, JobAnnounce, JobRetain, NotJob
  <2>1. CASE JobExpire(j) /\ InStatus(session, Open)
    <3>1. session' = StateUpdate(session, "expired")
      BY <2>1 DEF JobExpire
    <3> QED
      BY <2>0, <2>1, <3>1, <1>2 DEF InStatus, Terminal
  <2>2. CASE JobRetain(j) /\ aged
    <3>1. session'.kind = session.kind /\ session'.status = session.status
      BY <1>0, <2>2 DEF JobRetain, Write, Rows
    <3> QED
      BY <2>0, <2>2, <3>1
  <2>3. CASE UNCHANGED session
    BY <2>0, <2>3
  <2> QED
    BY <1>5, <2>1, <2>2, <2>3 DEF JobStep, JobSelect, JobExpire, JobAnnounce, JobRetain
<1>6. CASE DeleteSession
  BY <1>0, <1>6 DEF DeleteSession, Rows
<1>7. CASE PassExpiry \/ PassRetention \/ UNCHANGED vars
  BY <1>7 DEF PassExpiry, PassRetention, vars
<1> QED
  BY <1>1a, <1>1, <1>3, <1>4, <1>5, <1>6, <1>7 DEF Next

LEMMA UnchangingAlways == Spec => []Unchanging
<1>1. TypeOK /\ Unchanging /\ [Next]_vars => Unchanging'
  BY UnchangingStep
<1> QED
  BY <1>1, UnchangingInit, TypeCorrect, PTL DEF Spec

\* A request signed with the offer stays answerable, however many wallets fetch it.
THEOREM RequestAnswerable == Spec => []StoredRequestAnswerable
<1>1. Unchanging => StoredRequestAnswerable
  BY DEF Unchanging, Written, StoredRequestAnswerable
<1> QED
  BY <1>1, UnchangingAlways, PTL

\* A session ends without its response key, unless its end came before its offer.
THEOREM KeyGoesWithTheSession == Spec => []KeyOutlivesOnlyUnservedOffers
<1>1. Unchanging => KeyOutlivesOnlyUnservedOffers
  BY DEF Unchanging, Written, Unserved, KeyOutlivesOnlyUnservedOffers
<1> QED
  BY <1>1, UnchangingAlways, PTL

\* The flow implements the session contract: a step of any handler is one of the
\* contract's actions or leaves what the contract describes alone.
THEOREM KeepsContract == Spec => ImplementsContract
<1>1. Init => Contract!Init
  BY DEF Init, Contract!Init
<1>2. IInv /\ [Next]_vars => [Contract!Next]_(Contract!vars)
  <2> SUFFICES ASSUME IInv, [Next]_vars PROVE [Contract!Next]_(Contract!vars)
    OBVIOUS
  <2>1. CASE \E f \in Fetches : Fetch(f)
    BY <2>1, FetchRefines DEF Contract!Next
  <2>2. CASE \E r \in Responses : Respond(r)
    BY <2>2, RespondRefines DEF Contract!Next
  <2>3. CASE \E c \in Cancels : Cancel(c)
    BY <2>3, CancelRefines DEF Contract!Next
  <2>4. CASE \E j \in Jobs : JobStep(j)
    BY <2>4, JobRefines DEF Contract!Next
  <2>5. CASE DeleteSession
    <3>1. session \in Rows
      BY DEF IInv, TypeOK
    <3> QED
      BY <2>5, <3>1 DEF DeleteSession, Rows, Terminal, Open, Status, Contract!Next, Contract!Delete
  <2>6. CASE PassExpiry \/ PassRetention \/ UNCHANGED vars
    BY <2>6 DEF PassExpiry, PassRetention, vars, Contract!vars
  <2>7. CASE CreateOffer
    BY <2>7, OfferRefines
  <2> QED
    BY <2>1, <2>2, <2>3, <2>4, <2>5, <2>6, <2>7 DEF Next
<1> QED
  BY <1>1, <1>2, Invariance, PTL DEF Spec, ImplementsContract, Contract!Spec
=============================================================================
