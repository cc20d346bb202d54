-------------------------- MODULE OfferFlowProofs --------------------------
(***************************************************************************)
(* The safety of a credential offer for every number of wallets, operators *)
(* and backend instances, in both flows.                                   *)
(*                                                                         *)
(* The argument: the row remembers who redeemed it (refresh), and the      *)
(* three conditional updates that redeem, cancel and expire it exclude     *)
(* each other.  The maintenance job does not ask again whether the offer   *)
(* was redeemed; that is harmless because it selected an overdue row, and  *)
(* an overdue row is never redeemed (Doomed).                              *)
(***************************************************************************)
EXTENDS OfferFlow, TLAPS

\* The row names the exchange that redeemed it.
Redeemer ==
    /\ session.consumed <=> session.refresh # None
    /\ \A t \in Exchanges : exchanging[t] = "granted" <=> session.refresh = t
    /\ session.status = "fetched" => session.consumed
    /\ session.consumed => session.status \notin {"cancelled", "expired"}
    /\ \A c \in Cancels : cancelling[c] = "cancelled" => session.status = "cancelled"

\* What the maintenance job selected stays past its expiry and unredeemed.
Doomed ==
    /\ \A j \in Jobs : job[j] = "expire" => overdue /\ ~session.consumed
    /\ session.status = "expired" => overdue

\* What a refused cancellation read was final when it read it.
Refused ==
    \A c \in Cancels :
        /\ cancelling[c] = "reread" =>
               \/ ~session.stored \/ session.status \in Terminal
               \/ session.consumed \/ overdue
        /\ reason[c] = "redeemed" => session.consumed
        /\ reason[c] = "expired" => overdue

\* A retrieval cleared the offer.
Retrieved ==
    /\ \A r \in Retrievals : retrieving[r] = "done" => ~session.offer
    /\ OneRetrieval

\* A request_uri comes from an answered push, and the authorization that used it
\* removed it from the row, where only its own push could put it again.
UriUsed ==
    /\ \A a \in Authorizations : authorizing[a] # "idle" =>
           uriOf[a] \in Pushes /\ pushing[uriOf[a]] = "done"
    /\ \A a \in Authorizations : authorizing[a] \in {"store", "done"} =>
           session.uri # uriOf[a]
    /\ OneCodePerRequestUri

IInv == TypeOK /\ Redeemer /\ Doomed /\ Refused /\ Retrieved /\ UriUsed
-----------------------------------------------------------------------------
(***************************************************************************)
(* Types.                                                                  *)
(***************************************************************************)
LEMMA TypeInit == Init => TypeOK
<1> SUFFICES ASSUME Init PROVE TypeOK
  OBVIOUS
<1>1. session \in Rows
  BY DEF Init, Rows, Status, Open, Codes
<1> QED
  BY <1>1 DEF Init, TypeOK, RetrievalPC, PushPC, AuthorizePC, ExchangePC, CancelPC, JobPC

LEMMA TypeStep == TypeOK /\ [Next]_vars => TypeOK'
<1> SUFFICES ASSUME TypeOK, [Next]_vars PROVE TypeOK'
  OBVIOUS
<1> USE DEF TypeOK, Status, Open, Terminal, Codes, RetrievalPC, PushPC, AuthorizePC,
            ExchangePC, CancelPC, JobPC
<1>1. ASSUME NEW r \in Retrievals, RetrieveLoad(r)
      PROVE  TypeOK'
  BY <1>1 DEF RetrieveLoad, NotRetrieve
<1>2. ASSUME NEW r \in Retrievals, RetrieveConsume(r)
      PROVE  TypeOK'
  <2>1. [session EXCEPT !.offer = FALSE] \in Rows
    BY DEF Rows
  <2> QED
    BY <1>2, <2>1 DEF RetrieveConsume, NotRetrieve
<1>3. ASSUME NEW p \in Pushes, PushLoad(p)
      PROVE  TypeOK'
  BY <1>3 DEF PushLoad, NotPush
<1>4. ASSUME NEW p \in Pushes, PushUpdate(p)
      PROVE  TypeOK'
  <2>1. [session EXCEPT !.uri = p, !.auth = p] \in Rows
    BY DEF Rows
  <2> QED
    BY <1>4, <2>1 DEF PushUpdate, Write, NotPush
<1>5. ASSUME NEW a \in Authorizations, AuthorizeLoad(a)
      PROVE  TypeOK'
  BY <1>5 DEF AuthorizeLoad, NotAuthorize
<1>6. ASSUME NEW a \in Authorizations, AuthorizeConsume(a)
      PROVE  TypeOK'
  BY <1>6 DEF Rows, AuthorizeConsume, NotAuthorize
<1>7. ASSUME NEW a \in Authorizations, AuthorizeStore(a)
      PROVE  TypeOK'
  BY <1>7 DEF Rows, AuthorizeStore, Write, NotAuthorize
<1>8. ASSUME NEW t \in Exchanges, ExchangeLoad(t)
      PROVE  TypeOK'
  BY <1>8 DEF ExchangeLoad, Given, NotExchange
<1>9. ASSUME NEW t \in Exchanges, ExchangeWrong(t)
      PROVE  TypeOK'
  BY <1>9 DEF Rows, ExchangeWrong, Write, NotExchange
<1>10. ASSUME NEW t \in Exchanges, ExchangeRedeem(t)
       PROVE  TypeOK'
  <2>1. [session EXCEPT !.consumed = TRUE, !.refresh = t] \in Rows
    BY DEF Rows
  <2> QED
    BY <1>10, <2>1 DEF ExchangeRedeem, NotExchange
<1>11. ASSUME NEW t \in Exchanges, ExchangeAbort(t)
       PROVE  TypeOK'
  BY <1>11 DEF ExchangeAbort, NotExchange
<1>12. ASSUME FirstCredential
       PROVE  TypeOK'
  BY <1>12 DEF Rows, FirstCredential
<1>13. ASSUME NEW c \in Cancels, CancelLoad(c)
       PROVE  TypeOK'
  BY <1>13 DEF CancelLoad, NotCancel
<1>14. ASSUME NEW c \in Cancels, CancelUpdate(c)
       PROVE  TypeOK'
  BY <1>14 DEF Rows, CancelUpdate, NotCancel
<1>15. ASSUME NEW c \in Cancels, CancelReread(c)
       PROVE  TypeOK'
  BY <1>15 DEF CancelReread, NotCancellableReason, NotCancel
<1>16. ASSUME DeleteSession
       PROVE  TypeOK'
  BY <1>16 DEF Rows, DeleteSession
<1>17. ASSUME NEW j \in Jobs, JobSelect(j)
       PROVE  TypeOK'
  BY <1>17 DEF JobSelect, NotJob
<1>18. ASSUME NEW j \in Jobs, JobExpire(j)
       PROVE  TypeOK'
  BY <1>18 DEF Rows, JobExpire, NotJob
<1>19. ASSUME NEW j \in Jobs, JobRetain(j)
       PROVE  TypeOK'
  <2>1. /\ [session EXCEPT !.offer = FALSE, !.auth = None] \in Rows
        /\ [session EXCEPT !.stored = FALSE] \in Rows
    BY DEF Rows
  <2>2. session' \in Rows
    BY <1>19, <2>1 DEF JobRetain, Write
  <2> QED
    BY <1>19, <2>2 DEF JobRetain, NotJob
<1>20. CASE PassExpiry \/ PassRetention \/ UNCHANGED vars
  BY <1>20 DEF PassExpiry, PassRetention, vars
<1> QED
  BY <1>1, <1>2, <1>3, <1>4, <1>5, <1>6, <1>7, <1>8, <1>9, <1>10, <1>11, <1>12, <1>13,
     <1>14, <1>15, <1>16, <1>17, <1>18, <1>19, <1>20
     DEF Next, Retrieve, Push, Authorize, Exchange, Cancel, JobStep

\* The values of the state are what the code stores.
THEOREM TypeCorrect == Spec => []TypeOK
<1>1. TypeOK /\ [Next]_vars => TypeOK'
  BY TypeStep
<1> QED
  BY TypeInit, <1>1, PTL DEF Spec

LEMMA InvInit == Init => IInv
<1> SUFFICES ASSUME Init PROVE IInv
  OBVIOUS
<1>1. TypeOK
  BY TypeInit
<1>2. /\ session.status = "active" /\ session.consumed = FALSE
      /\ session.refresh = None /\ session.uri = None
  BY DEF Init
<1> QED
  BY <1>1, <1>2, NamesDiffer, NoReasonIsNone DEF Init, IInv, Redeemer, Doomed, Refused, Retrieved,
     OneRetrieval, UriUsed, OneCodePerRequestUri, Terminal
-----------------------------------------------------------------------------
(***************************************************************************)
(* The invariant.                                                          *)
(***************************************************************************)
LEMMA InvStep == IInv /\ [Next]_vars => IInv'
<1> SUFFICES ASSUME IInv, [Next]_vars PROVE IInv'
  OBVIOUS
<1>0. TypeOK /\ TypeOK'
  BY TypeStep DEF IInv
<1>i. Redeemer /\ Doomed /\ Refused /\ Retrieved /\ UriUsed
  BY DEF IInv
<1> SUFFICES Redeemer' /\ Doomed' /\ Refused' /\ Retrieved' /\ UriUsed'
  BY <1>0 DEF IInv
<1> USE DEF Redeemer, Doomed, Refused, Retrieved, UriUsed, OneRetrieval,
            OneCodePerRequestUri, TypeOK, Rows, Status, Open, Terminal
<1> DEFINE Goal == Redeemer /\ Doomed /\ Refused /\ Retrieved /\ UriUsed
<1>1. ASSUME NEW r \in Retrievals, RetrieveLoad(r)
      PROVE  Goal'
  BY <1>0, <1>i, <1>1 DEF RetrieveLoad, NotRetrieve
<1>2. ASSUME NEW r \in Retrievals, RetrieveConsume(r)
      PROVE  Goal'
  BY <1>0, <1>i, <1>2 DEF RetrieveConsume, OfferThere, NotRetrieve
<1>3. ASSUME NEW p \in Pushes, PushLoad(p)
      PROVE  Goal'
  BY <1>0, <1>i, <1>3 DEF PushLoad, NotPush
<1>4. ASSUME NEW p \in Pushes, PushUpdate(p)
      PROVE  Goal'
  BY <1>0, <1>i, <1>4 DEF PushUpdate, Write, NotPush
<1>5. ASSUME NEW a \in Authorizations, AuthorizeLoad(a)
      PROVE  Goal'
  BY <1>0, <1>i, <1>5 DEF AuthorizeLoad, NotAuthorize
<1>6. ASSUME NEW a \in Authorizations, AuthorizeConsume(a)
      PROVE  Goal'
  BY <1>0, <1>i, <1>6, NamesDiffer DEF AuthorizeConsume, UriUnused, NotAuthorize
<1>7. ASSUME NEW a \in Authorizations, AuthorizeStore(a)
      PROVE  Goal'
  BY <1>0, <1>i, <1>7 DEF AuthorizeStore, Write, NotAuthorize
<1>8. ASSUME NEW t \in Exchanges, ExchangeLoad(t)
      PROVE  Goal'
  BY <1>0, <1>i, <1>8 DEF ExchangeLoad, NotExchange
<1>9. ASSUME NEW t \in Exchanges, ExchangeWrong(t)
      PROVE  Goal'
  BY <1>0, <1>i, <1>9 DEF ExchangeWrong, Write, NotExchange
<1>10. ASSUME NEW t \in Exchanges, ExchangeRedeem(t)
       PROVE  Goal'
  <2>1. CASE ~Unconsumed(session, overdue)
    BY <1>0, <1>i, <1>10, <2>1 DEF ExchangeRedeem, NotExchange
  <2>2. CASE Unconsumed(session, overdue)
    \* The row was not redeemed, so nobody has tokens, and not overdue, so no
    \* maintenance run has selected it.
    <3>1. session.stored /\ ~session.consumed /\ session.status = "active" /\ ~overdue
      BY <1>0, <1>i, <2>2 DEF Unconsumed
    <3>2. /\ \A s \in Exchanges : exchanging[s] # "granted"
          /\ \A c \in Cancels : cancelling[c] # "cancelled"
          /\ \A j \in Jobs : job[j] # "expire"
      BY <1>i, <3>1, NamesDiffer
    <3>3. session' = [session EXCEPT !.consumed = TRUE, !.refresh = t] /\ session \in Rows
      BY <1>0, <1>10, <2>2 DEF ExchangeRedeem
    <3>4. /\ session'.consumed /\ session'.refresh = t /\ session'.status = session.status
          /\ session'.stored = session.stored /\ session'.uri = session.uri
          /\ session'.offer = session.offer
      BY ONLY <3>3 DEF Rows
    <3>5. exchanging' = [exchanging EXCEPT ![t] = "granted"]
      BY <1>10, <2>2 DEF ExchangeRedeem
    <3> QED
      BY <1>0, <1>i, <1>10, <3>1, <3>2, <3>4, <3>5, NamesDiffer DEF ExchangeRedeem, NotExchange
  <2> QED
    BY <2>1, <2>2
<1>11. ASSUME NEW t \in Exchanges, ExchangeAbort(t)
       PROVE  Goal'
  BY <1>0, <1>i, <1>11 DEF ExchangeAbort, NotExchange
<1>12. ASSUME FirstCredential
       PROVE  Goal'
  BY <1>0, <1>i, <1>12, NamesDiffer DEF FirstCredential, InStatus
<1>13. ASSUME NEW c \in Cancels, CancelLoad(c)
       PROVE  Goal'
  BY <1>0, <1>i, <1>13 DEF CancelLoad, NotCancel
<1>14. ASSUME NEW c \in Cancels, CancelUpdate(c)
       PROVE  Goal'
  BY <1>0, <1>i, <1>14 DEF CancelUpdate, Unconsumed, NotCancel
<1>15. ASSUME NEW c \in Cancels, CancelReread(c)
       PROVE  Goal'
  BY <1>0, <1>i, <1>15, NoReasonIsNone DEF CancelReread, NotCancellableReason, NotCancel
<1>16. ASSUME DeleteSession
       PROVE  Goal'
  BY <1>0, <1>i, <1>16 DEF DeleteSession
<1>17. ASSUME NEW j \in Jobs, JobSelect(j)
       PROVE  Goal'
  BY <1>0, <1>i, <1>17 DEF JobSelect, ExpirableOffer, NotJob
<1>18. ASSUME NEW j \in Jobs, JobExpire(j)
       PROVE  Goal'
  BY <1>0, <1>i, <1>18 DEF JobExpire, InStatus, NotJob
<1>19. ASSUME NEW j \in Jobs, JobRetain(j)
       PROVE  Goal'
  <2>1. /\ session'.status = session.status /\ session'.refresh = session.refresh
        /\ session'.consumed <=> session.consumed
        /\ session'.stored => session.stored
        /\ session'.offer => session.offer
        /\ session'.uri = session.uri
    <3>1. \/ session' = session
          \/ session' = [session EXCEPT !.offer = FALSE, !.auth = None]
          \/ session' = [session EXCEPT !.stored = FALSE]
      BY <1>19 DEF JobRetain, Write
    <3>2. session \in Rows
      BY <1>0
    <3> QED
      BY ONLY <3>1, <3>2 DEF Rows
  <2> QED
    BY <1>0, <1>i, <1>19, <2>1 DEF JobRetain, NotJob
<1>20. CASE PassExpiry \/ PassRetention \/ UNCHANGED vars
  BY <1>0, <1>i, <1>20 DEF PassExpiry, PassRetention, vars
<1> QED
  BY <1>1, <1>2, <1>3, <1>4, <1>5, <1>6, <1>7, <1>8, <1>9, <1>10, <1>11, <1>12, <1>13,
     <1>14, <1>15, <1>16, <1>17, <1>18, <1>19, <1>20
     DEF Next, Retrieve, Push, Authorize, Exchange, Cancel, JobStep

\* IInv is an invariant of every number of handlers, in both flows.
LEMMA Invariance == Spec => []IInv
BY InvInit, InvStep, PTL DEF Spec

\* The offer is retrieved once, a request_uri gives one code and the offer is
\* exchanged once, whatever requests race (sessions.md).
THEOREM ValuesAreSingleUse == Spec => []SingleUse
<1>1. IInv => SingleUse
  <2> SUFFICES ASSUME IInv PROVE OneRetrieval /\ OneCodePerRequestUri /\ OneExchange
    BY DEF SingleUse
  <2>1. OneRetrieval /\ OneCodePerRequestUri
    BY DEF IInv, Retrieved, UriUsed
  <2>2. OneExchange
    BY DEF IInv, Redeemer, OneExchange
  <2> QED
    BY <2>1, <2>2
<1> QED
  BY <1>1, Invariance, PTL

\* A wallet that was given tokens has an offer that is neither cancelled nor
\* expired, and nobody was told that it was.
THEOREM GrantsExcludeWithdrawals == Spec => []GrantExcludesWithdrawal
<1>1. IInv => GrantExcludesWithdrawal
  BY NamesDiffer DEF IInv, Redeemer, GrantExcludesWithdrawal
<1> QED
  BY <1>1, Invariance, PTL

\* A refused cancellation names a reason that is true of the offer.
THEOREM RefusalIsTrue == Spec => []CancelReasonTrue
<1>1. IInv => CancelReasonTrue
  <2> SUFFICES ASSUME IInv, NEW c \in Cancels
               PROVE  /\ reason[c] = "redeemed" => \E t \in Exchanges : exchanging[t] = "granted"
                      /\ reason[c] = "expired" => overdue
    BY DEF CancelReasonTrue
  <2>1. session.consumed => \E t \in Exchanges : exchanging[t] = "granted"
    BY DEF IInv, TypeOK, Rows, Redeemer
  <2> QED
    BY <2>1 DEF IInv, Refused
<1> QED
  BY <1>1, Invariance, PTL
-----------------------------------------------------------------------------
(***************************************************************************)
(* The refinement: a step that leaves the row's existence, status and      *)
(* redeemer alone is a stutter of the contract.                            *)
(***************************************************************************)
Kept == /\ session'.stored = session.stored /\ session'.status = session.status
        /\ session'.refresh = session.refresh

LEMMA KeptIsStutter == Kept => UNCHANGED Contract!vars
BY DEF Kept, Contract!vars

\* Steps before the exchange write other columns.
LEMMA EarlierStepsKeep ==
    ASSUME IInv,
           \/ \E r \in Retrievals : Retrieve(r)
           \/ \E p \in Pushes : Push(p)
           \/ \E a \in Authorizations : Authorize(a)
    PROVE  Kept
<1>0. session \in Rows
  BY DEF IInv, TypeOK
<1>1. ASSUME NEW r \in Retrievals, Retrieve(r)
      PROVE  Kept
  BY <1>0, <1>1 DEF Retrieve, RetrieveLoad, RetrieveConsume, Kept, Rows
<1>2. ASSUME NEW p \in Pushes, Push(p)
      PROVE  Kept
  <2>1. session' = session \/ session' = [session EXCEPT !.uri = p, !.auth = p]
    BY <1>2 DEF Push, PushLoad, PushUpdate, Write
  <2> QED
    BY ONLY <1>0, <2>1 DEF Kept, Rows
<1>3. ASSUME NEW a \in Authorizations, Authorize(a)
      PROVE  Kept
  BY <1>0, <1>3 DEF Authorize, AuthorizeLoad, AuthorizeConsume, AuthorizeStore, Write, Kept, Rows
<1> QED
  BY <1>1, <1>2, <1>3

LEMMA ExchangeRefines ==
    ASSUME IInv, NEW t \in Exchanges, Exchange(t)
    PROVE  Contract!Redeem(t) \/ UNCHANGED Contract!vars
<1>0. session \in Rows
  BY DEF IInv, TypeOK
<1>1. CASE ExchangeRedeem(t) /\ Unconsumed(session, overdue)
  <2>1. session' = [session EXCEPT !.consumed = TRUE, !.refresh = t]
    BY <1>1 DEF ExchangeRedeem
  <2>2. session'.refresh = t /\ session'.status = session.status
        /\ session'.stored = session.stored
    BY ONLY <1>0, <2>1 DEF Rows
  <2>3. session.stored /\ session.status \in Open /\ session.refresh = None
    BY <1>1 DEF Unconsumed, IInv, Redeemer
  <2> QED
    BY <2>2, <2>3 DEF Contract!Redeem, Contract!Open, Open
<1>2. CASE ~(ExchangeRedeem(t) /\ Unconsumed(session, overdue))
  <2>1. Kept
    BY <1>0, <1>2 DEF Exchange, ExchangeLoad, ExchangeWrong, ExchangeRedeem, ExchangeAbort,
       Write, Kept, Rows
  <2> QED
    BY <2>1, KeptIsStutter
<1> QED
  BY <1>1, <1>2

LEMMA CancelRefines ==
    ASSUME IInv, NEW c \in Cancels, Cancel(c)
    PROVE  Contract!Withdraw \/ UNCHANGED Contract!vars
<1>0. session \in Rows
  BY DEF IInv, TypeOK
<1>1. CASE CancelUpdate(c) /\ Unconsumed(session, overdue)
  <2>1. session' = [session EXCEPT !.status = "cancelled"]
    BY <1>1 DEF CancelUpdate
  <2>2. session'.status = "cancelled" /\ session'.stored = session.stored
        /\ session'.refresh = session.refresh
    BY ONLY <1>0, <2>1 DEF Rows
  <2>3. session.stored /\ session.status \in Open /\ session.refresh = None
    BY <1>1 DEF Unconsumed, IInv, Redeemer
  <2> QED
    BY <2>2, <2>3 DEF Contract!Withdraw, Contract!Open, Open
<1>2. CASE ~(CancelUpdate(c) /\ Unconsumed(session, overdue))
  <2>1. Kept
    BY <1>2 DEF Cancel, CancelLoad, CancelUpdate, CancelReread, Kept
  <2> QED
    BY <2>1, KeptIsStutter
<1> QED
  BY <1>1, <1>2

\* The expiry does not ask whether the offer was redeemed: Doomed says it was not.
LEMMA JobRefines ==
    ASSUME IInv, NEW j \in Jobs, JobStep(j)
    PROVE  Contract!Withdraw \/ Contract!Delete \/ UNCHANGED Contract!vars
<1>0. session \in Rows
  BY DEF IInv, TypeOK
<1>1. CASE JobExpire(j) /\ InStatus(session, Open)
  <2>1. session' = [session EXCEPT !.status = "expired"]
    BY <1>1 DEF JobExpire
  <2>2. session'.status = "expired" /\ session'.stored = session.stored
        /\ session'.refresh = session.refresh
    BY ONLY <1>0, <2>1 DEF Rows
  <2>3. session.stored /\ session.status \in Open /\ session.refresh = None
    BY <1>1 DEF JobExpire, InStatus, IInv, Doomed, Redeemer
  <2> QED
    BY <2>2, <2>3 DEF Contract!Withdraw, Contract!Open, Open
<1>2. CASE JobRetain(j)
  <2>1. \/ session' = session
        \/ session.stored /\ session' = [session EXCEPT !.offer = FALSE, !.auth = None]
        \/ session' = [session EXCEPT !.stored = FALSE]
    BY <1>2 DEF JobRetain, Write
  <2>2. Kept \/ ~session'.stored
    BY ONLY <1>0, <2>1 DEF Kept, Rows
  <2>3. CASE ~session'.stored /\ session.stored
    BY <1>0, <2>3 DEF Contract!Delete, Rows, Status, Open, Terminal
  <2>4. CASE ~session'.stored /\ ~session.stored
    BY <2>4 DEF Contract!vars
  <2> QED
    BY <2>2, <2>3, <2>4, KeptIsStutter
<1>3. CASE JobSelect(j) \/ (JobExpire(j) /\ ~InStatus(session, Open))
  <2>1. Kept
    BY <1>3 DEF JobSelect, JobExpire, Kept
  <2> QED
    BY <2>1, KeptIsStutter
<1> QED
  BY <1>1, <1>2, <1>3 DEF JobStep

\* The offer implements the session contract: only an exchange redeems it, and a
\* cancellation or an expiry only reaches it unredeemed.
THEOREM KeepsContract == Spec => ImplementsContract
<1>1. Init => Contract!Init
  BY DEF Init, Contract!Init
<1>2. IInv /\ [Next]_vars => [Contract!Next]_(Contract!vars)
  <2> SUFFICES ASSUME IInv, [Next]_vars PROVE [Contract!Next]_(Contract!vars)
    OBVIOUS
  <2>0. session \in Rows
    BY DEF IInv, TypeOK
  <2>1. CASE \/ \E r \in Retrievals : Retrieve(r)
             \/ \E p \in Pushes : Push(p)
             \/ \E a \in Authorizations : Authorize(a)
    BY <2>1, EarlierStepsKeep, KeptIsStutter
  <2>2. CASE \E t \in Exchanges : Exchange(t)
    BY <2>2, ExchangeRefines DEF Contract!Next
  <2>3. CASE \E c \in Cancels : Cancel(c)
    BY <2>3, CancelRefines DEF Contract!Next
  <2>4. CASE \E j \in Jobs : JobStep(j)
    BY <2>4, JobRefines DEF Contract!Next
  <2>5. CASE FirstCredential
    <3>1. session' = [session EXCEPT !.status = "fetched"] /\ InStatus(session, {"active"})
      BY <2>5 DEF FirstCredential
    <3>2. session'.status = "fetched" /\ session'.stored = session.stored
          /\ session'.refresh = session.refresh
      BY ONLY <2>0, <3>1 DEF Rows
    <3> QED
      BY <3>1, <3>2 DEF InStatus, Contract!Next, Contract!Fetch
  <2>6. CASE DeleteSession
    BY <2>0, <2>6 DEF DeleteSession, Rows, Terminal, Open, Status, Contract!Next, Contract!Delete
  <2>7. CASE PassExpiry \/ PassRetention \/ UNCHANGED vars
    BY <2>7 DEF PassExpiry, PassRetention, vars, Contract!vars
  <2> QED
    BY <2>1, <2>2, <2>3, <2>4, <2>5, <2>6, <2>7 DEF Next
<1> QED
  BY <1>1, <1>2, Invariance, PTL DEF Spec, ImplementsContract, Contract!Spec
=============================================================================
