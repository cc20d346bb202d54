------------------- MODULE InteractiveAuthorizationProofs -------------------
(***************************************************************************)
(* Interactive authorization, for every number of auth sessions, plans and *)
(* concurrent requests.                                                    *)
(*                                                                         *)
(* A copy of a row may be stale, but what it stands for does not go away:  *)
(* steps stay done and credentials stay on the offer.  So it is enough     *)
(* that everything that names a step -- the row, the copy of a follow-up   *)
(* request, the request the verifier shows, a step that is done -- had all *)
(* that comes before it when the name was written (Settled).  A page or a  *)
(* presentation then stands for the first one of its kind, whichever of    *)
(* them it was.  Credentials on the offer may be those of another auth     *)
(* session than the one that gets a code, but of one that presented        *)
(* (Sourced).                                                              *)
(***************************************************************************)
EXTENDS InteractiveAuthorization, TLAPS, FiniteSetTheorems

Present == "openid4vp_presentation"
Page == "redirect_to_web"

AuthRows == [stored : BOOLEAN, step : Nat \ {0}, status : AuthStatus, code : Code \cup {None}]
Outcomes == {"active", "completed", "failed"}
VerifierRows == [step : Nat, status : Outcomes \cup {None}]
Offers == [stored : {TRUE}, status : Status, consumed : BOOLEAN, code : Code \cup {None},
           challenge : Sessions \cup {None}, credentials : Sessions \cup {None}]
Requests == [at : FollowPC, session : Sessions \cup {None}, step : Nat,
             code : Code \cup {None}]
TokenRequests == [at : {"idle", "redeem", "granted"}, code : Code \cup {None}]

\* The plans, and the types of the rows and the requests.
PlanTypes ==
    /\ DOMAIN plan = Sessions
    /\ \A s \in Sessions : plan[s] \in Plans[s] /\ plan[s] \in Seq(Kinds)

RowTypes ==
    /\ auth \in [Sessions -> AuthRows] /\ verifier \in [Sessions -> VerifierRows]
    /\ offer \in Offers
    /\ expired \in [Sessions -> BOOLEAN] /\ issued \in [Sessions -> Nat]
    /\ done \in [Sessions -> SUBSET Nat]

RequestTypes ==
    /\ following \in [FollowUps -> Requests]
    /\ completing \in [Backends -> Sessions \cup {None}]
    /\ exchanging \in [Exchanges -> TokenRequests]
    /\ answered \subseteq Code

\* The steps that rows name are steps of the plan.
Steps(s) == 1..Len(plan[s])

StepsOf(s) ==
    /\ auth[s].step \in Steps(s) /\ done[s] \subseteq Steps(s)
    /\ verifier[s].step \in Steps(s) \cup {0}
    /\ verifier[s].status \in IF verifier[s].step = 0 THEN {None} ELSE Outcomes
    /\ verifier[s].step # 0 => Interaction(s, verifier[s].step) = Present

Shown == \A s \in Sessions : StepsOf(s)

\* What comes up to this step has been done, and presented credentials are kept.
Settled(s, i) ==
    /\ FirstOfKind(s) \cap (1..i) \subseteq done[s]
    /\ (\E j \in 1..i : Interaction(s, j) = Present) => offer.credentials # None

\* Where a kind of interaction was done, everything before that was settled.
Done(s, kind) == \E i \in done[s] : Interaction(s, i) = kind

SettledAt(s) ==
    /\ Settled(s, auth[s].step - 1)
    /\ issued[s] > 0 => Settled(s, Len(plan[s]))
    /\ verifier[s].step # 0 => Settled(s, verifier[s].step - 1)
    /\ \A i \in done[s] : Settled(s, i - 1)
    /\ PageDone(s) => Done(s, Page)
    /\ Verified(s) => Done(s, Present)

AllSettled == \A s \in Sessions : SettledAt(s)

\* The copies of follow-up requests.
Ahead == {"advance", "ask", "issue", "publish"}

CopyOf(f, s, i) ==
    /\ s \in Sessions /\ i \in Steps(s) /\ Settled(s, i - 1)
    /\ following[f].at \in {"respond", "verify", "forward"} => Interaction(s, i) = Present
    /\ following[f].at = "forward" => /\ FirstOfKind(s) \cap {i} \subseteq done[s]
                                      /\ Done(s, Present)
    /\ following[f].at \in Ahead => Settled(s, i)
    /\ following[f].at = "ask" => i < Len(plan[s])
    /\ following[f].at \in {"issue", "publish"} => i = Len(plan[s])
    /\ following[f].at = "publish" =>
          /\ following[f].code \in Code /\ following[f].code[1] = s
          /\ following[f].code[2] < issued[s]

Copies ==
    /\ \A f \in FollowUps :
          following[f].at # "idle" => CopyOf(f, following[f].session, following[f].step)
    /\ \A b \in Backends : completing[b] # None => Done(completing[b], Page)

\* Credentials on the offer were verified for some auth session.
Sourced == offer.credentials # None => Done(offer.credentials, Present)

\* Codes that wallets received were issued, and the offer is granted once.
Received == \A c \in answered : c[2] < issued[c[1]]

Granting ==
    /\ \A t \in Exchanges : exchanging[t].at # "idle" => exchanging[t].code \in answered
    /\ \A t, u \in Exchanges :
          exchanging[t].at = "granted" /\ exchanging[u].at = "granted" => t = u
    /\ offer.consumed <=> \E t \in Exchanges : exchanging[t].at = "granted"

TypesInv == PlanTypes /\ RowTypes /\ RequestTypes
Inv == TypesInv /\ Shown /\ AllSettled /\ Copies /\ Sourced /\ Received /\ Granting
-----------------------------------------------------------------------------
(***************************************************************************)
(* The parts of a step.                                                    *)
(***************************************************************************)

\* The actions, one by one.
Acts ==
    \/ \E s \in Sessions : Start(s) \/ Post(s) \/ Finish(s)
    \/ \E s \in Sessions : FollowExpired(s) \/ PassExpiry(s)
    \/ \E f \in FollowUps : FollowLoad(f) \/ FollowRespond(f) \/ FollowVerify(f)
    \/ \E f \in FollowUps : FollowForward(f) \/ FollowAdvance(f) \/ FollowAsk(f)
    \/ \E f \in FollowUps : FollowIssue(f) \/ FollowPublish(f) \/ FollowAbort(f)
    \/ \E b \in Backends : CompleteLoad(b) \/ CompleteSave(b)
    \/ \E t \in Exchanges : ExchangeLoad(t) \/ ExchangeRedeem(t)
    \/ EndOffer

LEMMA NextActs == Next => Acts
  BY DEF Next, Acts, FollowUp, Exchange

\* The plan of an auth session is never changed.
LEMMA PlanKept == ASSUME [Next]_vars PROVE plan' = plan
<1>1. CASE UNCHANGED vars
  BY <1>1 DEF vars
<1>2. CASE Acts
  BY <1>2 DEF Acts, Start, Post, Finish, FollowExpired, PassExpiry, FollowLoad, FollowRespond,
              FollowVerify, FollowForward, FollowAdvance, FollowAsk, FollowIssue,
              FollowPublish, FollowAbort, CompleteLoad, CompleteSave, ExchangeLoad,
              ExchangeRedeem, EndOffer, NotFollow, NotExchange
<1> QED
  BY <1>1, <1>2, NextActs

\* A plan is a sequence of at least one of the two kinds.
LEMMA PlanFacts ==
    ASSUME PlanTypes, NEW s \in Sessions
    PROVE  /\ Len(plan[s]) \in Nat /\ 1 \in Steps(s)
           /\ \A i \in Steps(s) : Interaction(s, i) \in {Present, Page}
<1>1. plan[s] \in Seq(Kinds) /\ plan[s] # <<>>
  BY PlansGiven DEF PlanTypes
<1>2. Len(plan[s]) \in Nat \ {0}
  BY <1>1
<1>3. ASSUME NEW i \in Steps(s) PROVE Interaction(s, i) \in {Present, Page}
  BY <1>1, <1>3 DEF Steps, Interaction, Present, Page, Kinds
<1> QED
  BY <1>2, <1>3 DEF Steps

LEMMA InitInv == Init => Inv
<1> SUFFICES ASSUME Init PROVE Inv
  OBVIOUS
<1>1. PlanTypes
  BY PlansGiven DEF Init, PlanTypes
<1>2. RowTypes
  BY DEF Init, RowTypes, AuthRows, VerifierRows, Offers, AuthStatus, Status, Open
<1>3. RequestTypes
  BY DEF Init, RequestTypes, Requests, TokenRequests, Idle, FollowPC, Presents
<1>4. Shown
  BY <1>1, PlanFacts DEF Init, Shown, StepsOf
<1>5. AllSettled
  BY <1>1, PlanFacts, PlansGiven DEF Init, AllSettled, SettledAt, Settled, PageDone, Verified
<1>6. Copies /\ Sourced /\ Received /\ Granting
  BY DEF Init, Copies, Sourced, Received, Granting, Idle, Presents
<1> QED
  BY <1>1, <1>2, <1>3, <1>4, <1>5, <1>6 DEF Inv, TypesInv

\* What a step leaves behind does not go away again.
Kept ==
    /\ plan' = plan
    /\ \A s \in Sessions : done[s] \subseteq done'[s] /\ issued[s] <= issued'[s]
    /\ offer.credentials # None => offer'.credentials # None
    /\ answered \subseteq answered'

LEMMA Keeps == ASSUME TypesInv, Copies, [Next]_vars PROVE Kept
<1> USE DEF TypesInv, RowTypes, RequestTypes
<1>1. plan' = plan
  BY PlanKept
<1>2. \A s \in Sessions : issued[s] \in Nat /\ issued[s] <= issued[s]
  OBVIOUS
<1>3. CASE UNCHANGED vars
  BY <1>1, <1>2, <1>3 DEF vars, Kept
<1>4. ASSUME NEW s \in Sessions, Start(s) \/ FollowExpired(s) \/ PassExpiry(s) PROVE Kept
  BY <1>1, <1>2, <1>4 DEF Start, FollowExpired, PassExpiry, Kept
<1>5. ASSUME NEW s \in Sessions, Post(s) \/ Finish(s) PROVE Kept
  BY <1>1, <1>2, <1>5 DEF Post, Completes, Fails, Finish, Kept
<1>6. ASSUME NEW f \in FollowUps,
             FollowLoad(f) \/ FollowVerify(f) \/ FollowAdvance(f) \/ FollowAsk(f) \/ FollowAbort(f)
      PROVE  Kept
  BY <1>1, <1>2, <1>6 DEF FollowLoad, FollowVerify, FollowAdvance, FollowAsk, FollowAbort, Kept
<1>7. ASSUME NEW f \in FollowUps, FollowRespond(f) PROVE Kept
  BY <1>1, <1>2, <1>7 DEF FollowRespond, Completes, Fails, Kept
<1>8. ASSUME NEW f \in FollowUps, FollowForward(f) PROVE Kept
  <2>1. following[f].session \in Sessions
    BY <1>8 DEF FollowForward, Copies, CopyOf
  <2> QED
    BY <1>1, <1>2, <1>8, <2>1, PlansGiven DEF FollowForward, WriteOffer, Forwarded, Kept, Offers
<1>9. ASSUME NEW f \in FollowUps, FollowIssue(f) PROVE Kept
  BY <1>1, <1>2, <1>9 DEF FollowIssue, Kept
<1>10. ASSUME NEW f \in FollowUps, FollowPublish(f) PROVE Kept
  BY <1>1, <1>2, <1>10 DEF FollowPublish, WriteOffer, Kept, Offers
<1>11. ASSUME NEW b \in Backends, CompleteLoad(b) \/ CompleteSave(b) PROVE Kept
  BY <1>1, <1>2, <1>11 DEF CompleteLoad, CompleteSave, Kept
<1>12. ASSUME NEW t \in Exchanges, ExchangeLoad(t) \/ ExchangeRedeem(t) PROVE Kept
  BY <1>1, <1>2, <1>12 DEF ExchangeLoad, ExchangeRedeem, NotExchange, Kept, Offers
<1>13. CASE EndOffer
  BY <1>1, <1>2, <1>13 DEF EndOffer, NotExchange, Kept, Offers
<1> QED
  BY <1>3, <1>4, <1>5, <1>6, <1>7, <1>8, <1>9, <1>10, <1>11, <1>12, <1>13, NextActs DEF Acts


LEMMA SettledKept ==
    ASSUME Kept, NEW s \in Sessions, NEW i
    PROVE  Settled(s, i) => Settled(s, i)'
BY DEF Kept, Settled, FirstOfKind, Interaction

LEMMA DoneKept ==
    ASSUME Kept, NEW s \in Sessions, NEW kind
    PROVE  Done(s, kind) => Done(s, kind)'
BY DEF Kept, Done, Interaction

\* A step of the kind of one that is done is done, if it is the first of its kind.
LEMMA FirstStands ==
    ASSUME TypesInv, Shown, AllSettled, NEW s \in Sessions, NEW i \in Steps(s),
           Done(s, Interaction(s, i))
    PROVE  FirstOfKind(s) \cap {i} \subseteq done[s]
<1>1. PICK j \in done[s] : Interaction(s, j) = Interaction(s, i)
  BY DEF Done
<1>2. Len(plan[s]) \in Nat /\ j \in Steps(s) /\ Settled(s, j - 1)
  BY <1>1, PlanFacts DEF TypesInv, Shown, StepsOf, AllSettled, SettledAt
<1> SUFFICES ASSUME i \in FirstOfKind(s) PROVE i \in done[s]
  OBVIOUS
<1>3. ~(j < i)
  BY <1>1, <1>2 DEF FirstOfKind, Steps
<1>4. j = i \/ i \in 1..(j - 1)
  BY <1>2, <1>3 DEF Steps
<1> QED
  BY <1>1, <1>2, <1>4 DEF Settled

\* When this step is done too, everything up to it is settled.
LEMMA SettledOn ==
    ASSUME NEW s \in Sessions, NEW i \in Nat \ {0}, Settled(s, i - 1),
           FirstOfKind(s) \cap {i} \subseteq done[s],
           Interaction(s, i) = Present => offer.credentials # None
    PROVE  Settled(s, i)
<1>1. 1..i = (1..(i - 1)) \cup {i}
  OBVIOUS
<1> QED
  BY <1>1 DEF Settled

-----------------------------------------------------------------------------
(***************************************************************************)
(* The types.                                                              *)
(***************************************************************************)
LEMMA AskTypes ==
    ASSUME TypesInv, NEW s \in Sessions, NEW i \in Nat, Ask(s, i)
    PROVE  verifier' \in [Sessions -> VerifierRows]
BY DEF TypesInv, RowTypes, Ask, Asks, VerifierRows, Outcomes

LEMMA WriteAuthTypes ==
    ASSUME TypesInv, NEW s \in Sessions, NEW row \in AuthRows, WriteAuth(s, row)
    PROVE  auth' \in [Sessions -> AuthRows]
BY DEF TypesInv, RowTypes, WriteAuth

\* The verifier completes a session or rejects the response.
LEMMA PostTypes ==
    ASSUME TypesInv, Shown, NEW s \in Sessions, Completes(s) \/ Fails(s)
    PROVE  verifier' \in [Sessions -> VerifierRows] /\ done' \in [Sessions -> SUBSET Nat]
BY DEF TypesInv, RowTypes, Completes, Fails, VerifierRows, Outcomes

LEMMA RowTypesStep ==
    ASSUME TypesInv, Shown, Copies, [Next]_vars
    PROVE  RowTypes'
<1> USE DEF TypesInv, RowTypes
<1>1. CASE UNCHANGED vars
  BY <1>1 DEF vars
<1>2. ASSUME NEW s \in Sessions, Start(s) PROVE RowTypes'
  BY <1>2, AskTypes DEF Start, AuthRows
<1>3. ASSUME NEW s \in Sessions, Post(s) PROVE RowTypes'
  BY <1>3, PostTypes DEF Post
<1>4. ASSUME NEW s \in Sessions, Finish(s) PROVE RowTypes'
  BY <1>4 DEF Finish, AuthRows
<1>5. ASSUME NEW s \in Sessions, FollowExpired(s) \/ PassExpiry(s) PROVE RowTypes'
  BY <1>5 DEF FollowExpired, PassExpiry, AuthRows
<1>6. ASSUME NEW f \in FollowUps, FollowLoad(f) \/ FollowAbort(f) PROVE RowTypes'
  BY <1>6 DEF FollowLoad, FollowAbort, NotFollow
<1>7. ASSUME NEW f \in FollowUps, following[f].at # "idle" PROVE
             following[f].session \in Sessions /\ following[f].step \in Nat \ {0}
  <2>1. CopyOf(f, following[f].session, following[f].step)
    BY <1>7 DEF Copies
  <2> QED
    BY <2>1, PlanFacts DEF CopyOf, Steps
<1>8. ASSUME NEW f \in FollowUps, FollowRespond(f) PROVE RowTypes'
  <2>1. following[f].session \in Sessions
    BY <1>7, <1>8 DEF FollowRespond
  <2> QED
    BY <1>8, <2>1, PostTypes DEF FollowRespond, NotFollow
<1>9. ASSUME NEW f \in FollowUps, FollowVerify(f) PROVE RowTypes'
  <2>1. following[f].session \in Sessions
    BY <1>7, <1>9 DEF FollowVerify
  <2> DEFINE s == following[f].session
             row == [auth[s] EXCEPT !.status = "presentation_received"]
  <2>2. row \in AuthRows
    BY <2>1 DEF AuthRows, AuthStatus
  <2>3. auth' \in [Sessions -> AuthRows]
    BY <1>9, <2>1, <2>2, WriteAuthTypes DEF FollowVerify
  <2> QED
    BY <1>9, <2>3 DEF FollowVerify, NotFollow
<1>10. ASSUME NEW f \in FollowUps, FollowForward(f) PROVE RowTypes'
  <2>1. following[f].session \in Sessions
    BY <1>7, <1>10 DEF FollowForward
  <2> QED
    BY <1>10, <2>1 DEF FollowForward, NotFollow, WriteOffer, Forwarded, Offers
<1>11. ASSUME NEW f \in FollowUps, FollowAdvance(f) PROVE RowTypes'
  <2> DEFINE s == following[f].session
             i == following[f].step
             moved == [auth[s] EXCEPT !.step = i + 1, !.status = "pending"]
             all == [auth[s] EXCEPT !.status = "all_steps_completed"]
  <2>1. s \in Sessions /\ i \in Nat
    BY <1>7, <1>11 DEF FollowAdvance
  <2>2. auth[s] \in AuthRows /\ i + 1 \in Nat \ {0}
        /\ {"pending", "all_steps_completed"} \subseteq AuthStatus
    BY <1>7, <1>11, <2>1 DEF FollowAdvance, AuthStatus
  <2>3. moved \in AuthRows
    BY <2>2 DEF AuthRows
  <2>4. all \in AuthRows
    BY <2>2 DEF AuthRows
  <2>5. WriteAuth(s, moved) \/ WriteAuth(s, all)
    BY <1>11 DEF FollowAdvance
  <2>6. auth' \in [Sessions -> AuthRows]
    BY <2>1, <2>3, <2>4, <2>5, WriteAuthTypes
  <2> QED
    BY <1>11, <2>6 DEF FollowAdvance, NotFollow
<1>12. ASSUME NEW f \in FollowUps, FollowAsk(f) PROVE RowTypes'
  <2>1. following[f].session \in Sessions /\ following[f].step + 1 \in Nat
    BY <1>7, <1>12 DEF FollowAsk
  <2>2. verifier' \in [Sessions -> VerifierRows]
    BY <1>12, <2>1, AskTypes DEF FollowAsk
  <2> QED
    BY <1>12, <2>2 DEF FollowAsk, NotFollow
<1>13. ASSUME NEW f \in FollowUps, FollowIssue(f) PROVE RowTypes'
  <2> DEFINE s == following[f].session
             c == <<s, issued[s]>>
             row == [auth[s] EXCEPT !.code = c, !.status = "code_issued"]
  <2>1. s \in Sessions
    BY <1>7, <1>13 DEF FollowIssue
  <2>2. c \in Code /\ auth[s] \in AuthRows /\ "code_issued" \in AuthStatus
    BY <2>1 DEF Code, AuthStatus
  <2> HIDE DEF c
  <2>3. row \in AuthRows
    BY <2>2 DEF AuthRows
  <2>4. auth' \in [Sessions -> AuthRows]
    BY <1>13, <2>1, <2>3, WriteAuthTypes DEF FollowIssue, c
  <2>5. issued' \in [Sessions -> Nat]
    BY <1>13, <2>1 DEF FollowIssue
  <2> QED
    BY <1>13, <2>4, <2>5 DEF FollowIssue, NotFollow
<1>14. ASSUME NEW f \in FollowUps, FollowPublish(f) PROVE RowTypes'
  <2>1. following[f].session \in Sessions /\ following[f].code \in Code \cup {None}
    BY <1>7, <1>14 DEF FollowPublish, RequestTypes, Requests
  <2> QED
    BY <1>14, <2>1 DEF FollowPublish, NotFollow, WriteOffer, Offers
<1>15. ASSUME NEW b \in Backends, CompleteLoad(b) PROVE RowTypes'
  BY <1>15 DEF CompleteLoad
<1>16. ASSUME NEW b \in Backends, CompleteSave(b) PROVE RowTypes'
  <2> DEFINE s == completing[b]
             row == [auth[s] EXCEPT !.status = "web_auth_completed"]
  <2>1. s \in Sessions
    BY <1>16 DEF CompleteSave, RequestTypes
  <2>2. row \in AuthRows
    BY <2>1 DEF AuthRows, AuthStatus
  <2>3. auth' \in [Sessions -> AuthRows]
    BY <1>16, <2>1, <2>2, WriteAuthTypes DEF CompleteSave
  <2> QED
    BY <1>16, <2>3 DEF CompleteSave
<1>17. ASSUME NEW t \in Exchanges, ExchangeLoad(t) \/ ExchangeRedeem(t) PROVE RowTypes'
  BY <1>17 DEF ExchangeLoad, ExchangeRedeem, NotExchange, Offers
<1>18. CASE EndOffer
  BY <1>18 DEF EndOffer, NotExchange, Offers, Status, Terminal
<1>19. RowTypes' \/ ~Acts
  BY <1>2, <1>3, <1>4, <1>5, <1>6, <1>8, <1>9, <1>10, <1>11, <1>12, <1>13, <1>14, <1>15, <1>16,
     <1>17, <1>18 DEF Acts
<1> QED
  BY <1>1, <1>19, NextActs

LEMMA ToTypes ==
    ASSUME TypesInv, NEW f \in FollowUps, NEW pc \in FollowPC, To(f, pc) \/ Answer(f)
    PROVE  following' \in [FollowUps -> Requests]
BY DEF TypesInv, RequestTypes, To, Answer, Idle, Requests, FollowPC

LEMMA RequestTypesStep ==
    ASSUME TypesInv, Copies, [Next]_vars
    PROVE  RequestTypes'
<1> USE DEF TypesInv, RequestTypes
<1>1. CASE UNCHANGED vars
  BY <1>1 DEF vars
<1>2. ASSUME NEW s \in Sessions,
             Start(s) \/ Post(s) \/ Finish(s) \/ FollowExpired(s) \/ PassExpiry(s)
      PROVE  RequestTypes'
  BY <1>2 DEF Start, Post, Finish, FollowExpired, PassExpiry
<1>3. ASSUME NEW f \in FollowUps, FollowLoad(f) PROVE RequestTypes'
  <2>1. PICK s \in Sessions, pc \in FollowPC :
           following' = [following EXCEPT ![f] =
               [at |-> pc, session |-> s, step |-> auth[s].step, code |-> None]]
    BY <1>3 DEF FollowLoad, FollowPC
  <2>2. [at |-> pc, session |-> s, step |-> auth[s].step, code |-> None] \in Requests
    BY DEF Requests, RowTypes, AuthRows
  <2> QED
    BY <1>3, <2>1, <2>2 DEF FollowLoad, NotFollow
<1>4. ASSUME NEW f \in FollowUps, FollowRespond(f) \/ FollowVerify(f) \/ FollowForward(f)
      PROVE  RequestTypes'
  <2>1. To(f, "verify") \/ To(f, "forward") \/ To(f, "advance") \/ Answer(f)
    BY <1>4 DEF FollowRespond, FollowVerify, FollowForward
  <2>2. following' \in [FollowUps -> Requests]
    BY <2>1, ToTypes DEF FollowPC
  <2> QED
    BY <1>4, <2>2 DEF FollowRespond, FollowVerify, FollowForward, NotFollow
<1>5. ASSUME NEW f \in FollowUps, FollowAdvance(f) \/ FollowAsk(f) \/ FollowAbort(f)
      PROVE  RequestTypes'
  <2>1. To(f, "ask") \/ To(f, "issue") \/ Answer(f)
    BY <1>5 DEF FollowAdvance, FollowAsk, FollowAbort
  <2>2. following' \in [FollowUps -> Requests]
    BY <2>1, ToTypes DEF FollowPC
  <2> QED
    BY <1>5, <2>2 DEF FollowAdvance, FollowAsk, FollowAbort, NotFollow
<1>6. ASSUME NEW f \in FollowUps, FollowIssue(f) PROVE RequestTypes'
  <2>1. following[f].session \in Sessions
    BY <1>6 DEF FollowIssue, Copies, CopyOf
  <2>2. <<following[f].session, issued[following[f].session]>> \in Code
    BY <2>1 DEF RowTypes, Code
  <2>3. following' \in [FollowUps -> Requests]
    BY <1>6, <2>2 DEF FollowIssue, Requests, FollowPC
  <2> QED
    BY <1>6, <2>3 DEF FollowIssue, NotFollow
<1>7. ASSUME NEW f \in FollowUps, FollowPublish(f) PROVE RequestTypes'
  <2>1. following[f].code \in Code
    BY <1>7 DEF FollowPublish, Copies, CopyOf
  <2>2. following' \in [FollowUps -> Requests]
    BY <1>7, ToTypes DEF FollowPublish, FollowPC
  <2> QED
    BY <1>7, <2>1, <2>2 DEF FollowPublish, NotFollow
<1>8. ASSUME NEW b \in Backends, CompleteLoad(b) \/ CompleteSave(b) PROVE RequestTypes'
  BY <1>8 DEF CompleteLoad, CompleteSave
<1>9. ASSUME NEW t \in Exchanges, ExchangeLoad(t) PROVE RequestTypes'
  <2>1. PICK c \in answered : exchanging' = [exchanging EXCEPT ![t] = Presents(c)]
    BY <1>9 DEF ExchangeLoad
  <2>2. Presents(c) \in TokenRequests
    BY DEF Presents, TokenRequests
  <2> QED
    BY <1>9, <2>1, <2>2 DEF ExchangeLoad, NotExchange
<1>10. ASSUME NEW t \in Exchanges, ExchangeRedeem(t) PROVE RequestTypes'
  <2>1. Presents(None) \in TokenRequests
    BY DEF Presents, TokenRequests
  <2>2. [exchanging[t] EXCEPT !.at = "granted"] \in TokenRequests
    BY DEF TokenRequests
  <2>3. exchanging' \in [Exchanges -> TokenRequests]
    BY <1>10, <2>1, <2>2 DEF ExchangeRedeem
  <2> QED
    BY <1>10, <2>3 DEF ExchangeRedeem, NotExchange
<1>11. CASE EndOffer
  BY <1>11 DEF EndOffer, NotExchange
<1> QED
  BY <1>1, <1>2, <1>3, <1>4, <1>5, <1>6, <1>7, <1>8, <1>9, <1>10, <1>11, NextActs DEF Acts
-----------------------------------------------------------------------------
(***************************************************************************)
(* Rows name steps of the plan.                                            *)
(***************************************************************************)

\* A request for a step changes the row of the verifier session, if at all, to one
\* that asks for that step and has a status.
LEMMA AskEffect ==
    ASSUME TypesInv, NEW s \in Sessions, NEW i, Ask(s, i), NEW v \in Sessions
    PROVE  \/ verifier'[v] = verifier[v]
           \/ /\ v = s /\ Interaction(s, i) = Present /\ verifier'[v].step = i
              /\ verifier'[v].status =
                   IF verifier[v].step = 0 THEN "active" ELSE verifier[v].status
BY DEF TypesInv, RowTypes, Ask, Asks, Present

\* What WriteAuth leaves in a row.
LEMMA WriteEffect ==
    ASSUME TypesInv, NEW s \in Sessions, NEW row, WriteAuth(s, row), NEW v \in Sessions
    PROVE  auth'[v] = auth[v] \/ (v = s /\ auth'[v] = row)
BY DEF TypesInv, RowTypes, WriteAuth

\* The verifier completes a session with the step it asks for, or rejects it.
LEMMA PostEffect ==
    ASSUME TypesInv, NEW s \in Sessions, Completes(s) \/ Fails(s), NEW v \in Sessions
    PROVE  \/ verifier'[v] = verifier[v] /\ done'[v] = done[v]
           \/ /\ v = s /\ verifier[v].status = "active"
              /\ verifier'[v].step = verifier[v].step
              /\ \/ /\ verifier'[v].status = "completed"
                    /\ done'[v] = done[v] \cup {verifier[v].step}
                 \/ verifier'[v].status = "failed" /\ done'[v] = done[v]
BY DEF TypesInv, RowTypes, VerifierRows, Completes, Fails

LEMMA ShownStep ==
    ASSUME TypesInv, Shown, Copies, [Next]_vars
    PROVE  Shown'
<1> SUFFICES ASSUME NEW v \in Sessions PROVE StepsOf(v)'
  BY DEF Shown
<1> USE DEF StepsOf
<1>0. StepsOf(v) /\ plan' = plan /\ Steps(v)' = Steps(v)
  BY PlanKept DEF Shown, Steps
<1>1. CASE UNCHANGED <<auth, verifier, done>>
  BY <1>0, <1>1 DEF Interaction
<1>2. ASSUME NEW s \in Sessions, Start(s) PROVE StepsOf(v)'
  <2>1. auth'[v].step = auth[v].step /\ UNCHANGED done
    BY <1>2 DEF Start, TypesInv, RowTypes, AuthRows
  <2>2. 1 \in Steps(s)
    BY PlanFacts DEF TypesInv
  <2>3. 1 # 0 /\ Ask(s, 1)
    BY <1>2 DEF Start
  <2> QED
    BY <1>0, <2>1, <2>2, <2>3, AskEffect DEF Interaction, Outcomes
<1>3. ASSUME NEW s \in Sessions, Completes(s) \/ Fails(s), UNCHANGED auth PROVE StepsOf(v)'
  BY <1>0, <1>3, PostEffect, PlansGiven DEF Interaction, Outcomes
<1>4. ASSUME NEW s \in Sessions, Finish(s) PROVE StepsOf(v)'
  BY <1>0, <1>4 DEF Finish, Interaction, TypesInv, RowTypes
<1>5. ASSUME NEW s \in Sessions, FollowExpired(s) PROVE StepsOf(v)'
  BY <1>0, <1>5 DEF FollowExpired, Interaction, TypesInv, RowTypes, AuthRows
<1>6. ASSUME NEW s \in Sessions, NEW row \in AuthRows, row.step \in Steps(s), WriteAuth(s, row),
             UNCHANGED <<verifier, done>>
      PROVE  StepsOf(v)'
  BY <1>0, <1>6, WriteEffect DEF Interaction
<1>7. ASSUME NEW f \in FollowUps, following[f].at # "idle"
      PROVE  CopyOf(f, following[f].session, following[f].step)
  BY <1>7 DEF Copies
<1>8. ASSUME NEW f \in FollowUps, FollowAsk(f) PROVE StepsOf(v)'
  <2> DEFINE s == following[f].session
             i == following[f].step + 1
  <2>1. s \in Sessions /\ i \in Steps(s) /\ i # 0
    BY <1>7, <1>8, PlanFacts DEF FollowAsk, CopyOf, Steps, TypesInv
  <2>2. Ask(s, i) /\ UNCHANGED <<auth, done>>
    BY <1>8 DEF FollowAsk
  <2> QED
    BY <1>0, <2>1, <2>2, AskEffect DEF Interaction, Outcomes
<1>9. ASSUME NEW f \in FollowUps, FollowVerify(f) PROVE StepsOf(v)'
  <2> DEFINE s == following[f].session
             row == [auth[s] EXCEPT !.status = "presentation_received"]
  <2>1. s \in Sessions /\ auth[s] \in AuthRows /\ auth[s].step \in Steps(s)
    BY <1>7, <1>9 DEF FollowVerify, CopyOf, Shown, TypesInv, RowTypes
  <2>2. row \in AuthRows /\ row.step = auth[s].step
    BY <2>1 DEF AuthRows, AuthStatus
  <2>3. WriteAuth(s, row) \/ UNCHANGED auth
    BY <1>9 DEF FollowVerify
  <2> HIDE DEF row
  <2> QED
    BY <1>1, <1>6, <1>9, <2>1, <2>2, <2>3 DEF FollowVerify
<1>10. ASSUME NEW f \in FollowUps, FollowAdvance(f) PROVE StepsOf(v)'
  <2> DEFINE s == following[f].session
             i == following[f].step
             moved == [auth[s] EXCEPT !.step = i + 1, !.status = "pending"]
             all == [auth[s] EXCEPT !.status = "all_steps_completed"]
  <2>1. s \in Sessions /\ auth[s] \in AuthRows /\ auth[s].step \in Steps(s) /\ i \in Steps(s)
    BY <1>7, <1>10 DEF FollowAdvance, CopyOf, Shown, TypesInv, RowTypes
  <2>2. (i < Len(plan[s]) /\ WriteAuth(s, moved)) \/ WriteAuth(s, all)
    BY <1>10 DEF FollowAdvance
  <2>3. Len(plan[s]) \in Nat
    BY <2>1, PlanFacts DEF TypesInv
  <2>4. i < Len(plan[s]) => i + 1 \in Steps(s) /\ i + 1 \in Nat \ {0}
    BY <2>1, <2>3 DEF Steps
  <2>5. all \in AuthRows /\ all.step = auth[s].step
    BY <2>1 DEF AuthRows, AuthStatus
  <2>6. i < Len(plan[s]) => moved \in AuthRows /\ moved.step = i + 1
    BY <2>1, <2>4 DEF AuthRows, AuthStatus
  <2>7. UNCHANGED <<verifier, done>>
    BY <1>10 DEF FollowAdvance
  <2> HIDE DEF moved, all
  <2> QED
    BY <1>6, <2>1, <2>2, <2>4, <2>5, <2>6, <2>7
<1>11. ASSUME NEW f \in FollowUps, FollowIssue(f) PROVE StepsOf(v)'
  <2> DEFINE s == following[f].session
             c == <<s, issued[s]>>
             row == [auth[s] EXCEPT !.code = c, !.status = "code_issued"]
  <2>1. s \in Sessions /\ auth[s] \in AuthRows /\ auth[s].step \in Steps(s)
        /\ issued[s] \in Nat
    BY <1>7, <1>11 DEF FollowIssue, CopyOf, Shown, TypesInv, RowTypes
  <2>2. c \in Code
    BY <2>1 DEF Code
  <2>3. WriteAuth(s, row) /\ UNCHANGED <<verifier, done>>
    BY <1>11 DEF FollowIssue
  <2> HIDE DEF c
  <2>4. row \in AuthRows /\ row.step = auth[s].step
    BY <2>1, <2>2 DEF AuthRows, AuthStatus
  <2> HIDE DEF row
  <2> QED
    BY <1>6, <2>1, <2>3, <2>4
<1>12. ASSUME NEW b \in Backends, CompleteSave(b) PROVE StepsOf(v)'
  <2> DEFINE s == completing[b]
             row == [auth[s] EXCEPT !.status = "web_auth_completed"]
  <2>1. s \in Sessions /\ auth[s] \in AuthRows /\ auth[s].step \in Steps(s)
    BY <1>12 DEF CompleteSave, Shown, TypesInv, RowTypes, RequestTypes
  <2>2. row \in AuthRows /\ row.step = auth[s].step
    BY <2>1 DEF AuthRows, AuthStatus
  <2>3. WriteAuth(s, row) /\ UNCHANGED <<verifier, done>>
    BY <1>12 DEF CompleteSave
  <2> HIDE DEF row
  <2> QED
    BY <1>6, <2>1, <2>2, <2>3
<1>13. ASSUME NEW f \in FollowUps, FollowRespond(f) PROVE StepsOf(v)'
  <2> DEFINE s == following[f].session
  <2>1. s \in Sessions
    BY <1>7, <1>13 DEF FollowRespond, CopyOf
  <2>2. Completes(s) \/ Fails(s) \/ UNCHANGED <<verifier, done>>
    BY <1>13 DEF FollowRespond
  <2>3. UNCHANGED auth
    BY <1>13 DEF FollowRespond
  <2> HIDE DEF s
  <2> QED
    BY <1>1, <1>3, <2>1, <2>2, <2>3
<1>14. ASSUME NEW s \in Sessions, Post(s) PROVE StepsOf(v)'
  BY <1>3, <1>14 DEF Post
<1>15. ASSUME NEW f \in FollowUps,
              FollowLoad(f) \/ FollowForward(f) \/ FollowPublish(f) \/ FollowAbort(f)
       PROVE  StepsOf(v)'
  BY <1>1, <1>15 DEF FollowLoad, FollowForward, FollowPublish, FollowAbort
<1>16. CASE \/ UNCHANGED vars
            \/ \E s \in Sessions : PassExpiry(s)
            \/ \E b \in Backends : CompleteLoad(b)
            \/ \E t \in Exchanges : ExchangeLoad(t) \/ ExchangeRedeem(t)
            \/ EndOffer
  BY <1>1, <1>16 DEF vars, PassExpiry, CompleteLoad, ExchangeLoad, ExchangeRedeem, NotExchange,
                     EndOffer
<1> QED
  BY <1>2, <1>4, <1>5, <1>8, <1>9, <1>10, <1>11, <1>12, <1>13, <1>14, <1>15, <1>16, NextActs
  DEF Acts

-----------------------------------------------------------------------------
(***************************************************************************)
(* What a named step stands for.                                           *)
(***************************************************************************)

\* A step that leaves the rows alone, except for steps that are done.
LEMMA SettledAlone ==
    ASSUME Kept, Shown, AllSettled, NEW v \in Sessions,
           auth'[v].step = auth[v].step, UNCHANGED <<issued, verifier, done>>,
           PageDone(v)' => PageDone(v) \/ Done(v, Page)
    PROVE  SettledAt(v)'
<1>1. SettledAt(v) /\ plan' = plan
  BY DEF AllSettled, Kept
<1> QED
  BY <1>1, SettledKept, DoneKept DEF SettledAt, Verified

\* A response to the request of the verifier session.
LEMMA SettledPost ==
    ASSUME TypesInv, Kept, Shown, AllSettled, NEW s \in Sessions, Completes(s) \/ Fails(s),
           UNCHANGED <<auth, issued>>, NEW v \in Sessions
    PROVE  SettledAt(v)'
<1>1. SettledAt(v) /\ StepsOf(v) /\ plan' = plan
  BY DEF AllSettled, Shown, Kept
<1>2. CASE verifier'[v] = verifier[v] /\ done'[v] = done[v]
  BY <1>1, <1>2, SettledKept, DoneKept DEF SettledAt, Verified, PageDone
<1>3. CASE /\ v = s /\ verifier[v].status = "active" /\ verifier'[v].step = verifier[v].step
           /\ verifier'[v].status = "completed"
           /\ done'[v] = done[v] \cup {verifier[v].step}
  <2>1. verifier[v].step # 0 /\ Interaction(v, verifier[v].step) = Present
    BY <1>1, <1>3, PlansGiven DEF StepsOf
  <2>2. Done(v, Present)'
    BY <1>1, <1>3, <2>1 DEF Done, Interaction
  <2> QED
    BY <1>1, <1>3, <2>1, <2>2, SettledKept, DoneKept DEF SettledAt, PageDone
<1>4. CASE /\ verifier'[v].step = verifier[v].step /\ verifier'[v].status = "failed"
           /\ done'[v] = done[v]
  BY <1>1, <1>4, SettledKept, DoneKept DEF SettledAt, Verified, PageDone
<1> QED
  BY <1>2, <1>3, <1>4, PostEffect

\* A request of the verifier for a step whose predecessors are settled.
LEMMA SettledAsk ==
    ASSUME TypesInv, Kept, Shown, AllSettled, NEW s \in Sessions, NEW i \in Nat \ {0},
           Ask(s, i), Settled(s, i - 1), NEW v \in Sessions,
           auth'[v].step = auth[v].step, auth'[v].status = auth[v].status,
           UNCHANGED <<issued, done>>
    PROVE  SettledAt(v)'
<1>1. SettledAt(v) /\ StepsOf(v) /\ plan' = plan
  BY DEF AllSettled, Shown, Kept
<1>2. verifier'[v].step # 0 => Settled(v, verifier'[v].step - 1)
  BY <1>1, AskEffect DEF SettledAt
<1>3. Verified(v)' => Verified(v)
  BY AskEffect, PlansGiven DEF Verified
<1>4. (verifier[v].step # 0 => Settled(v, verifier[v].step - 1))'
  <2>1. PICK j : j = verifier'[v].step - 1
    OBVIOUS
  <2> QED
    BY <1>2, <2>1, SettledKept
<1> QED
  BY <1>1, <1>3, <1>4, SettledKept, DoneKept DEF SettledAt, PageDone


LEMMA SettledZero == ASSUME NEW s \in Sessions PROVE Settled(s, 0)
BY DEF Settled

LEMMA SettledStep ==
    ASSUME TypesInv, Shown, AllSettled, Copies, [Next]_vars
    PROVE  AllSettled'
<1> SUFFICES ASSUME NEW v \in Sessions PROVE SettledAt(v)'
  BY DEF AllSettled
<1>1. Kept
  BY Keeps
<1>2. SettledAt(v) /\ StepsOf(v) /\ plan' = plan
  BY <1>1 DEF AllSettled, Shown, Kept
<1>3. ASSUME NEW f \in FollowUps, following[f].at # "idle"
      PROVE  /\ CopyOf(f, following[f].session, following[f].step)
             /\ following[f].step \in Nat \ {0}
  <2>1. CopyOf(f, following[f].session, following[f].step)
    BY <1>3 DEF Copies
  <2> QED
    BY <2>1, PlanFacts DEF CopyOf, Steps
<1>4. CASE UNCHANGED <<auth, issued, verifier, done>>
  BY <1>1, <1>4, SettledAlone DEF PageDone
<1>5. ASSUME NEW s \in Sessions, Start(s) PROVE SettledAt(v)'
  <2>1. auth'[v].step = auth[v].step /\ auth'[v].status = auth[v].status
    BY <1>5 DEF Start, TypesInv, RowTypes, AuthRows
  <2>2. Ask(s, 1) /\ UNCHANGED <<issued, done>> /\ 1 \in Nat \ {0}
    BY <1>5 DEF Start
  <2>3. Settled(s, 1 - 1)
    BY SettledZero
  <2> QED
    BY <1>1, <2>1, <2>2, <2>3, SettledAsk
<1>6. ASSUME NEW s \in Sessions, Completes(s) \/ Fails(s), UNCHANGED <<auth, issued>>
      PROVE  SettledAt(v)'
  BY <1>1, <1>6, SettledPost
<1>7. ASSUME NEW s \in Sessions, Finish(s) PROVE SettledAt(v)'
  <2>1. UNCHANGED <<auth, issued, verifier>>
        /\ done'[v] \subseteq done[v] \cup {auth[v].step}
    BY <1>7 DEF Finish, TypesInv, RowTypes
  <2>2. \A i \in done'[v] : Settled(v, i - 1)
    BY <1>2, <2>1 DEF SettledAt
  <2>3. (\A i \in done[v] : Settled(v, i - 1))'
    BY <1>1, <2>2, SettledKept
  <2> QED
    BY <1>1, <1>2, <2>1, <2>3, SettledKept, DoneKept DEF SettledAt, PageDone, Verified
<1>8. ASSUME NEW s \in Sessions, FollowExpired(s) PROVE SettledAt(v)'
  <2>1. auth'[v].step = auth[v].step /\ auth'[v].status = auth[v].status
        /\ UNCHANGED <<issued, verifier, done>>
    BY <1>8 DEF FollowExpired, TypesInv, RowTypes, AuthRows
  <2> QED
    BY <1>1, <2>1, SettledAlone DEF PageDone
<1>9. ASSUME NEW f \in FollowUps, FollowRespond(f) PROVE SettledAt(v)'
  <2> DEFINE s == following[f].session
  <2>1. s \in Sessions
    BY <1>3, <1>9 DEF FollowRespond, CopyOf
  <2>2. Completes(s) \/ Fails(s) \/ UNCHANGED <<verifier, done>>
    BY <1>9 DEF FollowRespond
  <2>3. UNCHANGED <<auth, issued>>
    BY <1>9 DEF FollowRespond
  <2> HIDE DEF s
  <2> QED
    BY <1>4, <1>6, <2>1, <2>2, <2>3
<1>10. ASSUME NEW s \in Sessions, NEW row, WriteAuth(s, row), row.step = auth[s].step,
              UNCHANGED <<issued, verifier, done>>,
              row.status = "web_auth_completed" => Done(s, Page)
       PROVE  SettledAt(v)'
  <2>1. auth'[v] = auth[v] \/ (v = s /\ auth'[v] = row)
    BY <1>10, WriteEffect
  <2> QED
    BY <1>1, <1>10, <2>1, SettledAlone DEF PageDone
<1>11. ASSUME NEW f \in FollowUps, FollowVerify(f) PROVE SettledAt(v)'
  <2> DEFINE s == following[f].session
             row == [auth[s] EXCEPT !.status = "presentation_received"]
  <2>1. s \in Sessions /\ auth[s] \in AuthRows
    BY <1>3, <1>11 DEF FollowVerify, CopyOf, TypesInv, RowTypes
  <2>2. row.step = auth[s].step /\ row.status # "web_auth_completed"
    BY <2>1 DEF AuthRows
  <2>3. (WriteAuth(s, row) \/ UNCHANGED auth) /\ UNCHANGED <<issued, verifier, done>>
    BY <1>11 DEF FollowVerify
  <2> HIDE DEF row
  <2> QED
    BY <1>4, <1>10, <2>1, <2>2, <2>3
<1>12. ASSUME NEW f \in FollowUps, FollowAdvance(f) PROVE SettledAt(v)'
  <2> DEFINE s == following[f].session
             i == following[f].step
             moved == [auth[s] EXCEPT !.step = i + 1, !.status = "pending"]
             all == [auth[s] EXCEPT !.status = "all_steps_completed"]
  <2>1. s \in Sessions /\ auth[s] \in AuthRows /\ i \in Nat /\ Settled(s, i)
    BY <1>3, <1>12 DEF FollowAdvance, CopyOf, TypesInv, RowTypes, Ahead
  <2>2. (WriteAuth(s, moved) \/ WriteAuth(s, all)) /\ UNCHANGED <<issued, verifier, done>>
    BY <1>12 DEF FollowAdvance
  <2>3. all.step = auth[s].step /\ all.status # "web_auth_completed"
    BY <2>1 DEF AuthRows
  <2>4. moved.step = i + 1 /\ moved.status = "pending"
    BY <2>1 DEF AuthRows
  <2> HIDE DEF moved, all
  <2>5. CASE WriteAuth(s, all)
    BY <1>10, <2>1, <2>2, <2>3, <2>5
  <2>6. CASE auth'[v] = auth[v]
    BY <1>1, <2>2, <2>6, SettledAlone DEF PageDone
  <2>7. CASE v = s /\ auth'[v] = moved
    <3>1. Settled(v, auth'[v].step - 1)
      BY <2>1, <2>4, <2>7
    <3>2. (Settled(v, auth[v].step - 1))'
      <4>1. PICK j : j = auth'[v].step - 1
        OBVIOUS
      <4> QED
        BY <1>1, <3>1, <4>1, SettledKept
    <3>3. ~PageDone(v)'
      BY <2>4, <2>7 DEF PageDone
    <3> QED
      BY <1>1, <1>2, <2>2, <3>2, <3>3, SettledKept, DoneKept DEF SettledAt, Verified
  <2> QED
    BY <2>1, <2>2, <2>5, <2>6, <2>7, WriteEffect
<1>13. ASSUME NEW f \in FollowUps, FollowAsk(f) PROVE SettledAt(v)'
  <2> DEFINE s == following[f].session
             i == following[f].step
  <2>1. s \in Sessions /\ i + 1 \in Nat \ {0} /\ Settled(s, (i + 1) - 1)
    BY <1>3, <1>13 DEF FollowAsk, CopyOf, Ahead
  <2>2. Ask(s, i + 1) /\ UNCHANGED <<auth, issued, done>>
    BY <1>13 DEF FollowAsk
  <2> HIDE DEF s, i
  <2> QED
    BY <1>1, <2>1, <2>2, SettledAsk
<1>14. ASSUME NEW f \in FollowUps, FollowIssue(f) PROVE SettledAt(v)'
  <2> DEFINE s == following[f].session
             row == [auth[s] EXCEPT !.code = <<s, issued[s]>>, !.status = "code_issued"]
  <2>1. s \in Sessions /\ auth[s] \in AuthRows /\ Settled(s, Len(plan[s]))
    BY <1>3, <1>14 DEF FollowIssue, CopyOf, TypesInv, RowTypes, Ahead
  <2>2. WriteAuth(s, row) /\ UNCHANGED <<verifier, done>>
    BY <1>14 DEF FollowIssue
  <2>3. row.step = auth[s].step /\ row.status = "code_issued"
    BY <2>1 DEF AuthRows
  <2>4. issued'[v] = issued[v] \/ v = s
    BY <1>14 DEF FollowIssue, TypesInv, RowTypes
  <2> HIDE DEF row
  <2>5. auth'[v].step = auth[v].step /\ (PageDone(v)' => PageDone(v))
    BY <2>1, <2>2, <2>3, WriteEffect DEF PageDone
  <2>6. issued'[v] > 0 => Settled(v, Len(plan[v]))
    BY <1>2, <2>1, <2>4 DEF SettledAt
  <2>7. (issued[v] > 0 => Settled(v, Len(plan[v])))'
    BY <1>1, <1>2, <2>6, SettledKept
  <2> QED
    BY <1>1, <1>2, <2>2, <2>5, <2>7, SettledKept, DoneKept DEF SettledAt, Verified
<1>15. ASSUME NEW b \in Backends, CompleteSave(b) PROVE SettledAt(v)'
  <2> DEFINE s == completing[b]
             row == [auth[s] EXCEPT !.status = "web_auth_completed"]
  <2>1. s \in Sessions /\ auth[s] \in AuthRows /\ Done(s, Page)
    BY <1>15 DEF CompleteSave, Copies, TypesInv, RowTypes, RequestTypes
  <2>2. row.step = auth[s].step
    BY <2>1 DEF AuthRows
  <2>3. WriteAuth(s, row) /\ UNCHANGED <<issued, verifier, done>>
    BY <1>15 DEF CompleteSave
  <2> HIDE DEF row
  <2> QED
    BY <1>10, <2>1, <2>2, <2>3
<1>16. ASSUME NEW s \in Sessions, Post(s) PROVE SettledAt(v)'
  BY <1>6, <1>16 DEF Post
<1>17. ASSUME NEW f \in FollowUps,
              FollowLoad(f) \/ FollowForward(f) \/ FollowPublish(f) \/ FollowAbort(f)
       PROVE  SettledAt(v)'
  BY <1>4, <1>17 DEF FollowLoad, FollowForward, FollowPublish, FollowAbort
<1>18. CASE \/ UNCHANGED vars
            \/ \E s \in Sessions : PassExpiry(s)
            \/ \E b \in Backends : CompleteLoad(b)
            \/ \E t \in Exchanges : ExchangeLoad(t) \/ ExchangeRedeem(t)
            \/ EndOffer
  BY <1>4, <1>18 DEF vars, PassExpiry, CompleteLoad, ExchangeLoad, ExchangeRedeem, NotExchange,
                     EndOffer
<1> QED
  BY <1>5, <1>7, <1>8, <1>9, <1>11, <1>12, <1>13, <1>14, <1>15, <1>16, <1>17, <1>18, NextActs
  DEF Acts

-----------------------------------------------------------------------------
(***************************************************************************)
(* The copies of follow-up requests.                                       *)
(***************************************************************************)
LEMMA CopyKept ==
    ASSUME TypesInv, RowTypes', Kept, NEW g \in FollowUps, NEW s, NEW i, CopyOf(g, s, i),
           following'[g] = following[g]
    PROVE  CopyOf(g, s, i)'
<1> USE DEF CopyOf
<1>1. s \in Sessions /\ plan' = plan /\ Steps(s)' = Steps(s) /\ i \in Steps(s)'
  BY DEF Kept, Steps
<1>2. ASSUME following[g].code \in Code, following[g].code[2] < issued[s]
      PROVE  following[g].code[2] < issued'[s]
  <2>1. following[g].code[2] \in Nat /\ issued[s] \in Nat /\ issued'[s] \in Nat
    BY <1>1, <1>2 DEF Code, TypesInv, RowTypes
  <2> QED
    BY <1>1, <1>2, <2>1 DEF Kept
<1>3. done[s] \subseteq done'[s] /\ FirstOfKind(s)' = FirstOfKind(s)
  BY <1>1 DEF Kept, FirstOfKind, Interaction
<1>4. Interaction(s, i)' = Interaction(s, i)
  BY <1>1 DEF Interaction
<1>5. Settled(s, i - 1)' /\ (Settled(s, i) => Settled(s, i)')
  BY <1>1, SettledKept
<1>6. following[g].at = "publish" =>
          /\ following[g].code \in Code /\ following[g].code[1] = s
          /\ following[g].code[2] < issued'[s]
  BY <1>2
<1>7. Done(s, Present) => Done(s, Present)'
  BY <1>1, DoneKept
<1> QED
  BY <1>1, <1>3, <1>4, <1>5, <1>6, <1>7

\* The requests that a step does not handle.
LEMMA OthersKept ==
    ASSUME TypesInv, RowTypes', Kept, Copies, NEW f, NEW g \in FollowUps, g # f,
           \/ following' = [following EXCEPT ![f] = following'[f]]
           \/ UNCHANGED following,
           following'[g].at # "idle"
    PROVE  CopyOf(g, following[g].session, following[g].step)'
<1>1. following'[g] = following[g]
  BY DEF TypesInv, RequestTypes
<1>2. CopyOf(g, following[g].session, following[g].step)
  BY <1>1 DEF Copies
<1>3. PICK s, i : s = following[g].session /\ i = following[g].step
  OBVIOUS
<1>4. CopyOf(g, s, i)'
  BY <1>1, <1>2, <1>3, CopyKept
<1> QED
  BY <1>1, <1>3, <1>4


\* A request that moves on with the same step.
LEMMA MovesOn ==
    ASSUME TypesInv, Copies, NEW f \in FollowUps, following[f].at # "idle",
           NEW pc \in FollowPC, To(f, pc)
    PROVE  /\ following'[f].at = pc /\ following'[f].code = following[f].code
           /\ following'[f].session = following[f].session
           /\ following'[f].step = following[f].step
           /\ CopyOf(f, following[f].session, following[f].step)
BY DEF TypesInv, RequestTypes, Requests, Copies, To

LEMMA NewCopy ==
    ASSUME TypesInv, RowTypes', Kept, Shown, AllSettled, Copies, NEW f \in FollowUps,
           FollowUp(f), following'[f].at # "idle"
    PROVE  CopyOf(f, following[f].session, following[f].step)'
<1>1. SUFFICES \E s, i : /\ following'[f].session = s /\ following'[f].step = i
                         /\ CopyOf(f, s, i)'
  OBVIOUS
<1>2. ASSUME FollowAbort(f) \/ FollowAsk(f) \/ FollowPublish(f) PROVE FALSE
  BY <1>2 DEF FollowAbort, FollowAsk, FollowPublish, Answer, Idle, TypesInv, RequestTypes
<1>3. CASE FollowLoad(f)
  <2>1. PICK s \in Sessions, pc \in {"advance", "verify", "respond"} :
           /\ following' = [following EXCEPT ![f] =
                  [at |-> pc, session |-> s, step |-> auth[s].step, code |-> None]]
           /\ pc = "advance" => Interaction(s, auth[s].step) = Page /\ PageDone(s)
           /\ pc # "advance" => Interaction(s, auth[s].step) # Page
    BY <1>3 DEF FollowLoad, Page
  <2>2. PICK i : i = auth[s].step
    OBVIOUS
  <2>3. following'[f] = [at |-> pc, session |-> s, step |-> i, code |-> None]
    BY <2>1, <2>2 DEF TypesInv, RequestTypes
  <2>4. i \in Steps(s) /\ Settled(s, i - 1) /\ SettledAt(s)
    BY <2>2 DEF Shown, StepsOf, AllSettled, SettledAt
  <2>5. Interaction(s, i) \in {Present, Page} /\ i \in Nat \ {0}
    BY <2>4, PlanFacts DEF TypesInv, Steps
  <2>6. pc = "advance" => Settled(s, i)
    <3> SUFFICES ASSUME pc = "advance" PROVE Settled(s, i)
      OBVIOUS
    <3>1. Done(s, Interaction(s, i)) /\ Interaction(s, i) # Present
      BY <2>1, <2>2, <2>4 DEF SettledAt, Present, Page
    <3>2. FirstOfKind(s) \cap {i} \subseteq done[s]
      BY <2>4, <3>1, FirstStands
    <3> QED
      BY <2>4, <2>5, <3>1, <3>2, SettledOn
  <2>7. Settled(s, i - 1)' /\ (pc = "advance" => Settled(s, i)')
    BY <2>4, <2>6, SettledKept
  <2>8. plan' = plan
    BY DEF Kept
  <2> QED
    BY <2>1, <2>2, <2>3, <2>4, <2>5, <2>7, <2>8 DEF CopyOf, Ahead, Interaction, Steps
<1> PICK s, i : s = following[f].session /\ i = following[f].step
  OBVIOUS
<1>4. CASE FollowRespond(f) \/ FollowVerify(f) \/ FollowForward(f) \/ FollowAdvance(f)
           \/ FollowIssue(f)
  <2>1. following[f].at # "idle" /\ CopyOf(f, s, i)
    BY <1>4 DEF FollowRespond, FollowVerify, FollowForward, FollowAdvance, FollowIssue, Copies
  <2>2. /\ s \in Sessions /\ i \in Steps(s) /\ plan' = plan /\ Steps(s)' = Steps(s)
        /\ Interaction(s, i)' = Interaction(s, i) /\ FirstOfKind(s)' = FirstOfKind(s)
        /\ done[s] \subseteq done'[s]
    BY <2>1 DEF CopyOf, Kept, Steps, Interaction, FirstOfKind
  <2>3. Settled(s, i - 1)' /\ (Settled(s, i) => Settled(s, i)')
    BY <2>1, <2>2, SettledKept DEF CopyOf
  <2>4. CASE FollowRespond(f)
    BY <2>1, <2>2, <2>3, <2>4, MovesOn DEF FollowRespond, FollowPC, CopyOf, Ahead
  <2>5. CASE FollowVerify(f)
    <3>1. following[f].at = "verify" /\ ((To(f, "forward") /\ Verified(s)) \/ Answer(f))
      BY <2>5 DEF FollowVerify
    <3>2. ~Answer(f)
      BY DEF Answer, Idle, TypesInv, RequestTypes
    <3>3. Interaction(s, i) = Present /\ SettledAt(s)
      BY <2>1, <2>2, <3>1, <3>2 DEF CopyOf, AllSettled
    <3>4. Done(s, Present) /\ FirstOfKind(s) \cap {i} \subseteq done[s]
      BY <2>2, <3>1, <3>2, <3>3, FirstStands DEF SettledAt
    <3>5. Done(s, Present)'
      BY <2>2, <3>4, DoneKept
    <3> QED
      BY <2>1, <2>2, <2>3, <3>1, <3>2, <3>3, <3>4, <3>5, MovesOn DEF FollowPC, CopyOf, Ahead
  <2>6. CASE FollowForward(f)
    <3>1. following[f].at = "forward" /\ To(f, "advance") /\ WriteOffer(Forwarded(s))
      BY <2>6 DEF FollowForward
    <3>2. offer'.credentials # None
      BY <2>2, <3>1, PlansGiven DEF WriteOffer, Forwarded, TypesInv, RowTypes, Offers
    <3>3. FirstOfKind(s)' \cap {i} \subseteq done'[s]
      BY <2>1, <2>2, <3>1 DEF CopyOf
    <3>4. i \in Nat \ {0}
      BY <2>2, PlanFacts DEF Steps, TypesInv
    <3>5. 1..i = (1..(i - 1)) \cup {i}
      BY <3>4
    <3>6. Settled(s, i)'
      BY <2>3, <3>2, <3>3, <3>5 DEF Settled
    <3> QED
      BY <2>1, <2>2, <2>3, <3>1, <3>6, MovesOn DEF FollowPC, CopyOf, Ahead
  <2>7. CASE FollowAdvance(f)
    <3>1. following[f].at = "advance"
          /\ IF i < Len(plan[s]) THEN To(f, "ask") ELSE To(f, "issue")
      BY <2>7 DEF FollowAdvance
    <3>2. Len(plan[s]) \in Nat
      BY <2>2, PlanFacts DEF TypesInv
    <3>3. ~(i < Len(plan[s])) => i = Len(plan[s])
      BY <2>2, <3>2 DEF Steps
    <3>4. Settled(s, i)'
      BY <2>1, <2>3, <3>1 DEF CopyOf, Ahead
    <3> QED
      BY <2>1, <2>2, <2>3, <3>1, <3>3, <3>4, MovesOn DEF FollowPC, CopyOf, Ahead
  <2>8. CASE FollowIssue(f)
    <3> DEFINE c == <<s, issued[s]>>
    <3>1. /\ following[f].at = "issue"
          /\ following' = [following EXCEPT ![f].at = "publish", ![f].code = c]
          /\ issued' = [issued EXCEPT ![s] = @ + 1]
      BY <2>8 DEF FollowIssue
    <3>2. issued[s] \in Nat /\ issued'[s] = issued[s] + 1
      BY <2>2, <3>1 DEF TypesInv, RowTypes
    <3>3. c \in Code /\ c[1] = s /\ c[2] < issued'[s]
      BY <2>2, <3>2 DEF Code
    <3>4. Settled(s, i)' /\ i = Len(plan[s])
      BY <2>1, <2>3, <3>1 DEF CopyOf, Ahead
    <3> HIDE DEF c
    <3>5. /\ following'[f].at = "publish" /\ following'[f].code = c
          /\ following'[f].session = s /\ following'[f].step = i
      BY <3>1 DEF TypesInv, RequestTypes, Requests
    <3> QED
      BY <2>1, <2>2, <2>3, <3>3, <3>4, <3>5 DEF CopyOf, Ahead
  <2> QED
    BY <1>4, <2>4, <2>5, <2>6, <2>7, <2>8
<1> QED
  BY <1>2, <1>3, <1>4 DEF FollowUp


LEMMA CopiesStep ==
    ASSUME TypesInv, RowTypes', Shown, AllSettled, Copies, [Next]_vars
    PROVE  Copies'
<1>1. Kept
  BY Keeps
<1>2. ASSUME NEW b \in Backends, completing'[b] # None PROVE Done(completing[b], Page)'
  <2>1. CASE completing'[b] = completing[b]
    <3>1. PICK s \in Sessions : s = completing[b] /\ Done(s, Page)
      BY <1>2, <2>1 DEF Copies, TypesInv, RequestTypes
    <3> QED
      BY <1>1, <2>1, <3>1, DoneKept
  <2>2. CASE \E c \in Backends : CompleteLoad(c) \/ CompleteSave(c)
    <3>1. PICK c \in Backends : CompleteLoad(c) \/ CompleteSave(c)
      BY <2>2
    <3>2. completing'[b] = completing[b]
          \/ \E s \in Sessions : completing'[b] = s /\ Pages(s) # {}
      BY <1>2, <3>1 DEF CompleteLoad, CompleteSave, TypesInv, RequestTypes
    <3>3. ASSUME NEW s \in Sessions, completing'[b] = s, Pages(s) # {}
          PROVE  Done(completing[b], Page)'
      <4>1. Done(s, Page)
        BY <3>3 DEF Done, Pages, Page
      <4> QED
        BY <1>1, <3>3, <4>1, DoneKept
    <3> QED
      BY <2>1, <3>2, <3>3
  <2>3. CASE UNCHANGED completing
    BY <2>1, <2>3
  <2>4. ASSUME Acts, ~(\E c \in Backends : CompleteLoad(c) \/ CompleteSave(c))
        PROVE  UNCHANGED completing
    BY <2>4 DEF Acts, Start, Post, Finish, FollowExpired, PassExpiry, FollowLoad, FollowRespond,
                FollowVerify, FollowForward, FollowAdvance, FollowAsk, FollowIssue,
                FollowPublish, FollowAbort, ExchangeLoad, ExchangeRedeem, EndOffer, NotFollow,
                NotExchange
  <2> QED
    BY <2>2, <2>3, <2>4, NextActs DEF vars
<1>3. ASSUME NEW g \in FollowUps, following'[g].at # "idle"
      PROVE  CopyOf(g, following[g].session, following[g].step)'
  <2>1. CASE UNCHANGED following
    <3>1. CopyOf(g, following[g].session, following[g].step) /\ following'[g] = following[g]
      BY <1>3, <2>1 DEF Copies
    <3>2. PICK s, i : s = following[g].session /\ i = following[g].step
      OBVIOUS
    <3> QED
      BY <1>1, <3>1, <3>2, CopyKept
  <2>2. CASE \E f \in FollowUps : FollowUp(f)
    <3>1. PICK f \in FollowUps : FollowUp(f)
      BY <2>2
    <3>2. following' = [following EXCEPT ![f] = following'[f]]
      BY <3>1 DEF FollowUp, FollowLoad, FollowRespond, FollowVerify, FollowForward,
                  FollowAdvance, FollowAsk, FollowIssue, FollowPublish, FollowAbort, To, Answer,
                  TypesInv, RequestTypes
    <3> QED
      BY <1>1, <1>3, <3>1, <3>2, NewCopy, OthersKept
  <2>3. ASSUME Next, ~(\E f \in FollowUps : FollowUp(f)) PROVE UNCHANGED following
    BY <2>3 DEF Next, Start, Post, Finish, FollowExpired, PassExpiry, CompleteLoad, CompleteSave,
                Exchange, ExchangeLoad, ExchangeRedeem, EndOffer, NotExchange
  <2> QED
    BY <2>1, <2>2, <2>3 DEF vars
<1> QED
  BY <1>2, <1>3 DEF Copies

-----------------------------------------------------------------------------
(***************************************************************************)
(* Whose credentials the offer has.                                        *)
(***************************************************************************)
LEMMA SourcedStep ==
    ASSUME TypesInv, Copies, Sourced, [Next]_vars
    PROVE  Sourced'
<1> USE DEF TypesInv, RowTypes, Offers
<1>1. Kept
  BY Keeps
<1>2. ASSUME NEW s \in Sessions, offer'.credentials = s, Done(s, Present) PROVE Sourced'
  <2>1. Done(s, Present)'
    BY <1>1, <1>2, DoneKept
  <2> QED
    BY <1>2, <2>1 DEF Sourced
<1>3. CASE offer'.credentials = offer.credentials
  <2>1. offer.credentials = None \/ offer.credentials \in Sessions
    OBVIOUS
  <2>2. CASE offer.credentials = None
    BY <1>3, <2>2 DEF Sourced
  <2>3. ASSUME NEW s \in Sessions, offer.credentials = s PROVE Sourced'
    BY <1>2, <1>3, <2>3, PlansGiven DEF Sourced
  <2> QED
    BY <2>1, <2>2, <2>3
<1>4. ASSUME NEW f \in FollowUps, FollowForward(f) PROVE Sourced'
  <2>1. PICK s \in Sessions : s = following[f].session /\ Done(s, Present)
    BY <1>4 DEF FollowForward, Copies, CopyOf
  <2>2. offer'.credentials = s
    BY <1>4, <2>1 DEF FollowForward, WriteOffer, Forwarded
  <2> QED
    BY <1>2, <2>1, <2>2
<1>5. ASSUME NEW f \in FollowUps, FollowPublish(f) PROVE Sourced'
  BY <1>3, <1>5 DEF FollowPublish, WriteOffer
<1>6. ASSUME NEW t \in Exchanges, ExchangeLoad(t) \/ ExchangeRedeem(t) PROVE Sourced'
  BY <1>3, <1>6 DEF ExchangeLoad, ExchangeRedeem
<1>7. CASE EndOffer
  BY <1>3, <1>7 DEF EndOffer
<1>8. ASSUME NEW s \in Sessions,
             Start(s) \/ Post(s) \/ Finish(s) \/ FollowExpired(s) \/ PassExpiry(s)
      PROVE  Sourced'
  BY <1>3, <1>8 DEF Start, Post, Finish, FollowExpired, PassExpiry
<1>9. ASSUME NEW f \in FollowUps, \/ FollowLoad(f) \/ FollowRespond(f) \/ FollowVerify(f)
                                  \/ FollowAdvance(f) \/ FollowAsk(f) \/ FollowIssue(f)
                                  \/ FollowAbort(f)
      PROVE  Sourced'
  BY <1>3, <1>9 DEF FollowLoad, FollowRespond, FollowVerify, FollowAdvance, FollowAsk,
                    FollowIssue, FollowAbort
<1>10. ASSUME NEW b \in Backends, CompleteLoad(b) \/ CompleteSave(b) PROVE Sourced'
  BY <1>3, <1>10 DEF CompleteLoad, CompleteSave
<1>11. CASE UNCHANGED vars
  BY <1>3, <1>11 DEF vars
<1> QED
  BY <1>4, <1>5, <1>6, <1>7, <1>8, <1>9, <1>10, <1>11, NextActs DEF Acts

-----------------------------------------------------------------------------
(***************************************************************************)
(* Codes and their redemption.                                             *)
(***************************************************************************)
LEMMA ReceivedStep ==
    ASSUME TypesInv, RowTypes', Copies, Received, [Next]_vars
    PROVE  Received'
<1>1. Kept
  BY Keeps
<1>2. ASSUME NEW c \in Code, c[2] < issued[c[1]] PROVE c[2] < issued'[c[1]]
  <2>1. c[1] \in Sessions /\ c[2] \in Nat
    BY DEF Code
  <2>2. issued[c[1]] \in Nat /\ issued'[c[1]] \in Nat /\ issued[c[1]] <= issued'[c[1]]
    BY <1>1, <2>1 DEF Kept, TypesInv, RowTypes
  <2> QED
    BY <1>2, <2>1, <2>2
<1>3. ASSUME NEW c \in answered' \ answered PROVE c \in Code /\ c[2] < issued[c[1]]
  <2>1. PICK f \in FollowUps : FollowPublish(f)
    BY <1>3, NextActs
    DEF Acts, Start, Post, Finish, FollowExpired, PassExpiry, FollowLoad, FollowRespond,
        FollowVerify, FollowForward, FollowAdvance, FollowAsk, FollowIssue, FollowAbort,
        CompleteLoad, CompleteSave, ExchangeLoad, ExchangeRedeem, EndOffer, NotExchange, vars
  <2>2. c = following[f].code /\ following[f].at = "publish"
    BY <1>3, <2>1 DEF FollowPublish
  <2> QED
    BY <2>2 DEF Copies, CopyOf
<1>4. \A c \in answered : c \in Code /\ c[2] < issued[c[1]]
  BY DEF Received, TypesInv, RequestTypes
<1> QED
  BY <1>2, <1>3, <1>4 DEF Received

LEMMA GrantingStep ==
    ASSUME TypesInv, Copies, Granting, [Next]_vars
    PROVE  Granting'
<1> USE DEF TypesInv, RequestTypes
<1>1. Kept
  BY Keeps
<1>2. CASE exchanging' = exchanging /\ offer'.consumed = offer.consumed
  BY <1>1, <1>2 DEF Granting, Kept
<1>3. ASSUME NEW t \in Exchanges, ExchangeLoad(t) PROVE Granting'
  <2>1. PICK c \in answered : exchanging' = [exchanging EXCEPT ![t] = Presents(c)]
    BY <1>3 DEF ExchangeLoad
  <2>2. Presents(c).code = c /\ Presents(c).at # "granted"
    BY DEF Presents
  <2>3. exchanging[t].at # "granted" /\ UNCHANGED <<offer, answered>>
    BY <1>3 DEF ExchangeLoad, NotExchange
  <2> HIDE DEF Presents
  <2> QED
    BY <2>1, <2>2, <2>3 DEF Granting
<1>4. ASSUME NEW t \in Exchanges, ExchangeRedeem(t) PROVE Granting'
  <2>1. exchanging[t].at = "redeem" /\ exchanging[t].code \in answered /\ UNCHANGED answered
    BY <1>4 DEF ExchangeRedeem, NotExchange, Granting
  <2>2. CASE Unconsumed(offer, FALSE)
    <3>1. offer'.consumed /\ exchanging' = [exchanging EXCEPT ![t].at = "granted"]
      BY <1>4, <2>2 DEF ExchangeRedeem, RowTypes, Offers
    <3>2. \A u \in Exchanges : exchanging[u].at # "granted"
      BY <2>2 DEF Unconsumed, Granting
    <3>3. exchanging'[t].at = "granted" /\ exchanging'[t].code = exchanging[t].code
      BY <3>1 DEF TokenRequests
    <3>4. \A u \in Exchanges \ {t} : exchanging'[u] = exchanging[u]
      BY <3>1
    <3> QED
      BY <2>1, <3>1, <3>2, <3>3, <3>4 DEF Granting
  <2>3. CASE ~Unconsumed(offer, FALSE)
    <3>1. exchanging' = [exchanging EXCEPT ![t] = Presents(None)] /\ UNCHANGED offer
      BY <1>4, <2>3 DEF ExchangeRedeem
    <3>2. Presents(None).at = "idle"
      BY DEF Presents
    <3> QED
      BY <2>1, <3>1, <3>2 DEF Granting
  <2> QED
    BY <2>2, <2>3
<1>5. ASSUME NEW f \in FollowUps, FollowForward(f) \/ FollowPublish(f)
      PROVE  exchanging' = exchanging /\ offer'.consumed = offer.consumed
  BY <1>5 DEF FollowForward, FollowPublish, NotFollow, WriteOffer, Forwarded, RowTypes, Offers
<1>6. CASE EndOffer
  BY <1>2, <1>6 DEF EndOffer, RowTypes, Offers
<1>7. ASSUME NEW s \in Sessions,
             Start(s) \/ Post(s) \/ Finish(s) \/ FollowExpired(s) \/ PassExpiry(s)
      PROVE  exchanging' = exchanging /\ offer' = offer
  BY <1>7 DEF Start, Post, Finish, FollowExpired, PassExpiry
<1>8. ASSUME NEW f \in FollowUps, \/ FollowLoad(f) \/ FollowRespond(f) \/ FollowVerify(f)
                                  \/ FollowAdvance(f) \/ FollowAsk(f) \/ FollowIssue(f)
                                  \/ FollowAbort(f)
      PROVE  exchanging' = exchanging /\ offer' = offer
  BY <1>8 DEF FollowLoad, FollowRespond, FollowVerify, FollowAdvance, FollowAsk, FollowIssue,
              FollowAbort, NotFollow
<1>9. ASSUME NEW b \in Backends, CompleteLoad(b) \/ CompleteSave(b)
      PROVE  exchanging' = exchanging /\ offer' = offer
  BY <1>9 DEF CompleteLoad, CompleteSave
<1>10. CASE UNCHANGED vars
  BY <1>2, <1>10 DEF vars
<1> QED
  BY <1>2, <1>3, <1>4, <1>5, <1>6, <1>7, <1>8, <1>9, <1>10, NextActs DEF Acts
-----------------------------------------------------------------------------
(***************************************************************************)
(* The theorems.                                                           *)
(***************************************************************************)

\* Inv is an invariant of interactive authorization.
THEOREM InteractiveInductive == Spec => []Inv
<1>1. Inv /\ [Next]_vars => Inv'
  <2> SUFFICES ASSUME Inv, [Next]_vars PROVE Inv'
    OBVIOUS
  <2> USE DEF Inv
  <2>1. RowTypes' /\ RequestTypes'
    BY RowTypesStep, RequestTypesStep
  <2>2. PlanTypes'
    BY PlanKept DEF TypesInv, PlanTypes
  <2>3. Sourced' /\ Received' /\ Granting'
    BY <2>1, SourcedStep, ReceivedStep, GrantingStep
  <2>4. Shown' /\ AllSettled' /\ Copies'
    BY <2>1, ShownStep, SettledStep, CopiesStep
  <2> QED
    BY <2>1, <2>2, <2>3, <2>4 DEF TypesInv
<1> QED
  BY InitInv, <1>1, PTL DEF Spec

\* Every variable holds values of its kind: in particular, what the row, the verifier
\* and the user name are steps of the plan, whichever copies were written back.
THEOREM InteractiveTypes == Spec => []TypeOK
<1>1. Inv => TypeOK
  <2> SUFFICES ASSUME Inv PROVE TypeOK
    OBVIOUS
  <2> USE DEF Inv, TypesInv, PlanTypes, RowTypes, RequestTypes
  <2>1. ASSUME NEW s \in Sessions
        PROVE  /\ plan[s] \in Plans[s]
               /\ auth[s].stored \in BOOLEAN /\ auth[s].step \in 1..Len(plan[s])
               /\ auth[s].status \in AuthStatus /\ auth[s].code \in Code \cup {None}
               /\ verifier[s].step \in 0..Len(plan[s])
               /\ verifier[s].status \in
                    IF verifier[s].step = 0 THEN {None} ELSE {"active", "completed", "failed"}
               /\ done[s] \subseteq 1..Len(plan[s])
    <3>1. StepsOf(s) /\ Len(plan[s]) \in Nat
      BY PlanFacts DEF Shown
    <3> QED
      BY <3>1 DEF StepsOf, Steps, Outcomes, AuthRows
  <2>2. /\ expired \in [Sessions -> BOOLEAN] /\ issued \in [Sessions -> Nat]
        /\ offer.status \in Status /\ offer.code \in Code \cup {None}
        /\ offer.challenge \in Sessions \cup {None}
        /\ offer.credentials \in Sessions \cup {None}
    BY DEF Offers
  <2>3. /\ \A f \in FollowUps : /\ following[f].at \in FollowPC
                                /\ following[f].code \in Code \cup {None}
        /\ \A b \in Backends : completing[b] \in Sessions \cup {None}
        /\ answered \subseteq Code
    BY DEF Requests
  <2> QED
    BY <2>1, <2>2, <2>3 DEF TypeOK
<1> QED
  BY InteractiveInductive, <1>1, PTL

\* No wallet gets past the first page of its plan before the user finished it, nor past
\* the first presentation before it was verified, and no code is issued before both.
THEOREM StepsDone == Spec => []StepsBeforeCode
<1>1. Inv => StepsBeforeCode
  BY DEF Inv, AllSettled, SettledAt, Settled, StepsBeforeCode
<1> QED
  BY InteractiveInductive, <1>1, PTL

\* One token request at most is granted the offer, with a code a wallet received.
THEOREM OneGrant == Spec => []RedeemedOnce
<1>1. Inv => RedeemedOnce
  <2> SUFFICES ASSUME Inv PROVE RedeemedOnce
    OBVIOUS
  <2> DEFINE G == {t \in Exchanges : exchanging[t].at = "granted"}
  <2>1. \A t, u \in G : t = u
    BY DEF Inv, Granting
  <2>2. Cardinality(G) <= 1
    <3>1. CASE G = {}
      BY <3>1, FS_EmptySet
    <3>2. ASSUME NEW t \in G PROVE Cardinality(G) <= 1
      <4>1. G = {t}
        BY <2>1, <3>2
      <4> HIDE DEF G
      <4> QED
        BY <4>1, FS_Singleton
    <3> QED
      BY <3>1, <3>2
  <2>3. Granted # {} <=> offer.consumed
    BY DEF Inv, Received, Granting, Granted
  <2>4. \A c \in Granted : c \in answered /\ c[2] < issued[c[1]]
    BY DEF Inv, Received, Granting, Granted
  <2> QED
    BY <2>2, <2>3, <2>4 DEF RedeemedOnce
<1> QED
  BY InteractiveInductive, <1>1, PTL

\* When tokens are granted for a plan with a presentation, the offer has credentials, and
\* an auth session of the offer that presented them: the one of the code, or another one
\* whose follow-up request wrote over its credentials.
THEOREM CredentialsKept == Spec => []CredentialsBeforeTokens
<1>1. Inv => CredentialsBeforeTokens
  <2> SUFFICES ASSUME Inv, NEW c \in Granted,
                      NEW i \in Steps(c[1]), Interaction(c[1], i) = Present
               PROVE  \E s \in Sessions : /\ offer.credentials = s
                                          /\ Presentations(s) \cap done[s] # {}
    BY DEF CredentialsBeforeTokens, Presentations, Steps, Present
  <2>1. c \in Code /\ c[2] < issued[c[1]]
    BY DEF Inv, TypesInv, RequestTypes, Received, Granting, Granted
  <2>2. c[1] \in Sessions /\ c[2] \in Nat
    BY <2>1 DEF Code
  <2>3. issued[c[1]] > 0
    BY <2>1, <2>2 DEF Inv, TypesInv, RowTypes
  <2>4. offer.credentials # None
    BY <2>2, <2>3 DEF Inv, AllSettled, SettledAt, Settled, Steps
  <2>5. PICK s \in Sessions : offer.credentials = s /\ Done(s, Present)
    BY <2>4 DEF Inv, TypesInv, RowTypes, Offers, Sourced
  <2>6. PICK j \in done[s] : Interaction(s, j) = Present
    BY <2>5 DEF Done
  <2>7. j \in Presentations(s)
    BY <2>6 DEF Inv, Shown, StepsOf, Steps, Presentations, Present
  <2> QED
    BY <2>5, <2>6, <2>7
<1> QED
  BY InteractiveInductive, <1>1, PTL
=============================================================================
