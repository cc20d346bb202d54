--------------------------- MODULE SessionContract ---------------------------
(***************************************************************************)
(* What a session promises to the tenant's backend, whatever the wallets,  *)
(* the operators and the maintenance job do at the same time: a status     *)
(* that only moves forward and is final once terminal, and one redemption. *)
(* The flows are checked and proved to implement it.                       *)
(*                                                                         *)
(* redeemedBy is the one request that redeemed the session: the response   *)
(* that completed a presentation, or the token request that exchanged an   *)
(* offer's code.  A redeemed session is never cancelled and never expires. *)
(***************************************************************************)
CONSTANTS Requests,   \* requests that may redeem the session
          None        \* no request

VARIABLES status, redeemedBy

vars == <<status, redeemedBy>>

Open == {"active", "fetched"}

Init == status = "active" /\ redeemedBy = None

\* The wallet fetched the request, or received its first credential.
Fetch == status = "active" /\ status' = "fetched" /\ UNCHANGED redeemedBy

\* A request redeems the session, which may finish it at the same time.
Redeem(r) ==
    /\ status \in Open /\ redeemedBy = None
    /\ status' \in {status, "completed"}
    /\ redeemedBy' = r

\* The flow ends: with a failure, or with the success of what was redeemed.
Finish ==
    /\ status \in Open
    /\ \/ status' = "failed"
       \/ redeemedBy # None /\ status' = "completed"
    /\ UNCHANGED redeemedBy

\* Cancellation and expiry only reach a session nobody redeemed.
Withdraw ==
    /\ status \in Open /\ redeemedBy = None
    /\ status' \in {"cancelled", "expired"}
    /\ UNCHANGED redeemedBy

\* The row is deleted, by an operator or by retention.
Delete == status # "deleted" /\ status' = "deleted" /\ redeemedBy' = None

Next == Fetch \/ (\E r \in Requests : Redeem(r)) \/ Finish \/ Withdraw \/ Delete

Spec == Init /\ [][Next]_vars
=============================================================================
