---------------------------- MODULE SessionStore ----------------------------
(***************************************************************************)
(* The session row shared by every protocol flow, and the conditional      *)
(* updates of the session repository.  A row is a record with at least the *)
(* fields stored (the row exists), status and consumed.  An UPDATE of the  *)
(* repository is one SQL statement, so the operators below are the WHERE   *)
(* clauses of single atomic steps; whatever a handler read before is not   *)
(* protected by them.                                                      *)
(*                                                                         *)
(* Time enters as the fact that now is past expiresAt (overdue), which     *)
(* never becomes false again.                                              *)
(***************************************************************************)
CONSTANT None   \* the SQL NULL of a column

\* Final statuses: TERMINAL_STATUSES.
Terminal == {"completed", "failed", "expired", "cancelled"}

\* Statuses in which a wallet may still use the session: OPEN_SESSION_STATUSES.
Open == {"active", "fetched"}

Status == Open \cup Terminal

\* assertSessionUsable: what a wallet-facing entry point demands of the row it
\* read, before it starts to work.
Usable(row, overdue) == row.status \notin Terminal /\ ~overdue

MutantUnconsumed(row, overdue) == row.stored  \* the update trusts what was read before

\* WHERE clause of updateUnconsumedForTenant (SessionStore.updateIfUnconsumed):
\* the conditional update that a token exchange, a presentation response and a
\* cancellation share.
Unconsumed(row, overdue) ==
    /\ row.stored
    /\ ~row.consumed
    /\ row.status \in Open
    /\ ~overdue

MutantInStatus(row, from) == row.stored  \* the update does not name the statuses

\* WHERE clause of changeStateFrom (ChangeSessionState.executeFrom).
InStatus(row, from) == row.stored /\ row.status \in from

MutantExpirableOffer(row, late) == late /\ InStatus(row, Open)  \* forgets that it was redeemed
MutantExpirableRetrieved(row, late) ==  \* forgets offers that no wallet retrieved
    late /\ InStatus(row, {"active"}) /\ ~row.consumed /\ ~row.offer

\* findExpiredSessionsForMaintenance, for an issuance session: only offers that
\* were not redeemed.
ExpirableOffer(row, late) == late /\ InStatus(row, {"active"}) /\ ~row.consumed

MutantRedeemedFirst(row) == IF row.consumed THEN "redeemed" ELSE "expired"

\* notCancellableReason: what the loser of a cancellation is told about the row
\* it reads afterwards.
NotCancellableReason(row) ==
    CASE row.status \in Terminal -> row.status
      [] row.status \notin Terminal /\ row.consumed -> "redeemed"
      [] OTHER -> "expired"
=============================================================================
