-------------------------- MODULE DeferredIssuance --------------------------
(***************************************************************************)
(* One deferred issuance transaction, from the transaction_id the wallet   *)
(* got to its deletion: the wallet polls the deferred credential endpoint, *)
(* the tenant's backend completes or fails the transaction (and may send   *)
(* either more than once), every instance deletes overdue transactions.    *)
(* A credential is named by the completion that signed it.                 *)
(***************************************************************************)
EXTENDS FiniteSets, Naturals

CONSTANTS Completes,  \* POST /issuer/deferred/{id}/complete
          Fails,      \* POST /issuer/deferred/{id}/fail
          Polls,      \* POST /vci/deferred_credential
          NoCredential   \* null in the column of the credential

ASSUME CompletionsDiffer == NoCredential \notin Completes
ASSUME FinitelyMany == IsFiniteSet(Completes) /\ IsFiniteSet(Polls)

VARIABLES
    transaction,   \* the row
    lapsed,        \* now is past its expiresAt (24 hours)
    sessionStored, \* whether the row of its session is still there
    complete,      \* where each completion is
    fail,          \* where each failing request is
    poll,          \* where each poll is, or its answer
    found,         \* the row each poll loaded
    received       \* the credential each poll was answered with

deferredVars == <<transaction, lapsed, sessionStored, complete, fail, poll, found, received>>

TransactionStatus == {"pending", "ready", "retrieved", "expired", "failed"}
Row == [stored : BOOLEAN, status : TransactionStatus, credential : Completes \cup {NoCredential}]
CompletePC == {"idle", "issue", "failed", "mark", "reread", "done", "not found", "error"}
FailPC == {"idle", "mark", "reread", "done", "not found", "error"}
PollPC == {"idle", "resolve", "expire", "retrieve",
           "credential", "issuance_pending", "invalid_transaction_id"}

\* createDeferredTransaction stored it.
DeferredInit ==
    /\ transaction = [stored |-> TRUE, status |-> "pending", credential |-> NoCredential]
    /\ lapsed = FALSE
    /\ sessionStored = TRUE
    /\ complete = [c \in Completes |-> "idle"]
    /\ fail = [f \in Fails |-> "idle"]
    /\ poll = [p \in Polls |-> "idle"]
    /\ found = [p \in Polls |-> transaction]
    /\ received = [p \in Polls |-> NoCredential]

\* An UPDATE by primary key, whatever the status of the row is.
Mark(row) == transaction' = IF transaction.stored THEN row ELSE transaction
-----------------------------------------------------------------------------
(***************************************************************************)
(* CompleteDeferredCredential.execute.                                     *)
(***************************************************************************)
NotComplete == UNCHANGED <<lapsed, sessionStored, fail, poll, found, received>>
CompleteTo(c, pc) == complete' = [complete EXCEPT ![c] = pc]

FindPending(c) ==
    /\ complete[c] = "idle"
    /\ CompleteTo(c, IF transaction.stored /\ transaction.status = "pending"
                     THEN "issue" ELSE "not found")
    /\ UNCHANGED transaction
    /\ NotComplete

\* The session must be there and the claims must be valid.
IssueCredential(c) ==
    /\ complete[c] = "issue"
    /\ \/ sessionStored /\ CompleteTo(c, "mark")
       \/ CompleteTo(c, "failed")
    /\ UNCHANGED transaction
    /\ NotComplete

MarkReady(c) ==
    /\ complete[c] = "mark"
    /\ Mark([transaction EXCEPT !.status = "ready", !.credential = c])
    /\ CompleteTo(c, "reread")
    /\ NotComplete

CompleteReread(c) ==
    /\ complete[c] = "reread"
    /\ CompleteTo(c, IF transaction.stored THEN "done" ELSE "error")
    /\ UNCHANGED transaction
    /\ NotComplete

Complete(c) == FindPending(c) \/ IssueCredential(c) \/ MarkReady(c) \/ CompleteReread(c)
-----------------------------------------------------------------------------
(***************************************************************************)
(* FailDeferredCredential.execute.                                         *)
(***************************************************************************)
NotFail == UNCHANGED <<lapsed, sessionStored, complete, poll, found, received>>
FailTo(f, pc) == fail' = [fail EXCEPT ![f] = pc]

FailFind(f) ==
    /\ fail[f] = "idle"
    /\ FailTo(f, IF transaction.stored THEN "mark" ELSE "not found")
    /\ UNCHANGED transaction
    /\ NotFail

MarkFailed(f) ==
    /\ fail[f] = "mark"
    /\ Mark([transaction EXCEPT !.status = "failed"])
    /\ FailTo(f, "reread")
    /\ NotFail

FailReread(f) ==
    /\ fail[f] = "reread"
    /\ FailTo(f, IF transaction.stored THEN "done" ELSE "error")
    /\ UNCHANGED transaction
    /\ NotFail

Fail(f) == FailFind(f) \/ MarkFailed(f) \/ FailReread(f)
-----------------------------------------------------------------------------
(***************************************************************************)
(* getDeferredCredential, with the access token of the session.            *)
(***************************************************************************)
NotPoll == UNCHANGED <<lapsed, sessionStored, complete, fail>>
PollTo(p, pc) == poll' = [poll EXCEPT ![p] = pc]

PollFind(p) ==
    /\ poll[p] = "idle"
    /\ found' = [found EXCEPT ![p] = transaction]
    /\ PollTo(p, IF transaction.stored THEN "resolve" ELSE "invalid_transaction_id")
    /\ UNCHANGED <<transaction, received>>
    /\ NotPoll

\* ResolveDeferredCredentialRetrieval.execute, when now is past expiresAt or not.
Resolve(row, now) ==
    CASE now -> "expire"
      [] ~now /\ row.status = "pending" -> "issuance_pending"
      [] ~now /\ row.status = "ready" /\ row.credential # NoCredential -> "retrieve"
      [] OTHER -> "invalid_transaction_id"

PollResolve(p) ==
    /\ poll[p] = "resolve"
    /\ PollTo(p, Resolve(found[p], lapsed))
    /\ UNCHANGED <<transaction, found, received>>
    /\ NotPoll

MarkExpired(p) ==
    /\ poll[p] = "expire"
    /\ Mark([transaction EXCEPT !.status = "expired"])
    /\ PollTo(p, "invalid_transaction_id")
    /\ UNCHANGED <<found, received>>
    /\ NotPoll

MutantRetrievable(row) == row.stored  \* an update by primary key

\* WHERE clause of markRetrieved.
Retrievable(row) == row.stored /\ row.status = "ready"

\* The winner is answered with the credential it loaded before.
MarkRetrieved(p) ==
    /\ poll[p] = "retrieve"
    /\ IF Retrievable(transaction)
       THEN /\ transaction' = [transaction EXCEPT !.status = "retrieved"]
            /\ received' = [received EXCEPT ![p] = found[p].credential]
            /\ PollTo(p, "credential")
       ELSE /\ PollTo(p, "invalid_transaction_id")
            /\ UNCHANGED <<transaction, received>>
    /\ UNCHANGED found
    /\ NotPoll

Poll(p) == PollFind(p) \/ PollResolve(p) \/ MarkExpired(p) \/ MarkRetrieved(p)
-----------------------------------------------------------------------------
(***************************************************************************)
(* The cleanup job, the clock and the deletion of the session.             *)
(***************************************************************************)
NotRequests == UNCHANGED <<complete, fail, poll, found, received>>

MutantDeletable(row, now) == now /\ row.status = "expired"  \* only those a poll marked
MutantFinished(row, now) == now \/ row.status # "pending"   \* and what is no longer awaited

\* WHERE clause of deleteExpired.
Deletable(row, now) == now

\* Selects and deletes in one statement; instances that run it at once are no
\* different from one that runs it often.
DeleteExpired ==
    /\ transaction' = IF Deletable(transaction, lapsed)
                      THEN [transaction EXCEPT !.stored = FALSE] ELSE transaction
    /\ UNCHANGED <<lapsed, sessionStored>>
    /\ NotRequests

PassExpiresAt ==
    /\ ~lapsed
    /\ lapsed' = TRUE
    /\ UNCHANGED <<transaction, sessionStored>>
    /\ NotRequests

LoseSession ==
    /\ sessionStored
    /\ sessionStored' = FALSE
    /\ UNCHANGED <<transaction, lapsed>>
    /\ NotRequests

DeferredNext ==
    \/ \E c \in Completes : Complete(c)
    \/ \E f \in Fails : Fail(f)
    \/ \E p \in Polls : Poll(p)
    \/ DeleteExpired \/ PassExpiresAt \/ LoseSession

DeferredSpec == DeferredInit /\ [][DeferredNext]_deferredVars

\* The hourly cron of the cleanup keeps firing, in one instance at least.
DeferredFairSpec == DeferredSpec /\ WF_deferredVars(DeleteExpired)
-----------------------------------------------------------------------------
(***************************************************************************)
(* Properties.                                                             *)
(***************************************************************************)
DeferredTypeOK ==
    /\ transaction \in Row
    /\ lapsed \in BOOLEAN
    /\ sessionStored \in BOOLEAN
    /\ complete \in [Completes -> CompletePC]
    /\ fail \in [Fails -> FailPC]
    /\ poll \in [Polls -> PollPC]
    /\ found \in [Polls -> Row]
    /\ received \in [Polls -> Completes \cup {NoCredential}]

Answered == {p \in Polls : poll[p] = "credential"}
Completed == {c \in Completes : complete[c] \in {"reread", "done", "error"}}

\* However polls, completions and failures interleave, polls receive no more
\* credentials than completions made ready, and only such credentials.
RetrievalsMatchCompletions ==
    /\ Cardinality(Answered) <= Cardinality(Completed)
    /\ \A p \in Answered : received[p] \in Completed

\* The wallet polls "and can retrieve a ready credential" (issuance.md): once a completion
\* has made the transaction ready, polls, other completions and the cleanup leave the
\* wallet a credential to retrieve until a poll was answered with one, unless the
\* backend failed the transaction or its time is over.  What they write they decided
\* on a row they loaded earlier.
ReadyUntilRetrieved ==
    Completed # {} /\ ~lapsed =>
        \/ Retrievable(transaction)
        \/ Answered # {}
        \/ \E f \in Fails : fail[f] \in {"reread", "done", "error"}

\* The wallet "can retrieve a ready credential once" (issuance.md): two completions
\* that overlap let it retrieve two.
RetrievedOnce == Cardinality(Answered) <= 1

\* "Expired transactions are deleted every hour" (deferred-issuance.md).
OverdueIsDeleted == lapsed ~> ~transaction.stored
=============================================================================
