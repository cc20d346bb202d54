--------------------------- MODULE ActiveIssuance ---------------------------
(***************************************************************************)
(* The active-credential limit: one subject and one credential             *)
(* configuration.  Each request for a credential allocates a status entry, *)
(* then points the slot of the subject at its issuance set, which is that  *)
(* of its access token, and revokes the entries of the set it displaced.   *)
(* Nothing spans these steps, and requests run concurrently.  A request    *)
(* that meets a concurrency error of the database starts again with        *)
(* another entry; any other error ends it without a credential.            *)
(***************************************************************************)
EXTENDS Naturals

CONSTANTS Issuances,    \* requests for a credential
          Sets,         \* issuance sets: access tokens
          Token,        \* the access token of each request
          MaxRetries,   \* updates of the slot tried in one attempt (3 in the code)
          MaxAttempts,  \* attempts of a request (3 in the code)
          NoSet         \* no row yet

ASSUME TokensGiven == Token \in [Issuances -> Sets] /\ NoSet \notin Sets
ASSUME BoundsGiven == {MaxRetries, MaxAttempts} \subseteq Nat \ {0}

VARIABLES
    slot,      \* the active set, NoSet before the first one
    version,   \* of the slot
    status,    \* of each status entry: "none" before its allocation
    at,        \* where each request is
    attempt,   \* which attempt it is in
    tries,     \* updates of the slot it has lost in this attempt
    slotSeen,  \* the slot it has read: <<set, version>>
    displaced, \* the set it has displaced
    todo,      \* the entries of it that are still to be revoked
    replaced,  \* history: sets that another set displaced
    spared     \* history: sets that were not revoked or did not get the slot

work == <<at, attempt, tries, slotSeen, displaced, todo>>
history == <<replaced, spared>>
slotVars == <<slot, version, status, work, history>>

Entries == Issuances \X (1..MaxAttempts)
Of(e) == Token[e[1]]

SlotInit ==
    /\ slot = NoSet /\ version = 1
    /\ status = [e \in Entries |-> "none"]
    /\ at = [q \in Issuances |-> "start"]
    /\ attempt = [q \in Issuances |-> 1]
    /\ tries = [q \in Issuances |-> 0]
    /\ slotSeen = [q \in Issuances |-> <<NoSet, 1>>]
    /\ displaced = [q \in Issuances |-> NoSet]
    /\ todo = [q \in Issuances |-> {}]
    /\ replaced = {} /\ spared = {}

Go(q, place) == at' = [at EXCEPT ![q] = place]

\* allocateEntries: a transaction of its own.
Allocate(q) ==
    /\ at[q] = "start"
    /\ status' = [status EXCEPT ![<<q, attempt[q]>>] = "valid"]
    /\ Go(q, "read")
    /\ UNCHANGED <<slot, version, attempt, tries, slotSeen, displaced, todo, history>>

MutantReadSlot(q) ==  \* a second credential of a token replaces the first
    /\ at[q] = "read"
    /\ slotSeen' = [slotSeen EXCEPT ![q] = <<slot, version>>]
    /\ Go(q, IF slot = NoSet THEN "insert" ELSE "update")
    /\ UNCHANGED <<slot, version, status, attempt, tries, displaced, todo, history>>

\* findOne: a credential of the set that holds the slot replaces nothing.
ReadSlot(q) ==
    /\ at[q] = "read"
    /\ slotSeen' = [slotSeen EXCEPT ![q] = <<slot, version>>]
    /\ Go(q, CASE slot = NoSet -> "insert" [] slot = Token[q] -> "issued" [] OTHER -> "update")
    /\ UNCHANGED <<slot, version, status, attempt, tries, displaced, todo, history>>

\* A lost race for the slot: the next try reads it again, after the last one the
\* request goes on without the slot.
LoseRace(q) ==
    /\ tries' = [tries EXCEPT ![q] = @ + 1]
    /\ Go(q, IF tries'[q] = MaxRetries THEN "issued" ELSE "read")
    /\ spared' = IF tries'[q] = MaxRetries THEN spared \cup {Token[q]} ELSE spared
    /\ UNCHANGED <<slot, version, displaced, replaced>>

\* The unique constraint admits one row for the subject.
InsertSlot(q) ==
    /\ at[q] = "insert"
    /\ \/ /\ slot = NoSet
          /\ slot' = Token[q]
          /\ Go(q, "issued")
          /\ UNCHANGED <<version, tries, displaced, history>>
       \/ slot # NoSet /\ LoseRace(q)
    /\ UNCHANGED <<status, attempt, slotSeen, todo>>

MutantUpdateSlot(q) ==  \* the version is not compared
    /\ at[q] = "update"
    /\ slot' = Token[q] /\ version' = version + 1
    /\ displaced' = [displaced EXCEPT ![q] = slotSeen[q][1]]
    /\ replaced' = replaced \cup {slotSeen[q][1]}
    /\ Go(q, "find")
    /\ UNCHANGED <<status, attempt, tries, slotSeen, todo, spared>>

\* The version is compared with the one that was read.
UpdateSlot(q) ==
    /\ at[q] = "update"
    /\ \/ /\ version = slotSeen[q][2]
          /\ slot' = Token[q] /\ version' = version + 1
          /\ displaced' = [displaced EXCEPT ![q] = slotSeen[q][1]]
          /\ replaced' = replaced \cup ({slotSeen[q][1]} \ {Token[q]})
          /\ Go(q, "find")
          /\ UNCHANGED <<tries, spared>>
       \/ version # slotSeen[q][2] /\ LoseRace(q)
    /\ UNCHANGED <<status, attempt, slotSeen, todo>>

\* The entries of the displaced set, of whatever request.
FindEntries(q) ==
    /\ at[q] = "find"
    /\ todo' = [todo EXCEPT ![q] =
          {e \in Entries : Of(e) = displaced[q] /\ status[e] # "none"}]
    /\ Go(q, "revoke")
    /\ UNCHANGED <<slot, version, status, attempt, tries, slotSeen, displaced, history>>

\* setEntries writes one entry after the other.
Revoke(q) ==
    /\ at[q] = "revoke"
    /\ \/ \E e \in todo[q] :
             /\ status' = [status EXCEPT ![e] = "revoked"]
             /\ todo' = [todo EXCEPT ![q] = @ \ {e}]
             /\ UNCHANGED at
       \/ todo[q] = {} /\ Go(q, "issued") /\ UNCHANGED <<status, todo>>
    /\ UNCHANGED <<slot, version, attempt, tries, slotSeen, displaced, history>>

\* retryOnConcurrency.
MayRetry(q) == attempt[q] < MaxAttempts

\* An error of the database between two steps; the slot, the entry and what was
\* revoked so far stay, and nobody revokes the rest.
FailIssuance(q) ==
    /\ at[q] \in {"read", "insert", "update", "find", "revoke"}
    /\ \/ Go(q, "failed") /\ UNCHANGED attempt
       \/ /\ MayRetry(q)
          /\ attempt' = [attempt EXCEPT ![q] = @ + 1]
          /\ Go(q, "start")
    /\ tries' = [tries EXCEPT ![q] = 0]
    /\ displaced' = [displaced EXCEPT ![q] = NoSet]
    /\ todo' = [todo EXCEPT ![q] = {}]
    /\ spared' = IF at[q] \in {"find", "revoke"} THEN spared \cup {displaced[q]} ELSE spared
    /\ UNCHANGED <<slot, version, status, slotSeen, replaced>>

SlotNext ==
    \E q \in Issuances :
       \/ Allocate(q) \/ ReadSlot(q) \/ InsertSlot(q) \/ UpdateSlot(q)
       \/ FindEntries(q) \/ Revoke(q) \/ FailIssuance(q)

SlotSpec == SlotInit /\ [][SlotNext]_slotVars
-----------------------------------------------------------------------------
(***************************************************************************)
(* Properties.                                                             *)
(***************************************************************************)
SlotTypeOK ==
    /\ slot \in Sets \cup {NoSet}
    /\ version \in Nat
    /\ status \in [Entries -> {"none", "valid", "revoked"}]
    /\ at \in [Issuances -> {"start", "read", "insert", "update", "find", "revoke",
                            "issued", "failed"}]
    /\ attempt \in [Issuances -> 1..MaxAttempts]
    /\ tries \in [Issuances -> 0..MaxRetries]
    /\ slotSeen \in [Issuances -> (Sets \cup {NoSet}) \X Nat]
    /\ displaced \in [Issuances -> Sets \cup {NoSet}]
    /\ todo \in [Issuances -> SUBSET Entries]
    /\ replaced \subseteq Sets
    /\ spared \subseteq Sets

\* The entry in the credential of a request that was answered.
Credential(q) == <<q, attempt[q]>>
Pending(q, e) ==
    \/ at[q] = "find" /\ displaced[q] = Of(e)
    \/ at[q] = "revoke" /\ e \in todo[q]

\* "A subject keeps only one active set of credentials per credential
\* configuration": whatever the order of concurrent requests, a valid credential is
\* of the set that holds the slot, or a request is about to revoke it; but for the
\* sets whose revocation failed and those that lost every race for the slot.
OneActiveSet ==
    \A q \in Issuances :
        at[q] = "issued" /\ status[Credential(q)] = "valid" =>
            \/ Token[q] \in {slot} \cup spared
            \/ \E p \in Issuances : Pending(p, Credential(q))

\* "They are one issuance set, not replacements for one another": entries are only
\* revoked when a request with another access token has displaced their set, never
\* by more requests with the same token.
RevokedWereReplaced ==
    \A e \in Entries : status[e] = "revoked" => Of(e) \in replaced

\* replaceActiveIssuance: "Whichever issuance commits last owns the slot, and the
\* set it displaced is revoked -- so the subject converges on a single active set
\* either way": when all requests are answered and none met an error, the set that
\* holds the slot has a valid credential.
ConvergesOnActiveSet ==
    (\A q \in Issuances : at[q] = "issued") /\ spared = {} =>
        \E q \in Issuances : Token[q] = slot /\ status[Credential(q)] = "valid"
=============================================================================
