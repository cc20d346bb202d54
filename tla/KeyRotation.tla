---------------------------- MODULE KeyRotation ----------------------------
(***************************************************************************)
(* One key chain: the daily job of every instance and the API rotate it,   *)
(* an import regenerates it, the API deletes it, the registrar certifies   *)
(* its key, and documents are signed with it, each in several steps over   *)
(* one row without a lock.  Key material lies in an external KMS.  A key   *)
(* is a number; generation gives the next one.  A certificate is the key   *)
(* it certifies and the key that signed it.  Time is abstract: a chain     *)
(* becomes due in a step of its own, and all that happens happens within   *)
(* the 30 days of one grace period.                                        *)
(***************************************************************************)
EXTENDS Naturals

CONSTANTS Instances,     \* of the backend, each with the daily job
          Calls,         \* POST .../rotate
          Regenerations, \* documents of an import that ask for a new key
          Deletions,     \* DELETE of the chain
          Enrolments,    \* access certificates asked of the registrar
          Signers,       \* documents signed with x5c
          MaxDue,        \* bound: how often the chain becomes due
          MaxFailures,   \* bound: errors and crashes of the daily job
          InternalCA,    \* whether chains have a root key that signs their certificates
          NoKey, Registrar

Rotators == Instances \cup Calls
Handlers == Rotators \cup Regenerations \cup Deletions \cup Enrolments \cup Signers

ASSUME BoundsAreNaturals == {MaxDue, MaxFailures} \subseteq Nat
ASSUME KindGiven == InternalCA \in BOOLEAN
ASSUME NamesDiffer ==
    /\ Instances \cap Calls = {} /\ Enrolments \cap Signers = {}
    /\ Regenerations \cap (Rotators \cup Deletions \cup Enrolments \cup Signers) = {}
    /\ Deletions \cap (Rotators \cup Enrolments \cup Signers) = {}
    /\ Rotators \cap (Enrolments \cup Signers) = {}
    /\ {NoKey, Registrar} \cap Nat = {}

VARIABLES
    chain,     \* the row
    keys,      \* keys generated so far
    destroyed, \* keys whose material the KMS has deleted
    orphaned,  \* keys an interrupted deletion destroyed
    at,        \* where each handler is
    held,      \* what it uses of the row it has loaded, or generated
    old,       \* the key a regeneration replaces
    dues, failures

vars == <<chain, keys, destroyed, orphaned, at, held, old, dues, failures>>

NoCert == [key |-> NoKey, by |-> NoKey]
NoChain == [present |-> FALSE, active |-> NoKey, cert |-> NoCert, root |-> NoKey,
            previous |-> NoKey, enabled |-> FALSE, due |-> FALSE]

\* CA-signed under a root key, self-signed without one.
Certificate(k, root) == [key |-> k, by |-> IF root = NoKey THEN k ELSE root]

RootKey(k) == IF InternalCA THEN k ELSE NoKey

\* createWithId: a chain with a root, or a standalone key.  A policy that comes
\* with it is UpdatePolicy right after.
NewChain(k, root) ==
    [NoChain EXCEPT !.present = TRUE, !.active = k, !.root = root,
                    !.cert = Certificate(k, root)]

Init ==
    /\ chain = NewChain(2, RootKey(1))
    /\ keys = 2
    /\ destroyed = {} /\ orphaned = {}
    /\ at = [h \in Handlers |-> "idle"]
    /\ held = [h \in Handlers |-> NoChain]
    /\ old = [r \in Regenerations |-> NoKey]
    /\ dues = 0 /\ failures = 0

Goes(h, place) == at' = [at EXCEPT ![h] = place]
Keeps(h, row) == held' = [held EXCEPT ![h] = row]

\* A handler ends.  Rotations on request, regenerations and deletions are
\* bounded to one each, the others start again.
Ends(h) ==
    /\ Goes(h, IF h \in Calls \cup Regenerations \cup Deletions THEN "done" ELSE "idle")
    /\ Keeps(h, NoChain)

\* The KMS deletes the keys D, and no handler goes on with the deletion of O.
\* Keys that nothing names any more are forgotten.
Named == ({chain.active} \cup {held[h].active : h \in Handlers}
              \cup {old[r] : r \in Regenerations}) \ {NoKey}
Material(D, O) ==
    /\ destroyed' = (destroyed \cup D) \cap Named'
    /\ orphaned' = (orphaned \cup O) \cap destroyed'

Signable == chain.present /\ chain.active \notin destroyed

-----------------------------------------------------------------------------
\* Rotation.

\* findKeyChainNeedingRotation
MutantListed(c) == c.enabled /\ c.due /\ c.previous # NoKey
Listed(c) == c.enabled /\ c.due

\* checkForRotation: the due chains as they were at midnight.
JobList(i) ==
    /\ at[i] = "idle" /\ chain.present /\ Listed(chain)
    /\ Goes(i, "listed")
    /\ UNCHANGED <<chain, keys, destroyed, orphaned, held, old, dues, failures>>

\* rotate loads the row, which may be gone.
RotateRead(p) ==
    /\ at[p] = (IF p \in Instances THEN "listed" ELSE "idle")
    /\ \/ /\ chain.present /\ Goes(p, "read")
          /\ Keeps(p, [NoChain EXCEPT !.active = chain.active, !.root = chain.root])
       \/ ~chain.present /\ Ends(p)
    /\ UNCHANGED <<chain, keys, destroyed, orphaned, old, dues, failures>>

\* The columns rotate writes, computed from the row it has loaded.
MutantRotated(c, loaded, k) ==
    [c EXCEPT !.active = k, !.previous = loaded.active, !.due = FALSE]
Rotated(c, loaded, k) ==
    [c EXCEPT !.active = k, !.cert = Certificate(k, loaded.root),
              !.previous = loaded.active, !.due = FALSE]

\* rotate generates a key and updates the row, if it is still there.
RotateWrite(p) ==
    /\ at[p] = "read"
    /\ keys' = keys + 1
    /\ chain' = IF chain.present THEN Rotated(chain, held[p], keys + 1) ELSE chain
    /\ Ends(p)
    /\ UNCHANGED <<old, dues, failures>>
    /\ Material({}, {})

-----------------------------------------------------------------------------
\* Regeneration.

Forgets(r) == old' = [old EXCEPT ![r] = NoKey]

\* regenerate loads the row it will replace and stores a new chain under a
\* temporary id.
RegenerateStart(r) ==
    /\ at[r] = "idle"
    /\ old' = [old EXCEPT ![r] = chain.active]
    /\ Keeps(r, NewChain(keys + 2, RootKey(keys + 1)))
    /\ keys' = keys + 2
    /\ Goes(r, "generated")
    /\ UNCHANGED <<chain, destroyed, orphaned, dues, failures>>

\* The whole row is saved under the id, over what is there or anew.
RegenerateSave(r) ==
    /\ at[r] = "generated"
    /\ chain' = held[r]
    /\ Goes(r, "saved")
    /\ Keeps(r, [NoChain EXCEPT !.active = held[r].active])
    /\ UNCHANGED <<keys, old, dues, failures>>
    /\ Material({}, {})

RegenerateDropTemporary(r) ==
    /\ at[r] = "saved"
    /\ Goes(r, "dropped")
    /\ UNCHANGED <<chain, keys, destroyed, orphaned, held, old, dues, failures>>

\* The removal of the temporary row fails: it is tried again, now with the
\* material, which is that of the saved chain.  When the save fails instead, the
\* same deletion takes a key that nothing names (Fail).
RegenerateUndo(r) ==
    /\ at[r] = "saved"
    /\ Ends(r)
    /\ Forgets(r)
    /\ UNCHANGED <<chain, keys, dues, failures>>
    /\ Material({held[r].active}, {held[r].active})

\* The key whose material is no longer needed.
MutantReplaced(r) == chain.active
Replaced(r) == old[r]

\* deleteExternalKeyMaterial is best effort.
RegenerateClean(r) ==
    /\ at[r] = "dropped"
    /\ Ends(r)
    /\ Forgets(r)
    /\ UNCHANGED <<chain, keys, dues, failures>>
    /\ Material({}, {}) \/ Material({Replaced(r)}, {})

-----------------------------------------------------------------------------
\* Deletion.

DeleteRead(d) ==
    /\ at[d] = "idle"
    /\ \/ chain.present /\ Goes(d, "read") /\ Keeps(d, [NoChain EXCEPT !.active = chain.active])
       \/ ~chain.present /\ Ends(d)
    /\ UNCHANGED <<chain, keys, destroyed, orphaned, old, dues, failures>>

DeleteMaterial(d) ==
    /\ at[d] = "read"
    /\ Goes(d, "deleting")
    /\ UNCHANGED <<chain, keys, held, old, dues, failures>>
    /\ Material({}, {}) \/ Material({held[d].active}, {})

DeleteRow(d) ==
    /\ at[d] = "deleting"
    /\ chain' = NoChain
    /\ Ends(d)
    /\ UNCHANGED <<keys, old, dues, failures>>
    /\ Material({}, {})

-----------------------------------------------------------------------------
\* The registrar's certificate.

\* createCertificateSigningRequest signs with the active key.
EnrolRequest(e) ==
    /\ at[e] = "idle" /\ Signable
    /\ Goes(e, "requested")
    /\ Keeps(e, [NoChain EXCEPT !.active = chain.active])
    /\ UNCHANGED <<chain, keys, destroyed, orphaned, old, dues, failures>>

\* addCertificate stores the answer on the chain as it is now.
EnrolStore(e) ==
    /\ at[e] = "requested"
    /\ chain' = IF chain.present
                THEN [chain EXCEPT !.cert = [key |-> held[e].active, by |-> Registrar]]
                ELSE chain
    /\ Ends(e)
    /\ UNCHANGED <<keys, old, dues, failures>>
    /\ Material({}, {})

-----------------------------------------------------------------------------
\* Signatures with x5c: certService.find loads the row, signJWT or signer
\* loads it again.

SignRead(s) ==
    /\ at[s] = "idle" /\ chain.present
    /\ Goes(s, "read")
    /\ Keeps(s, [NoChain EXCEPT !.active = chain.active, !.cert = chain.cert])
    /\ UNCHANGED <<chain, keys, destroyed, orphaned, old, dues, failures>>

\* The signer can sign now, to send the certificate it loaded before.
Signs(s) == at[s] = "read" /\ Signable

Sign(s) ==
    /\ Signs(s)
    /\ Ends(s)
    /\ UNCHANGED <<chain, keys, old, dues, failures>>
    /\ Material({}, {})

-----------------------------------------------------------------------------
\* PUT .../key-chain/{id} with a policy.
UpdatePolicy ==
    /\ chain.present
    /\ chain' = [chain EXCEPT !.enabled = ~chain.enabled]
    /\ UNCHANGED <<keys, destroyed, orphaned, at, held, old, dues, failures>>

\* The interval has passed since the creation or the last rotation.
BecomeDue ==
    /\ chain.present /\ ~chain.due /\ dues < MaxDue
    /\ chain' = [chain EXCEPT !.due = TRUE]
    /\ dues' = dues + 1
    /\ UNCHANGED <<keys, destroyed, orphaned, at, held, old, failures>>

\* An error or a crash ends a handler where it is.
Fail(h) ==
    /\ at[h] \notin {"idle", "done"}
    /\ failures' = IF h \in Instances THEN failures + 1 ELSE failures
    /\ failures' <= MaxFailures
    /\ Ends(h)
    /\ old' = [r \in Regenerations |-> IF r = h THEN NoKey ELSE old[r]]
    /\ UNCHANGED <<chain, keys, dues>>
    /\ Material({}, IF at[h] = "deleting" THEN {held[h].active} ELSE {})

JobStep(i) == JobList(i) \/ RotateRead(i) \/ RotateWrite(i)

Next ==
    \/ \E i \in Instances : JobList(i)
    \/ \E p \in Rotators : RotateRead(p) \/ RotateWrite(p)
    \/ \E r \in Regenerations :
          \/ RegenerateStart(r) \/ RegenerateSave(r) \/ RegenerateDropTemporary(r)
          \/ RegenerateUndo(r) \/ RegenerateClean(r)
    \/ \E d \in Deletions : DeleteRead(d) \/ DeleteMaterial(d) \/ DeleteRow(d)
    \/ \E e \in Enrolments : EnrolRequest(e) \/ EnrolStore(e)
    \/ \E s \in Signers : SignRead(s) \/ Sign(s)
    \/ UpdatePolicy \/ BecomeDue
    \/ \E h \in Handlers : Fail(h)

Spec == Init /\ [][Next]_vars

\* The scheduler of every instance runs the job each day.
FairSpec == Spec /\ \A i \in Instances : WF_vars(JobStep(i))

-----------------------------------------------------------------------------
(***************************************************************************)
(* What is signed verifies under the certificate sent with it, however     *)
(* rotations, regenerations and deletions interleave, unless the key was   *)
(* replaced between the two loads of the signer, or the certificate is the *)
(* registrar's (rotate, regenerate, CertService.find, signJWT).            *)
(***************************************************************************)
SignaturesVerify ==
    \A s \in Signers : Signs(s) =>
        \/ held[s].cert.key = chain.active
        \/ held[s].active # chain.active
        \/ held[s].cert.by = Registrar

(***************************************************************************)
(* The material of the active key exists: the clean-up of a regeneration   *)
(* and a deletion that overlap others destroy only keys nobody signs with, *)
(* except while a deletion goes on and after one that was interrupted      *)
(* (regenerate, delete, deleteExternalKeyMaterial).                        *)
(***************************************************************************)
ActiveKeyExists ==
    chain.active \in destroyed =>
        \/ chain.active \in orphaned
        \/ \E d \in Deletions : at[d] = "deleting" /\ held[d].active = chain.active

(***************************************************************************)
(* A chain that is due is rotated, unless the policy is switched off or    *)
(* the chain deleted meanwhile, although jobs fail, crash and are          *)
(* overtaken by other instances (checkForRotation).                        *)
(***************************************************************************)
DueIsRotated ==
    (chain.present /\ chain.enabled /\ chain.due)
        ~> ~(chain.present /\ chain.enabled /\ chain.due)

(***************************************************************************)
(* A rotation keeps the previous key of the chain while its grace period   *)
(* lasts (security-model.md: "The previous key and certificate stay        *)
(* available for a fixed grace period of 30 days").                        *)
(***************************************************************************)
PreviousKept ==
    [][chain.previous # NoKey /\ chain'.previous # NoKey
          => chain'.previous = chain.previous]_chain

\* The JWKS of the authorization server: getJwks, resolveLocalJwks.
Published == IF chain.present THEN {chain.active} ELSE {}

(***************************************************************************)
(* The previous key is in the JWKS while its grace period lasts, so that   *)
(* what it signed can be validated (key-chain.entity.ts: "Returns all      *)
(* public keys (current and previous) for JWKS").                          *)
(***************************************************************************)
PreviousPublished == chain.previous # NoKey => chain.previous \in Published

\* The certificate of the active key is for that key: violated by an enrolment
\* that a rotation overtakes.
CertifiesActive == chain.cert.key = chain.active

\* The certificate was signed by the stored root, or by its own key: violated by
\* a rotation that a regeneration overtakes.
UnderStoredRoot ==
    chain.present => chain.cert.by \in {Registrar, IF chain.root = NoKey THEN chain.active
                                                    ELSE chain.root}

\* What was signed verifies under the certificate sent with it: violated by a
\* rotation between the two loads of a signer.
EverySignatureVerifies ==
    \A s \in Signers : Signs(s) => held[s].cert.key = chain.active
=============================================================================
