# EUDIPLO in TLA+

TLA+ models of the protocol core of the EUDIPLO backend (`src/apps/backend/src`), TLC
configurations that check them on small instances, and TLAPS proofs for every size. The
models are about what tests of a Node.js service hardly reach: handlers that interleave at
every `await`, several backend instances on one database, timers that race with requests,
rows that change between the read and the write of a handler.

All paths below are relative to `src/apps/backend/src` unless they start with `docs/`
(`src/apps/docs/docs`).

## Inventory

| Component | State | Operations | Hard behaviour | What makes it correct |
| --- | --- | --- | --- | --- |
| Session store and lifecycle (`session/`) | one row per session: status, consumed, key, nonce, offer, codes, notifications | conditional updates (`updateUnconsumedForTenant`, `changeStateFrom`, `consume…`), unconditional ones (`updateForTenant`), cancel, expire, retain, delete | every other component reads the row, awaits, and writes it; every instance runs the maintenance | one winner of a race, terminal statuses final, redeemed sessions neither cancelled nor expired, overdue ones end |
| OID4VP presentation (`verifier/oid4vp/`) | request object, response key, nonce in the session row; webhook call | fetch of the request, response, wallet error, result to the webhook | concurrent responses, responses against cancellation and expiry, lazy generation of the request by concurrent fetches, crash between update and webhook | one result, reported once and truly; a stored request stays answerable; the key of an offer that was given out goes when the session ends |
| Credential offers and built-in authorization server (`issuer/issuance/oid4vci/application`, `…/authorization/application`) | offer, request_uri, code, tx_code failures, consumed, refresh token in the session row | offer retrieval, PAR, authorize, token exchange, tx_code failure | single-use values checked on a loaded row and consumed later; exchange against cancellation and expiry | each value used once; tokens exclude withdrawal |
| Credential, nonce and notification endpoints (`oid4vci.service.ts`, `nonce.service.ts`, …) | nonce table, notifications column, session status | issue nonce, credential request with a batch of proofs, defer, notification, cleanup | concurrent batches over shared nonces, nonce expiry and cleanup during a batch, whole-column writes of stale notifications, late requests against terminal statuses | nonces single use and time limited; terminal sessions not reopened; redeemed sessions serve their wallet |
| Deferred issuance (`deferred-credential.service.ts`, …) | transaction row: status, credential, expiresAt | complete, fail, poll, expire, cleanup | repeated and overlapping completions, failure during signing, polls racing for one credential | no credential without a completion, what is completed stays retrievable until its time is over, overdue transactions deleted |
| Status lists and revocation (`issuer/status-list/`) | lists: elements, free indexes, version, cached token; mappings; active-issuance slots | allocate, revoke/suspend, publish, delete, change key, replace active set | optimistic locking with bounded, nested retries; signing between read and write; three lost races give up | unique entries, final revocation, tokens that never go back, one active set per subject |
| Chained authorization server, OID4VP authorization servers (`…/authorization/chained-as`, `…/authorization-servers`) | one table of authorizations: status, upstream state, login, code, refresh token, expiry | PAR, authorize, upstream callback, token (both grants), identity lookup, cleanup | find-then-save of whole entities, concurrent exchanges and refreshes, cleanup of rows in use | refreshing never extends, a token names its own login, rows outlive their tokens |
| Interactive authorization (`…/authorization/authorize`) | auth session: step, status, code; the session of the verifier with the same id; code and credentials in the issuance session | initial and follow-up requests, page completed by the backend, code | follow-ups that advance with a stale copy, unconditional updates, calls repeated by the backend, several auth sessions of one offer | no step skipped, one redemption, presented credentials there before tokens |
| ISO 18013-7 (`verifier/iso18013/`) | the presentation session | offer, response | the same race as OID4VP | the same contract |
| Verification of presentations (`verifier/presentations/`) | none of its own | signature, DCQL, claims, status checks | – | the policy itself |
| Trust lists, federation, wallet attestation (`trust/`), issuer trust lists | caches, published documents | fetch, verify, publish | stale caches | no use past expiry |
| Keys and rotation (`crypto/key/`) | key chains: active and previous key, certificate, root; material in a KMS | rotate (daily job, API), regenerate, delete, certify, sign, publish | one row changed by all of them without a lock, key and certificate loaded apart, clean-ups of keys others still use, failed removals | signatures fit their certificates, the active key exists, due chains are rotated |
| Webhooks and outbound policy (`webhook/`) | none | one HTTP attempt per result | – | one truthful delivery |
| Configuration bundles and import (`platform/config-portability/`) | journal of operations with a lock per tenant, reports, resources with their ownership and generation | startup import, reviewed bundle, edit, detach, reattach, recovery | replicas that stop between an effect and its checkpoint, locks released from live operations, plans that are reviewed and applied later, failed tasks | the report accounts for every effect, what is applied was reviewed, detached resources are left alone |
| Registrar client, tenants and clients, credential formats, storage, audit log, web client, CLI, SDK | CRUD rows, files, caches | CRUD, I/O, formatting | – | – |

How they interact: protocol handlers and the maintenance job share the **session row** and
meet only through SQL statements on it; results leave through the event stream and the
webhook; the credential endpoint uses the nonce, deferred-transaction and status-list tables
next to the session row; the authorization servers decide whether a session is `consumed`,
which cancellation and expiry look at. Interactive authorization runs a presentation session
of the verifier and writes its result and its code into the issuance session; the OID4VP
authorization servers do the same through their own table. Configuration operations of all
replicas meet in the journal.

## Modules

An **action** is what a handler does up to and including its next database statement or
external call, so every interleaving of handlers at an `await` is a behaviour. A handler
works on the row it loaded; only what the code puts into a `WHERE` clause looks at the row
as it is. Values generated at random are named by the handler that generated them.
Verification, signing and decryption are nondeterministic outcomes.

| Module | Models | Correspondence |
| --- | --- | --- |
| `SessionStore` | the conditional updates of `typeorm-session.repository.ts`, `session-state.ts`, `session-usability.ts` | one operator per `WHERE` clause (`Unconsumed`, `InStatus`, `ExpirableOffer`), extended by the flow modules |
| `SessionContract` | abstract specification: what a session promises the tenant | status and redeemer; fetch, redeem, finish, withdraw, delete |
| `PresentationFlow` | one presentation session from the row on: OID4VP with its request signed with the offer (`prepared`) or when it is fetched (`lazy`), or ISO 18013-7 | `offering` is the program counter of the handler that creates the offer; `fetching`, `responding`, `cancelling`, `job` are the program counters of the handlers; `session` is the row; `announced` the event stream, `webhook` the calls to the tenant |
| `OfferFlow` | one credential offer with the built-in authorization server, both grants | `retrieving`, `pushing`, `authorizing`, `exchanging`, `cancelling`, `job` |
| `CredentialEndpoint` | credential, nonce and notification endpoints of one session whose wallet holds a token | `request` with the batch loop over nonces (`proofs`, `took`, `late`), `notice`, and the columns each had loaded |
| `DeferredIssuance` | one deferred transaction | `complete`, `fail`, `poll`, the row each poll loaded |
| `StatusList` | the status lists of a tenant and the entries of one session | `list` is the table, `mapping` the status mappings; `at` and `on` place each handler, `latest` stands for the version column, `tries` and `signs` count the nested retries |
| `ActiveIssuance` | the active issuance set of one subject and configuration | `slot` and `version` are the row of the slot, `status` the status entries, `attempt` and `tries` the nested retries; `replaced`, `spared` are history |
| `AuthorizationServers` | the table of the chained and the OID4VP servers, for authorizations of one offer | `rows` is the table, `held` the entity a handler loaded and will save, `claims` the presentation on the issuance session |
| `InteractiveAuthorization` | auth sessions of one offer | `auth` is the row, `verifier` the session of the verifier, `offer` the issuance session, `following` and `completing` the requests of wallet and backend; `done` is history |
| `ConfigImport` | the configuration operations of one tenant | `status` and `report` are the journal, `ops` the tasks in the memory of a replica, `resource` and `meta` the configuration; `ReplaceKey` stands for what changes key chains without the journal; `touched`, `mistaken` are history |
| `KeyRotation` | one key chain | `chain` is the row, `destroyed` the keys the KMS has deleted, `held` what a handler uses of the row it loaded, `old` the key a regeneration replaces; `orphaned` is history |
| `MC…` | instances for TLC | symmetry sets, plans and documents only |
| `PresentationFlowProofs`, `OfferFlowProofs`, `CredentialEndpointProofs`, `StatusListProofs`, `AuthorizationServersProofs`, `InteractiveAuthorizationProofs`, `ConfigImportProofs`, `KeyRotationProofs` | theorems and proofs about the module each is named for; `CredentialEndpointProofs` also about `DeferredIssuance` and `ActiveIssuance`, whose names are chosen not to meet those of `CredentialEndpoint` | – |

`PresentationFlow` and `OfferFlow` both instantiate `SessionContract` with a refinement
mapping: the contract's status is the row's status or `deleted`, its redeemer is the response
whose code is in the row, respectively the exchange whose refresh token is.

### Abstractions worth knowing

- **Time** enters as facts that become true and stay true (`overdue`, `aged`, a nonce is
  `expired`). All instances are taken to agree on it. The 60 second lifetimes of request_uri
  and authorization code only refuse, so a handler may always find them over.
- **Keys** of a presentation: only the encrypted response modes. Sessions of the
  `redirect_uri` scheme and requests by value are left out.
- **Wallets** send any request they were given the values for, any number of times; replies to
  requests never answered are not assumed. Tokens are not modelled, only who was granted one.
  A presentation is reached by a wallet only once its offer was returned, as the addresses in
  it are random; operators and the maintenance reach the row from its creation on. A request
  is pushed (`PushLoad`) for offers of the authorization code only, as only those carry the
  `issuer_state` (`build-credential-offer-grants.ts`); the handler does not look at the flow.
- **Multiple consumption** of offers (`ISSUER_MULTI_CONSUMPTION`), wallet-initiated PAR without
  an offer and by-value offers are left out of `OfferFlow`; the refresh grant writes nothing.
- **Status lists**: index shuffling is a renaming; lists dedicated to a credential
  configuration, bits per entry and the import at startup are left out; version numbers are
  abstracted to the set of handlers that hold the latest version. The list is not loaded again
  after a token was stored (`status-list.service.ts:423`), where the request ends if it was
  deleted in between; here the request ends when it next uses that list. On SQLite the backend
  serialises its transactions, which only removes behaviours.
- **ISO 18013-7**: building of the request, HPKE and the check of the mdoc are outcomes. The
  encryption info is built again with the tenant's key of the moment, so replacing that key
  between offer and answer is one way to fail.
- **Active issuance**: one subject and one configuration, all requests of which have the limit.
- **Authorization servers**: refresh tokens are enabled; PKCE, DPoP, wallet attestation and
  redirect checks refuse without an effect; a token request goes to the server that issued the
  code; a `save` is one statement; rows from before the expiry column existed and the deletion
  of the issuance session are left out. A presentation is named by its row, a login by its
  callback.
- **Interactive authorization**: auth sessions that name an offer (a code without one cannot be
  redeemed). The life of the session of the verifier is `PresentationFlow`; here it is
  completed or failed once, and its retention is left out. Malformed requests, wrong verifiers
  and interactions the wallet does not support are refused without an effect.
- **Configuration**: a task is one step that may fail with or without its effect; the lock is
  the status `running` of a journal row; planning is one step; references between resources
  are a plan that may be refused; assets and the special importers of tenants and KMS settings
  are left out, also what a replica that starts writes of the tenant and of the ownership of
  the KMS settings without the journal (`auth/tenant/tenant.service.ts:113`,
  `config-ownership-bootstrap.service.ts`); a refused operation leaves nothing. Not every
  request is an operation: rotations (daily or on request) and enrolments of a key chain pass
  the interceptor or never meet it, and change key and certificate, which plans compare and the
  fingerprint covers (`ReplaceKey`; all replacements of a key have the same text, `Rotated`).
  Creations that leave the id to the backend (a key chain, its import, a trust list, a status
  list) pass it too; no document names what they create, so they only make plans stale, as a
  plan may be refused at any time.
- **Key chains**: key material lies in a KMS that deletes on demand; keys are numbers, a
  certificate is the key it certifies and the one that signed it; keys that nothing names any
  more are forgotten, because none comes back. All behaviours are within the 30 days of one
  grace period. A chain becomes due in one step. A row left behind under a temporary id, the
  import of given keys, certificate expiry and CRLs are left out.

## Runs

Twelve configurations; "states" are distinct states.

| Run | Question | Bounds | States |
| --- | --- | --- | --- |
| `Presentation` | Does exactly one handler end a session, is its end published once and reported truly, is a signed request answerable, does a key outlive its session only where nobody was given the offer, is the contract kept, do overdue sessions end? | the creation of the offer, 2 fetches, 2 responses, 1 cancellation, 1 timer; each kind of session, full and anonymising retention | 1,735,290 |
| `Offer` | Is every value of both flows used once; do tokens and withdrawal exclude each other; is the contract kept; do overdue offers end? | 2 retrievals, 2 pushes, 2 authorizations, 2 exchanges, 1 cancellation, 1 timer, 1 attempt at the transaction code | 1,156,128 |
| `CredentialEndpoint` | Are nonces single use and time limited over batches; do redeemed sessions serve their wallet; are ended sessions left ended? | 2 requests, 2 nonces, batches of 2, 1 notification, 1 timer, each authorization server | 214,986 |
| `DeferredIssuance` | No credential without a completion; does a completed one stay for the wallet until its time is over; is an overdue transaction deleted? | 2 completions, 1 failure, 2 polls | 527,148 |
| `StatusList` | Unique entries, final revocations, tokens that never go back? | 2 allocations, 2 updates (revoke, suspend), 1 call (read, delete or key change), 2 lists of 2 entries, 2 attempts per write, immediate updates | 2,424,565 |
| `ActiveIssuance` | Is a valid credential of the active set, or about to be revoked; are only displaced sets revoked? | 3 requests with 3 tokens, 2 attempts each, 2 races each | 64,424 |
| `AuthorizationServers` | Does a refresh ever extend an authorization, does a token name another login, does the cleanup delete rows in use? | 2 pushes, 2 authorizations, 2 callbacks, 2 exchanges, 1 credential request; lifetimes of 0 or 1 tick, rows written until 2, clock until 4 | 909,757 |
| `InteractiveAuthorization` | Can a wallet get a code without a step of its plan, tokens twice, or tokens without credentials that were presented for the offer? | auth sessions with a page and a presentation, and with a presentation; 2 follow-ups and 1 backend call at once, 2 exchanges | 3,747,372 |
| `ConfigImport` | Does the report account for every effect, is a reviewed plan applied to what was reviewed but for replaced keys, are completed imports applied and detached resources kept? | 2 operations of any kind, 2 resources: one that cannot be deleted twice, missing or imported at first, and a key chain, in any state at first; 2 versions of a document, modes `upsert` and `replace` | 4,595,211 |
| `KeyRotation` | Do signatures fit their certificates, do clean-ups spare the active key, are due chains rotated? | 1 instance with 1 failure, 1 rotation on request, 1 regeneration, 1 deletion, any number of enrolments and signatures, due once | 1,578,130 |
| `LoginOfAnother`, `PresentedOnce` | each: does the code keep one sentence of its documentation or comments? It does not (next section) | smallest instance that shows it | – |

Two handlers of a kind are enough for the races: every conflict in the code is between one
handler and whatever changed the row since it loaded it, and every property names at most two
handlers. The proofs remove the bounds for most safety properties. Two proofs and two nonces
are the smallest batch whose loop can be overtaken in the middle. `MaxRetries = 2` (3 in the
code) already reaches success after a conflict and exhaustion. Three tokens are needed for a
set that is displaced while it displaces another; that a request starts again gives its set a
second entry. With lifetimes of one tick, a refresh token
outlives its access token and its code, and a row can expire while either is in use.

Symmetry is used only where no liveness property is checked. `CHECK_DEADLOCK FALSE` is in
`StatusList`, `ActiveIssuance`, `ConfigImport`, `InteractiveAuthorization`, `PresentedOnce`,
`KeyRotation` (requests that end, no timer runs), `AuthorizationServers` and `LoginOfAnother` (the clock
stops at its bound).

**Fairness.** `FairSpec` adds weak fairness of the maintenance timer or the daily rotation job
(`JobStep`), or of the cleanup (`DeleteExpired`), and of nothing else: an interval or cron of the running backend
keeps firing, while wallets, operators and failing handlers may stop at any point. The
liveness properties hold from that alone.

## Divergences the models show

Checked by a run that TLC must refute (listed as findings in `PROJECT.json`):

1. `LoginOfAnother`: when two pushed requests named one offer, the credential request of one
   login gets the identity of the other.
2. `PresentedOnce`: in a plan with two presentations the second one is never verified. Both
   steps share the session of the verifier, which stays `completed` after the first; its
   request can no longer be fetched either, and any well-formed answer passes the step.

More of them are stated as definitions of the modules. Put the definition as the only
INVARIANT or PROPERTY into a copy of the named configuration, and TLC shows the behaviour:

| Configuration | Definition | What happens |
| --- | --- | --- |
| `Presentation`, with `Kinds = {"prepared"}` | `KeyDeletedWhenFinished` | the session of an offer is stored before its request is generated; a cancellation or the expiry ends it, and the key is written into the row that has ended, without a condition (`oid4vp.service.ts:334`; `docs/concepts/presentation.md:66`: "the private key is stored encrypted in the session and deleted when the session ends") |
| `ConfigImport`, with `Runs = {w1}` and no symmetry | `ChangedTargetFails` | a rotation between the comparison with the reviewed plan and the first write of the import: rotations do not take the lock, and nobody compares again (`config-generation.interceptor.ts:42`; `docs/operate/configuration-as-code.md:166`: "if the bundle, the mode or the target configuration changed in between, it fails with `CONFIG_PLAN_STALE` before writing anything") |
| `InteractiveAuthorization`, with one follow-up and one exchange | `OwnCredentials` | a second auth session of the offer presents after the first one got its code: that code is granted with the credentials of the second (`interactive-authorization.service.ts:757`; `docs/concepts/issuance.md:67`: "the verified credentials are passed to the attribute provider when the credential is issued") |
| `Offer`, with `Flows = {"pre_authorized_code"}` | `LockedCodeRedeemsNothing` | an exchange that passed the tx_code lock redeems the code although failed attempts locked it before its update |
| `CredentialEndpoint` | `IssuedIdsKnown` | concurrent credential responses overwrite each other's `notifications`; the notification about the lost id is refused |
| `CredentialEndpoint`, with `Servers = {"external"}` | `HolderKeepsRequesting` | the wallet's second credential request finds no session, because the first one moved it out of `active` (`docs/concepts/issuance.md:137`: "so a wallet holding tokens can keep requesting credentials") |
| `CredentialEndpoint` | `TerminalStatusFinal` | a second notification turns `completed` into `failed` or back |
| `DeferredIssuance` | `RetrievedOnce` | two overlapping completions make a retrieved transaction ready again (`docs/concepts/issuance.md:121`: "can retrieve a ready credential once") |
| `AuthorizationServers` | `CodesWorkOnce` | two exchanges of one code both load the row before either saves it (`docs/concepts/issuance.md:61`: "Codes work once") |
| `ActiveIssuance`, with `Issuances = {a1, a2, b1}` | `ConvergesOnActiveSet` | the slot comes back to a set whose entries are being revoked, and the subject keeps no valid credential |
| `ConfigImport` | `DivergedIsSkipped` | a resource whose deletion failed halfway makes the startup import throw, which the comment at `config-bundle.service.ts:458` says it skips |
| `InteractiveAuthorization`, one auth session | `OneCode` | two follow-ups of the last step each receive a code; the first one is overwritten (`docs/upgrade/8.x-to-9.0.md:201`: "each auth session yields one code") |
| `KeyRotation` | `PreviousKept` | a second rotation within 30 days replaces the previous key (`docs/concepts/security-model.md:113`: "The previous key and certificate stay available for a fixed grace period of 30 days"); nothing deletes a previous key afterwards either |
| `KeyRotation` | `PreviousPublished` | only the active key is in the JWKS, so access tokens signed before a rotation are refused after it; nothing calls `getPublicKeys` of the entity (same sentence: "so relying parties can still validate recently signed tokens") |
| `KeyRotation` | `CertifiesActive` | the registrar's certificate for the old key is stored beside the key of a rotation |
| `KeyRotation` | `UnderStoredRoot` | a rotation that loaded the chain before a regeneration writes a certificate under the old root |
| `KeyRotation` | `EverySignatureVerifies` | a rotation between the two loads of a signer: the certificate of the old key with a signature of the new one |

With the condition on `kind` left out of `StoredRequestAnswerable` and
`KeyOutlivesOnlyUnservedOffers`, sessions of kind `lazy` violate both: two concurrent first fetches mix the nonce, key and
request they generate (`oid4vp.service.ts:307`), and a fetch that generates the request writes
a key into a session that ended meanwhile (`oid4vp.service.ts:334`).

In `KeyRotation` without the exception for `orphaned`, `ActiveKeyExists` is violated: when the
temporary row of a regeneration cannot be removed, the attempt to delete that chain destroys
the key material it shares with the one just saved (`key-chain.service.ts:105`); a deletion
that stops halfway leaves a chain without its key.

Read in the code while modelling it, and part of the models where they cover it:

- A PAR request after the redemption replaces the parameters the refresh token is bound to
  (`push-authorization-request.ts:134`).
- The deferred path accepts an expired nonce until the cleanup deletes it
  (`deferred-credential.service.ts:148`).
- Sessions with tokens of the chained server are never `consumed`, so they are expired or
  cancelled as unused while their wallet is issued credentials.
- A completion that is signing when the backend fails the transaction makes it ready.
- A status update answered with 409 may have changed some entries of the session: the entries
  are checked before the first write, and again at each (`status-list.service.ts:1486`).
- A list that is counted unused can be allocated from before it is deleted
  (`status-list.service.ts:1630`).
- A late callback with an error of the upstream provider saves the row as expired whatever its
  status is, and with it the tokens issued meanwhile (`chained-as.service.ts:576`).
- The presentation of an OID4VP authorization is copied to the issuance session and read from
  there, so two authorizations of one offer may carry each other's
  (`authorization-servers.service.ts:543`).
- A follow-up that advances late writes over the page the backend completed meanwhile: the
  backend was told of a success, and the wallet is denied until the call is repeated. A call
  that is repeated late completes the next page of a plan with two.
- If the instance stops between storing the code in the auth session and in the issuance
  session, the auth session is used and nobody has its code
  (`interactive-authorization.service.ts:1033`).

## Proofs

Every theorem holds for all sets of handlers and all settings that the assumptions of its
module allow. Each proof has the same shape: an invariant (`IInv` in most modules) holds
initially, every action preserves it, so it always holds; the theorem is one of its
conjuncts, follows from them, or is a property of single steps from states that satisfy it.
TLC has checked each of these invariants on the instance of its run.

| Module | Theorem | Says |
| --- | --- | --- |
| `PresentationFlowProofs` | `TypeCorrect` | `Spec => []TypeOK` |
| | `RaceHasOneWinner` | `Spec => []OneWinner` |
| | `PublishedOnce` | `Spec => []AnnouncedOnce` |
| | `WebhookTellsTheTruth` | `Spec => []WebhookMatchesSession` |
| | `RefusalIsTrue` | `Spec => []CancelReasonTrue` |
| | `RequestAnswerable` | `Spec => []StoredRequestAnswerable` |
| | `KeyGoesWithTheSession` | `Spec => []KeyOutlivesOnlyUnservedOffers` |
| | `KeepsContract` | `Spec => ImplementsContract` |
| `OfferFlowProofs` | `TypeCorrect` | `Spec => []TypeOK` |
| | `ValuesAreSingleUse` | `Spec => []SingleUse` |
| | `GrantsExcludeWithdrawals` | `Spec => []GrantExcludesWithdrawal` |
| | `RefusalIsTrue` | `Spec => []CancelReasonTrue` |
| | `KeepsContract` | `Spec => ImplementsContract` |
| `CredentialEndpointProofs` | `TypeCorrect` | `Spec => []TypeOK` |
| | `NoncesAreSingleUse` | `Spec => []NonceSingleUse` |
| | `ExpiredNoncesAreRefused` | `Spec => []ExpiredNonceRefused` |
| | `RedeemedSessionsServe` | `Spec => []RedeemedSessionServes` |
| | `EndedStaysEnded` | `Spec => NeverReopened` |
| the same, deferred issuance | `DeferredTypes` | `DeferredSpec => []DeferredTypeOK` |
| | `RetrievalsArePaid` | `DeferredSpec => []RetrievalsMatchCompletions` |
| | `ReadyIsKept` | `DeferredSpec => []ReadyUntilRetrieved` |
| the same, active issuance | `ActiveIssuanceTypes` | `SlotSpec => []SlotTypeOK` |
| | `OnlyOneSetActive` | `SlotSpec => []OneActiveSet` |
| | `NeverRevokedUnreplaced` | `SlotSpec => []RevokedWereReplaced` |
| `StatusListProofs` | `TypeCorrect` | `Spec => []TypeOK` |
| | `Conservation` | `Spec => []EntriesConserved` |
| | `RevokedStaysRevoked` | `Spec => RevocationFinal` |
| | `TokensRemember` | `Spec => TokensNeverForget` |
| | `PublishedWhenDone` | `Spec => []RevocationsPublished` |
| `AuthorizationServersProofs` | `AuthorizationTypes` | `Spec => []TypeOK` |
| | `OriginalExpiry` | `Spec => []RefreshNeverExtends` |
| | `LoginOfTheToken` | `Spec => []TokenNamesItsLogin` |
| | `RowsOutliveTokens` | `Spec => KeptForItsTokens` |
| `ConfigImportProofs` | `OneWriter` | at most one operation holds the lock, and a live one without a mistaken recovery does |
| | `ReportAccounts` | `Spec => []ReportCoversEffects` |
| | `ReviewedIsApplied` | `Spec => []AppliedAsReviewed` |
| | `ConfigurationTypes` | `Spec => []TypeOK` |
| | `EndOfImport` | `Spec => []CompletedMeansApplied` |
| | `DetachedIsKept` | `Spec => DetachedKept` |
| `InteractiveAuthorizationProofs` | `InteractiveTypes` | `Spec => []TypeOK` |
| | `StepsDone` | `Spec => []StepsBeforeCode` |
| | `OneGrant` | `Spec => []RedeemedOnce` |
| | `CredentialsKept` | `Spec => []CredentialsBeforeTokens` |
| `KeyRotationProofs` | `SignedVerifies` | `Spec => []SignaturesVerify` |
| | `MaterialExists` | `Spec => []ActiveKeyExists` |

What the invariants add to the properties, none of which is inductive:

- **PresentationFlow.** That no two handlers believe they ended the session depends on the
  status they wrote still being there. `Settled`: a winner's status is the row's status;
  `RedeemedRow`: consumed rows are completed, others have no code; `Unique`: one winner of a
  kind; `Unserved`, `Unoffered`: before the offer is returned no fetch and no response goes on,
  and if the session ends by then none ever does; `Written`: what the creation of the offer has
  stored so far; `Unchanging`: request, nonce and key of a session that is not generated late
  then stay what its offer stored, but for the key its end deletes; `Published`, `Delivered`:
  what was announced, and what is still to be announced, against the row; `Refused`: what a losing cancellation read was already final. Each step
  preserves it because a winner's update demands an open row and every later write of the
  status does too.
- **OfferFlow.** `Redeemer`: the row names the exchange that redeemed it, and a consumed row
  is neither cancelled nor expired. `Doomed`: the row the maintenance job selected stays past
  its expiry and unredeemed, which is why its second update need not look at `consumed`
  again. `Refused` as above, `Retrieved` (a retrieval cleared the offer), `UriUsed` (the
  authorization that took a request_uri removed it from the row, where only its own push
  could put it again).
- **CredentialEndpoint.** `Taken`: whoever took a nonce deleted it, and deleted nonces are not
  stored again; `Loop`: how far a request is with the nonces of its proofs, so that an
  accepted request took all of them and none had expired; `Redeemed`: what the built-in server
  redeemed is not withdrawn. `TypeOK` alone is not inductive here: that the nonce a request
  took is one of its proofs is part of `Loop`.
- **DeferredIssuance.** `Budget`: answered polls, plus one if the row is ready, are at most
  the completions that made it ready; `Signed`: every credential in the row, in what a poll
  loaded or in an answer was signed by a completion; `InTime`: before its time is over the
  transaction is there and no poll is about to mark it expired, so a ready one stays ready
  until a poll takes it.
- **StatusList.** `Fresh` is the key: a handler that holds the latest version of its list
  holds the content of its list, because every write takes the version from everybody who
  loaded the list (`Kept`). So a versioned write changes only what it says, and every step
  lets lists grow (`RowsGrow`): no revocation is lost and the token is the old one, none, or
  that of the elements. Around it: `Attempts` (who goes on has an attempt left), `Placed`
  (what each place of a handler takes for granted), `Tables` (lists to come are empty, mapped
  entries belong to lists that exist, tokens show no revocation the elements do not have),
  `Mapped` (`EntriesConserved`, and entries of credentials are mapped as long as their list
  exists) and `Written` (what an update wrote is in its list, and in the token unless it is
  the entry it is publishing now). A step is looked at twice: what it does to its own handler
  (`Local`), and the frame of all others.

- **ActiveIssuance.** `TriesLeft`, `Comparison` (what a request read of the slot is what it
  is, as long as the version is), `Displacement` (who finds or revokes entries displaced their
  set), `Covered` (a credential whose set lost the slot is pending with the request that took
  it, or its set is spared), `RevokedWereReplaced`.
- **AuthorizationServers.** A handler may bring back any row it ever loaded, so what is
  claimed of a row must hold of all copies: `RowOK` refers only to responses already given,
  which never change (`Grown`), and is kept by rows (`RowsOK`), copies (`HeldOK`) and what
  handlers are about to answer (`HandlersOK`).
- **ConfigImport.** `JournalInv`: the tasks in memory and in the report account for what was
  `touched` (`Accounts`), and what has an effect has started (`Started`), also after a crash.
  `LockInv`: one row runs (`Lock`), an operation that is not mistaken for dead is that row
  (`Live`), and so the configuration is what its plan was made for, but for its own tasks and
  for key chains whose key was replaced. Such a replacement needs no lock, but leaves the
  ownership alone and removes nothing, so what an import has done to that resource still
  counts (`ReplacedKeeps`).
  That an import which ends has applied its documents adds three: `Planned` (the tasks write
  what is described and delete only what is not, and content comes with its ownership),
  `Fresh` (no open task has run yet, and an import that completes has none open) and
  `Progress` (a resource without a task that is still due is as the documents want it). Only
  `Progress` needs the lock, so it holds without a mistaken recovery. A resource described
  and one that is not are disjoint cases (`AppliedTo`, `DroppedFrom`), so each task disturbs
  one of them.
- **InteractiveAuthorization.** Follow-ups write copies back that may be stale, so the row is
  no measure of progress. What grows is what is `done` and that the offer has credentials;
  whose they are may change, but only to an auth session that presented (`Sourced`).
  `Settled(s, i)`: the first step of each kind up to `i` is done, and with a presentation
  among them the credentials are there; it stays true once it is. It holds before every step
  that anything names: the row, the copies of follow-ups (`Copies`), the request the verifier
  shows, the steps done (`AllSettled`). A finished page may be a later one than the one it is
  taken for; then what comes before it is settled, and the first page with it. That is why
  the property speaks of the first step of a kind, and why `PresentedOnce` fails. `Granting`:
  the update of the offer that consumes it is won by one request.
- **KeyRotation.** `Certified`: key and certificate are stored together, in the row and in the
  copies that are saved or sent, unless the certificate is the registrar's. `UnsavedApart`: a
  key that a regeneration has generated is named by no row, no copy and no other regeneration
  until it is saved, because generated keys are new (`KeysKnown`). Hence `ReplacedApart`: the
  key a regeneration is about to destroy is not the active one and cannot come back, as no
  rotation writes a key it has not generated itself.

Assumptions on the constants, which TLC evaluates on every run: `None`, or what takes its
place, is no value of the columns it stands in for (`NoReasonIsNone`, `NoResponseIsNone`,
`NoRequestIsNone`, `CompletionsDiffer`), generators and kinds of handlers have different names
(`GeneratorsDiffer`, `NamesDiffer`, `KindsDiffer`), settings have the values the configuration
allows (`KnownSettings`, `Settings`, `CleanupModes`, `FlowsGiven`, `TxCodeSettings`,
`KnownServers`, `ImmediateIsBoolean`, `ValuesAreStatuses`, `KnownModes`), documents, tokens and
plans are what they are used as (`DocsAreDocuments`, `DocumentsGiven`, `ResourcesNumbered`,
`NoRunIsNone`, `RotatedIsNew`, `TokensGiven`, `PlansGiven`, `KindGiven`), sizes, bounds and lifetimes are numbers
(`Sizes`, `BoundsGiven`, `BoundsAreNaturals`, `TimesGiven`), and the completions
and polls of one transaction are finitely many (`FinitelyMany`, for the cardinalities in `RetrievalsMatchCompletions`).
The proofs about interactive authorization needed one assumption more than the runs did:
`None` is not `"completed"` (`PlansGiven`), as the verifier's session that was never started
would otherwise count as verified.

Only model-checked: the liveness properties, as fairness is out of the prover's reach
(`OverdueSessionsEnd`, `OverdueOffersEnd`, `OverdueIsDeleted`, `DueIsRotated`). The safety
properties of all runs that pass are proved. The type invariants of `PresentationFlow`,
`StatusList`, `AuthorizationServers`, `OfferFlow`, `CredentialEndpoint`,
`DeferredIssuance` and `ActiveIssuance` are proved and no longer part of a run; that of
`KeyRotation` (`Types`) is only needed by its proofs.

## Not modelled

- **KMS adapters, CRLs, key import**: libraries and single calls around `KeyRotation`.
- **Verification of presentations, trust lists, certificates, credential formats**: sequential
  computation, most of it in libraries; an outcome in every flow that calls it.
- **Export, archives and migration of configuration, registrar client, tenants and clients,
  storage, audit log**: CRUD, files and calls of other services; no step of a protocol
  depends on the order of two of them.
- **Web client, CLI, SDK, documentation site**: more than half of the lines of the repository,
  with the generated API schemas and types of `packages/`; they have no protocol state. The
  models cover a small part of the repository's lines for that reason, and about two fifths
  of the lines of the components they model.

## Plan

1. Done: the protocol core on the session row, deferred issuance, status lists, active
   issuance, the chained and OID4VP authorization servers, interactive authorization, ISO
   18013-7 and the configuration journal, with proofs of their safety.
2. Done: `KeyRotation`. Next for it: import of given keys, whose names in the KMS may repeat.
3. Done: proofs about `KeyRotation`, `InteractiveAuthorization` and the end of imports.
4. Lists dedicated to one configuration and the import of lists in `StatusList`; several
   offers, so that tokens of one can meet the session of another.
5. The DCQL claim policy and the rules for status values as operators against a reference
   definition.
