# Verification of the candidate compliance platform

TLA+ models, model-checking runs and machine-checked proofs for the platform in
`src/`: an Express API over PostgreSQL (Prisma), a verification worker, and a
Next.js web application that talks to the API from its server side.

Run everything from this directory: `tlc -config <cfg> <MC module>` checks a run of
`PROJECT.json`, `tlapm <module>Proofs.tla` checks the proofs of a module.

## 1. The system

| Component | State | Operations | Interacts with |
|---|---|---|---|
| Verification workflow (`modules/verification/verification.processor.ts`, `verification-worker.ts`, the claim function in SQL) | `verification_requests`, `outbox_events`; in each worker process the claimed event | claim, begin, finish, retry, close an exhausted event; start, stop, crash | verifier (call that may throw or be slow), database clock, audit ledger |
| Verification requests (`verification.service.ts`) | the same rows | request (one per document version), read | documents (row lock), idempotency, outbox |
| Idempotent writes (`idempotency.service.ts`) | `idempotency_records` | look up, execute, insert, recover | every mutation below; the retries of the web application |
| Compliance documents (`compliance-document.service.ts`) | `compliance_documents`, `compliance_document_versions` | create, add version, approve, correct, remove; get, list, history, expiring | candidates, idempotency, audit |
| Candidates (`candidate.service.ts`) | `candidates` | create, update, remove; get, list | documents and extractions filter on them |
| CV extraction (`cv-extraction.service.ts`) | `cv_extractions`, `candidate_profiles` | create (calls a provider inside its transaction), confirm, reject; get | candidates, idempotency, audit |
| Tenant isolation (`with-tenant-transaction.ts`, `with-authenticated-actor-transaction.ts`, tenant-context middleware, row policies) | transaction-local settings of pooled connections, memberships | resolve a membership, open a tenant or actor transaction, apply the policies | everything that touches the database |
| Authorisation (`permissions.ts`, `require-permission.middleware.ts`) | none | is an operation allowed to a role | every route, after the tenant context |
| Audit ledger (`audit.service.ts`) | `audit_events`, append-only | append with the change, append with a read | every service |
| Web submissions (`components/*-form.tsx`, `lib/*-idempotency.ts`, `app/api/**`) | values, dialog, attempt identifier and pending submission of each form | edit, submit, confirm, time out, retry, leave | routes of the Next.js server, idempotent writes, cookies |
| Document page (`compliance-document-detail.tsx`, its controls) | document shown, history shown, dialogs | open, approve, correct, refresh the history | reads and mutations of documents, by the routes |
| Web session (`lib/session.ts`, sign-in, tenant selection, authenticated layout) | two cookies; what each tab shows | sign in and out, discover, select and switch tenants, open pages | API authentication and memberships |

The other parts are out of scope: hashing and signing (stateless library calls), HTTP
plumbing and configuration, the Zod contracts, page rendering, tests, seed data and
scripts. Section 6 says why.

What is hard here is between steps, never inside one function: leases that end while a
worker is still at work, workers that die between two commits, answers that come after
another worker has decided, two calls with one key, commits whose acknowledgement is
lost, row locks that cover one of the two rows an operation depends on, reads of two
statements beside a writer, settings of a connection that serves one caller after the
other, roles that change between two middlewares, forms that retry what was already
written, and cookies that one response sets while another request relies on them.
`PROJECT.json` lists these as *hazards*, each at its line, with the properties that
cover it or the reason why none does.

What makes each component correct:

- **Verification**: the request and its event never disagree; a decision is final; an
  old claim decides nothing; no attempt calls the provider twice; the trail is
  complete; every request is decided.
- **Idempotent writes**: one effect per key; every answer is true; every call ends.
- **Documents**: versions form a line; approved versions are only corrected; nothing
  is written after removal; audit events tell the change that was committed; what a read
  answers, and leaves in the ledger, was true at one moment, and is of nothing that was
  removed before it began.
- **Candidates and CV extraction**: a profile comes from one accepted extraction; the
  before image of an audit event is the state that the change replaced.
- **Isolation, authorisation**: a call sees exactly its tenant and acts within a role
  its caller has held; a connection keeps nothing of the calls it has served.
- **Web**: one submission makes one write, whatever the browser retries; a form tells
  its user the outcome of what it shows; a workspace is shown to members only; no
  redirect goes round for ever.

## 2. Modules

| Module | Models | Abstract module | Model checking | Proofs |
|---|---|---|---|---|
| `VerificationOutbox` | claim, worker loop, the four processor transactions | `VerificationPromise` | `MCVerificationOutbox`, two runs | `VerificationOutboxProofs` |
| `IdempotentWrite` | `executeIdempotentWrite` | `KeyedWrite` | `MCIdempotentWrite`, one run | `IdempotentWriteProofs` |
| `DocumentLifecycle` | mutations of documents, verification requests and removal of a candidate, as READ COMMITTED transactions | `DocumentHistory` | `MCDocumentLifecycle`, one run | `DocumentLifecycleProofs` |
| `DocumentReads` | the four reads of documents beside the mutations and the removal of candidates | uses `DocumentHistory` | `MCDocumentReads`, one run | `DocumentReadsProofs` |
| `DocumentView` | the page of a document and its controls beside other users | uses `DocumentHistory` | itself, two runs | `DocumentReadsProofs`, second half |
| `CandidateRecords` | mutations of candidates, CV extractions and profiles, as READ COMMITTED transactions | `CandidateHistory` | `MCCandidateRecords`, two runs | `CandidateRecordsProofs` |
| `TenantAccess` | a call through authentication, tenant context, permission, pooled connection and row policies | none | `MCTenantAccess`, one run | `TenantAccessProofs` |
| `WebSubmission` | the forms, their routes and keys, timeouts and retries | takes the API as `KeyedWrite` promises it | `MCWebSubmission`, one run | `WebSubmissionProofs` |
| `WebSession` | cookies, sign-in, tenant selection, pages and redirects | none | `MCWebSession`, one run | `WebSessionProofs` |

The modules compose by their abstract specifications. `IdempotentWrite` is shown to keep
`KeyedWrite`, and `WebSubmission` relies on that and on nothing else of the API.
`DocumentLifecycle` is shown to implement `DocumentHistory`, and `DocumentReads` and
`DocumentView` put their reads and their page beside the actions of that module. The
request for a verification is a transaction of `DocumentLifecycle` and the opening of
the outbox in `VerificationOutbox`; the removal of a candidate is in `CandidateRecords`
and in `DocumentLifecycle`, each time with the locks that the other operations of the
module compete for.

Operators marked `(bug)` stand just before the definition they could replace. Nothing
uses them: each is a plausible defect, and `PROJECT.json` ("mutants") names the
property that must fail when it takes the place of the definition. They are how one
knows that a property can fail.

### 2.1 VerificationOutbox

State: `request` and `event` are the two rows, `worker` the process with its local
`ClaimedEvent` (`pc` says which call of `processNextVerificationEvent` comes next),
`audit` the actions recorded for the request. `calls` and `answers` are history.

A transaction is one step. This is faithful because each of the four begins by locking
the outbox row (`lockOutboxEvent`, SELECT ... FOR UPDATE), the only other writer of
these rows is the claim, which locks the same row with SKIP LOCKED, and every
statement of the transaction follows the lock. Between the steps anything may happen.
What is kept of time is what the SQL asks: `available_at` reached or not
("available"/"delayed"), `locked_until` ahead or reached ("leased"/"lapsed"). A retry
delay of any length and clocks that disagree are covered, since `BecomesDue` and
`LeaseExpires` may happen at once or much later. The claim takes any claimable event:
its ORDER BY compares timestamps of two clocks, so nothing is built on it.

| Action | Code |
|---|---|
| `RequestRightToWorkVerification` | insertion of request, event and audit event in `requestRightToWorkVerification` |
| `ClaimNextEvent` | `claim_next_verification_outbox_event`, `claimNextEvent` |
| `BeginProcessing`, `FailExhaustedClaim`, `FinishProcessing`, `HandleRetryableFailure` | the functions of these names |
| `LoseClaim` | the ownership guard of each, when it fails |
| `VerifierAnswers` | `verifier.verify()` returning a verdict or throwing |
| `IterationFails` | an error that reaches `run()`: also one of `finishProcessing`, whose promise is returned without `await` and therefore escapes the `catch` of `processNextVerificationEvent` |
| `Stop`, `Start` | SIGTERM, the death of the process at any moment, a new process |

`HandleRetryableFailure` does not look at the status of the request, unlike the other
three; that it needs not to follows from `OutboxAgreesWithRequest`.

Worker identifiers are `local:${process.pid}`. Processes in several containers may
share one, and then the ownership guard cannot tell them apart. The properties are
therefore of two kinds: those that hold with any `IdOf` (agreement, finality,
exhaustion, trail, one call per attempt, the promise), checked with all workers sharing
one identifier, and those that hold only under `UniqueIds` (fencing, newest claim
decides, the attempt count never goes back).

### 2.2 IdempotentWrite

A call is one HTTP request; a client's retry is another call with the same key. `call`
holds its `pc` in `executeIdempotentWrite`, `record` the committed
`idempotency_records`, `target` the committed row each payload works on, `effects` how
many executions were committed per key. The statements of the first transaction are
separate steps, because at READ COMMITTED others may commit between them. Its own
writes are visible only at `Commit`. A row lock and an uncommitted index entry are
guards over the `pc`s of the other calls. `TransactionFails` covers both a rollback
and a commit whose acknowledgement was lost; `Recover` is the second transaction in
the `catch` block.

The twelve mutations differ here only in what they need of their target and whether
they lock it, so there are three kinds: *create* (needs an active parent, no lock),
*transition* (locks, uses up a state), *remove* (locks, ends the target, replay without
validation). `Reopen` and `RemoveParent` stand for other operations that change the
target meanwhile.

### 2.3 DocumentLifecycle

Seven operations run as transactions in stages: `begun` -> lock -> `locked` -> read and
decide -> `staged` -> write and commit. Waiting for a lock is a guard. The unique index
on version numbers and the runtime triggers are left out on purpose: what is checked
holds by the row locks alone, so that the database's guards are a second line of
defence and not the mechanism. The unique index on verification requests is kept, the
service relies on it. `createComplianceDocument` reads its candidate without a lock;
the foreign key of the insertion only makes it wait for a removal that is under way,
and the model lets the document be created beneath the removed candidate, as the code
does. PENDING_REVIEW and REJECTED are written by no code and do not occur.
The steps `ReadCurrent` and the writes merge statements that touch only rows covered by
the lock already held.

`DocumentHistory` is therefore atomic on a document but not on its candidate. An
operation is admitted (`Admit`) when it finds the candidate active, and then commits or
gives up; the candidate may be removed in between, and the commit is then made beneath
it. `gone` are the candidates removed, `admitted` the documents whose operation has
looked. The refinement maps them to the removed candidates and to the documents with a
transaction past its look (`HasLooked`), so that it says exactly how far a mutation may
be behind the removal of its candidate: nothing is committed that did not look before.

### 2.4 CandidateRecords

The same style on the rows of `candidate.service.ts` and `cv-extraction.service.ts`.
An update reads its before image, then waits for the row (`updateMany`), evaluates its
filter on what is committed by then, and merges the given columns into that row. A
confirmation locks its extraction, reads it, then waits for the profile row or its index
entry. A creation of an extraction awaits the provider between its two statements. The
lock modes matter and are kept: FOR UPDATE of a removal, FOR NO KEY UPDATE of an update,
FOR KEY SHARE of the foreign keys of a new extraction or profile. An upsert that
loses the race of two first insertions may either wait and update or fail with a
unique violation, depending on the statement Prisma chooses; the failure is a
`Rollback`. `audit` is the event appended last, which is all a property of a step needs.
The triggers that protect removed candidates, decided extractions and the evidence of a
profile are left out, for the reason given above; the unique index on e-mail addresses
only refuses. `CandidateHistory` keeps what each call asks for, so that the refinement
says that a commit changes exactly what its request gives: an update that wrote back
columns it had read would not implement it.

### 2.5 DocumentReads

A read is a READ COMMITTED transaction of several statements without a lock: `read`
holds how far it is and what it has found, `audit` the committed disclosures, `during`
(history) what was true since the read began, `hidden` (history) the documents that were
removed, or whose candidates were, when it began. Prisma loads an included relation with
a statement of its own, so that a document and its current version come from two
snapshots; `IncludedVersion` is the version the document named when it was found, with
the status it has when it is loaded.

| Action | Code |
|---|---|
| `FindDocument`, `LoadCurrentVersions` | the two statements of `getComplianceDocument` |
| `FindDocument`, `LoadVersions` | `listComplianceDocumentVersions`, with its check that exactly one version is the current one |
| `RequireCandidate`, `FindCandidateDocuments`, `LoadCurrentVersions` | `listCandidateComplianceDocuments`: `requireCandidate` with its 404, the query, which does not ask for the candidate again, and the included versions |
| `FindExpiringDocuments`, `LoadCurrentVersions` | `listExpiringComplianceDocuments`, whose query asks for the candidate too |
| `AppendAudit`, `Commit`, `Answer`, `Fail` | the audit events, the commit that makes them seen, the answer that may be lost; or a rollback |
| `Mutate` | a step of another transaction, by an action of `DocumentHistory`: a look at the candidate, a commit, a rollback, the removal of a candidate |

The removal of a candidate and that of a document are different things here. The first
leaves the documents as they are, and what has looked at the candidate before may still
commit beneath it; a list that has required its candidate still finds these documents
after it is removed, in states they have reached beneath it. What is answered is then
true of the rows (`DocumentIsOfOneMoment`), and `RemovedStaysHidden` bounds how stale
the view of removals may be: the beginning of the read. That a query
finds documents of active candidates only is not claimed: the code does not do it (section 5).

One page holds the whole list; `count`, ordering and the filter on the type, which never
changes, are left out. The window of 30 days is the constant `Expiring`: a read takes one
instant, and dates do not change.

### 2.6 DocumentView

`view` is the state of the detail component, `write` what its two controls have asked
for, `refresh` the history requests under way. `OpenDocument` and `OpenHistory` are the
two calls of the server component; `Approve`, `Correct`, `Approved`, `Corrected` and
`SubmissionFails` the controls; `ReadHistory`, `RefreshSucceeds` and `RefreshFails` the
three moments of `refreshHistory`, whose calls may overlap. A control's submission is a
write to come, admitted or done, since retries share its key (`WebSubmission`). The API
takes it up by a look at document and candidate (`ApiAdmits`), and then carries it out
on the version that is current by then, whether or not anybody waits and though the
candidate may be removed by then, or rolls it back (`ApiGivesUp`). Reads of the page and
of its history find a document only while its candidate is active (`Visible`).

### 2.7 TenantAccess

`role` is the role of each user in each tenant (none, given, taken away), `pool` the two
settings of each connection and the call it serves, `call` a request on its way, `held`
(history) the roles its caller has held in its tenant since it came.

| Action | Code |
|---|---|
| `Arrive`, `Authenticate` | `authenticate.middleware.ts`; token refused or user gone, or accepted |
| `RequireTenantContext` | the middleware with `validate_tenant_membership`, a statement of its own |
| `RequirePermission` | `require-permission.middleware.ts` over `permissions.ts`; the permission of each route is in `CandidateRoutes` and its like |
| `Begin`, `SetTenant`, `SetActor` | `withTenantTransaction`, `withAuthenticatedActorTransaction` |
| `Execute`, `ListMemberships` | the statements of the service under the policies; `list_current_actor_memberships` |
| `EndTransaction`, `Rollback`, `Disconnect`, `Fail` | commit, failure or timeout, a broken connection, no connection |
| `SetRole`, `Revoke` | the owner of the database; no route changes memberships |

A setting that was local to a transaction is the empty string afterwards, not unset;
the model keeps the difference, the policies treat both as no tenant. A mutation names
its membership in `idempotency_records`, whose foreign key locks the membership until
the end and keeps it from being deleted afterwards: that is `MembershipReferenced` and
the guard of `Revoke`, and a read has nothing of the kind. What an operation does to its
rows is in the other modules; here it reaches the row it names or not. A user is not
given a second membership of one tenant after the first was taken away.

### 2.8 WebSubmission

`form` is each mounted form, `request` its requests from the browser to the API and
back, `cookies` the session they carry, `ledger` the writes the API has committed.

| Action | Code |
|---|---|
| `UpdateField`, `SelectFile`, `UpdateProfile`, the dialogs | handlers of the six components |
| `SubmitCandidate`, `SubmitDocument`, `SubmitCorrection`, `Approve`, `SubmitCv`, `ConfirmProposal`, `RejectProposal` | their submissions through `requestFrontend` |
| `RefuseSession`, `CandidatesRoute` and the other routes | `app/api/**/route.ts`: session validated, key derived, API called |
| `TimeOut`, `ApiTimeOut` | the timer of 8 seconds in the browser, and the one of the server |
| `ApiWrites`, `ApiReplays`, `ApiRefuses` | the API as `KeyedWrite` allows |
| `Receive`, `Leave`, `ChangeCookies` | the answer to the request awaited; reload; another tab |

Derived keys are records of what the HMAC covers; it is taken to be injective. Only
valid values are sent, since the forms and the routes validate alike. Failures to which
a form reacts alike are one reply. All forms are in one browser; an attempt identifier
belongs to one mounted form. A success that leads to another page ends its form: the
code's `finally` enables the form again while the navigation is pending, and the user is
taken not to act on a page that is being left. The keys are derived from the session
token, so that a retry after a new login in another tab, also for the same tenant, is
another submission; nothing is claimed of it.

### 2.9 WebSession

`cookies` are the two cookies all tabs share, `tokens` those issued, `tab` what each tab
shows, `requests` what is in flight with the cookies it took along. A response changes
the cookies when it arrives and not when it is produced. The server's part of a request
is one action per call it makes to the API (`Server`), the browser's one per kind of
answer (`Receive`); `Abort` is the timer, `Open` an address the user enters, `Expire`
and `ChangeMembership` come from outside. The list of memberships and the validation of
the context are two calls, between which a membership may come or go, both for the
choice of a tenant and for the authenticated layout. Roles are left out: a role changed
between the two calls only adds refusals, which are there. The user does not act on a
page that is being left; what is in flight from it may still arrive.
`WorkspaceWasAuthorised` is about a workspace that a tab did not show before; it does not
look at a page that shows the same user the same tenant once more.

## 3. Runs

| Run | Instance | Question |
|---|---|---|
| `outbox_fencing` | 3 workers, distinct ids, 1 request, 3 attempts, `FairSpec` | Can a worker act on an old claim? Is the request decided once failures end? |
| `outbox_shared_ids` | 2 workers, one id, 2 requests, 2 attempts | What survives identical identifiers? |
| `idempotent` | 2 calls, one key of each kind, 2 payloads, `FairSpec` | One effect per key, only true answers, every call ends? |
| `documents_safety` | 3 transactions, 1 document, 3 versions | Are interleaved transactions, after a look at the candidate, like atomic ones? Does each audit its change? |
| `candidates_safety` | 2 transactions, 1 candidate, 2 extractions, 2 columns, 2 values | Is an update lost or made after the removal? Is each extraction decided once, with its profile? |
| `candidates_update_audit` | 2 transactions, 1 candidate | Does an update audit the change it makes? (No.) |
| `reads_safety` | 1 read, 2 documents of one candidate, another candidate, 2 versions | Is what a read answers and audits true of one moment, and of nothing removed before it began? |
| `view_safety` | 1 page, 4 versions, 2 refreshes | Is only shown what is done, and never something older? |
| `view_approval` | 1 page, 2 versions | Is the version approved the one on the page? (No.) |
| `submission_retries` | 1 form, 3 requests, 1 file choice, 2 inputs, 2 sessions | Is a retried submission written once and reported truly? |
| `session_navigation` | 1 tab, 1 user, 2 tenants, 2 tokens, 2 addresses, 1 change of membership, `FairSpec` | Is a workspace shown to members only? Does navigation settle? |
| `access_safety` | 1 user, 2 tenants with a row each, 2 calls, 2 connections, 2 roles, 3 operations | Does a call see its tenant, act within its role, leave nothing behind? |

Why the bounds are enough. Two requests for verification share nothing but the workers
that choose between them, so one request shows every interaction on a row and two show
the choice. Three workers let two old claims coexist with a new one; three attempts
separate a first, a middle and a last one. Two calls with a key are a winner and a loser
that waits for the index; a late retry is the second call after the first has ended; two
payloads make a conflict, and the proofs cover more. Three transactions on a document
are two writers and a removal; three versions allow an addition, an approval and a
correction. Two transactions on a candidate suffice for each pair that competes for a
row, and two extractions compete for one profile; two columns are needed for updates
that must not undo each other. Reads take no lock and do not see one another, so that
one is enough beside any number of writers; two documents make a list, a second
candidate a list without them, and two versions a draft, its approval and a correction
during a read (the proofs hold for any number). Four versions
let a page approve, correct and be overtaken; two refreshes overlap. Three requests of a
form are one that is lost, one that is late and one that is awaited; two inputs make an
edited retry, two sessions a retry in another workspace. Two tokens are the one a form
has prepared for and the one it starts. Two calls on two connections make every order
in which a connection passes from one to the other.

`MaxVersions`, `MaxRequests`, `MaxSelections`, `MaxRefreshes`, `MaxTokens`, `MaxSteps`
and `MaxChanges` are bounds in guards: they refuse a further step, and no property
depends on the refusal. In `access_safety` three operations stand for their classes: a
read open to both roles, a creation and an update that one of them lacks; the matrix as
a whole is an operator, and the proofs hold for any operations and roles. One tab keeps
`session_navigation` within reach of a liveness check. The safety properties of that run
were also checked with two tabs (1 user, 2 tenants, 1 token, 1 address, 1 change:
3.5 million states).

Symmetry is used in safety runs only: nothing tells workers, requests, calls,
connections, payloads, columns, inputs, documents or values apart (in runs with distinct
worker identifiers an identifier is the worker itself). `CHECK_DEADLOCK FALSE` is set
where the system does stop: each call of `IdempotentWrite` ends once; the bounded forms,
reads, page and tabs of the other modules have all been used up.

### Fairness

`VerificationOutbox!FairSpec` assumes weak fairness of the worker's own steps (`run()`
never leaves its loop while the process lives), of the verifier's answer (the local one
always answers; a hanging provider would stop its worker, there is no timeout), of the
restart of a stopped worker (an operator or supervisor), and of the clocks. Nothing can
be promised while failures never end or every lease is shorter than the work done under
it: `<>[][~Disturbance]_vars` says that from some time on no iteration fails, no process
stops and no lease ends under a worker that still holds it. Failures before that time
are unbounded. No fairness is assumed for requests or for which event is claimed.

`IdempotentWrite!FairSpec` assumes weak fairness of each call's own steps: the handler
runs on, and PostgreSQL grants a lock or index entry once it is free. Faults are never
required and never excluded.

`WebSession!FairSpec` assumes that a page request moves on: each call of the server to
the API ends after 8 seconds at the latest, and the browser takes the answer. Nothing is
assumed of the user, of the other requests, or of tokens and memberships, which are
bounded in number of changes and may change at the worst moment.

## 4. Proofs

| Theorem | States | Holds for |
|---|---|---|
| `VerificationOutboxProofs!Typing` | `[]TypeOK` | any workers, ids, requests, attempts |
| `OutboxAgreement` | `[]OutboxAgreesWithRequest` | the same |
| `EarnedExhaustion` | `[]ExhaustionIsEarned` | the same |
| `FinalDecision` | `DecisionIsFinal` | the same |
| `Fencing` | `[]GuardFencesOldClaims` | the same; the property is conditional on `UniqueIds` |
| `NewestDecides` | `[]DecidedByNewestClaim` | the same, conditional on `UniqueIds` |
| `MonotoneAttempts` | `AttemptCountNeverRegresses` | the same, conditional on `UniqueIds` |
| `AuditTrail` | `[]AuditTrailMatchesStatus` | any workers, ids, requests, attempts |
| `OneCallPerAttempt` | `[]VerifierCalledOncePerAttempt` | the same |
| `ImplementsPromise` | `VerificationPromise!Spec`, the safety half of the refinement | the same |
| `DecisionsHaveGrounds` | `[]DecisionsAreBacked`: what the verifier said, or all attempts used up, stands behind every decision | the same |
| `IdempotentWriteProofs!Typing` | `[]TypeOK` | any calls, keys, kinds, payloads |
| `OneEffectPerRecord` | `[]EffectsMatchRecords` | the same |
| `KeepsPromise` | `ImplementsKeyedWrite` | the same |
| `RecordsStay` | a recorded write never changes | the same |
| `AnswersStayTrue` | `[]AnswersHold`: an answer stays true, and no call that was told of a rejection or conflict has written | the same |
| `OneResponsePerKey` | `[]ReplaysAgree`: all successes under one key show one write | the same |
| `DocumentLifecycleProofs!VersionsAreALine` | `[]DocumentsInv` | any transactions, candidates, documents, versions |
| `AuditIsTrue` | `AuditTellsTheTruth` | the same |
| `AuditEventsFormAChain` | each event begins with the state that the one before it ended with | the same |
| `ApprovedVersionsStay` | a version that is approved or superseded never changes | the same |
| `RemovedDocumentsStay` | a removed document is never written again | the same |
| `DocumentsAreAtomic` | `ImplementsDocumentHistory`: atomic after a look at the candidate | the same |
| `CandidateRecordsProofs!ProfilesHaveEvidence` | `[]CandidatesInv` | any transactions, candidates, extractions, columns, values |
| `DecisionsAudited` | `DecisionsAreAudited` | the same |
| `DecidedRowsStay` | a removed candidate and a decided extraction never change | the same |
| `AfterImagesAreTrue` | the event of a change of a candidate ends with what the candidate then is | the same |
| `NoOrphanedExtraction` | `[]ExtractionsHaveCandidates` | the same |
| `CandidatesAreAtomic` | `ImplementsCandidateHistory` | the same |
| `TenantAccessProofs!Typing` | `[]TypeOK` | any users, tenants, rows, calls, connections, operations, roles given |
| `SettingsEnd` | `[]SettingsEndWithTransaction` | the same |
| `WithinRole` | `[]ActedWithinRole` | the same |
| `Writers` | `[]WritersAreMembers` | the same |
| `ExactTenant` | `SeesExactlyItsTenant` | the same |
| `Isolation` | `[]TenantsAreIsolated`: success is on a row of the call's tenant and within a role held there | the same |
| `DocumentReadsProofs!OfOneMoment` | `[]ReadsInv` | any reads, candidates, documents, versions, expiry dates |
| `RemovedAreHidden` | `[]RemovedStaysHidden` | the same |
| `CompleteHistories` | `[]HistoryHoldsItsCurrent` | the same |
| `ExpiringAreCurrent` | `[]ExpiringByCurrentVersion` | the same |
| `NeverOptimistic` | `[]ViewInv` of `DocumentView` | any number of versions and refreshes |
| `PageGoesForward` | `ShownNeverRegresses` of `DocumentView` | the same |
| `WebSubmissionProofs!Typing` | `[]TypeOK` | any forms, inputs, sessions, requests per form |
| `OneWritePerSubmission` | `[]RetriesWriteOnce` | the same |
| `OwnSuccessOnly` | `[]SuccessIsOwn` | the same |
| `NoKeyReused` | `[]KeysAreNeverReused` | the same |
| `NoRefusal` | `NoRefusalAfterWrite` | the same |
| `ConfirmsTheShown` | `ConfirmsWhatIsShown` | the same |
| `ApiKeepsItsWord` | `Promise!Spec`: the API that the forms meet is `KeyedWrite` | the same |
| `WebSessionProofs!Typing` | `[]TypeOK` | any tabs, users, tenants, tokens, addresses |
| `LogoutSparesLogin` | `OwnLogoutSparesLogin` | the same |
| `AuthorisedWorkspaces` | `WorkspaceWasAuthorised` | the same |

Assumptions are the named ASSUMEs of the component modules: types of the constants,
at least one attempt or version, and that the null value differs from the values it
stands against. TLC evaluates them in every run.

*Verification.* Agreement is not inductive alone: a worker with a claim could find a
decided request whose event is open. `IInv` therefore adds to `TypeOK` three parts.
`RowsOKInv` relates the two rows of a request: the event exists exactly when the request
does and is processed exactly when the request is decided, with the same failure code
and no holder; the request's attempt count never exceeds the event's; an exhaustion is
recorded at the last attempt only. `ClaimsOKInv` is about what a worker remembers, which
may outlive its lease and even the decision: the request exists, the remembered attempt
is at most the event's, an exhausted claim holds the last attempt, and nobody calls the
verifier for a request still `REQUESTED`. `FenceInv` holds when identifiers are
distinct: a claim writes holder and count together, so a worker that passes the guard of
its transaction holds the newest attempt of the event, and a decision carries that
attempt. The attempt count then cannot regress, since only such a worker writes it.

*Idempotent write.* The invariant says that a call past its insertion is alone with its
key and that the key has no record, which is what the unique index gives. From it come
one effect per record, and the refinement: each step of the protocol is a step of
`KeyedWrite` or leaves its variables alone. `Commit` is `Write`; `Acknowledge`, `Lookup`
and `Recover` are `Say`, and their answer is true at that moment because a rejection
raised earlier is replaced by the stored response if a record has appeared. `KeyedWrite`
says that an answer is true when it is given; `AInv` adds what it means later. A record
has the payload of the call that wrote it (`RecordsAreOfCalls`) and is never replaced, so
an answer stays true, with one exception: after a rejection a retry may write. It is then
the retry's write and never that of the call that was rejected, because an answer ends
the call. `OneResponsePerKey` follows from `AnswersHold` alone.

*Documents.* That versions form a line is not inductive, since a transaction numbers its
version from a count it made earlier. `TxnsOK` says that what a transaction has found
out stays true until it ends: the document is active, its DTO and its count are those it
read, and its operation is still allowed. `OneWriter` says why: a document is written by
one transaction at a time, by the one that holds its row lock or by the one that creates
it. One lemma (`CommitStep`) serves all commits: whoever writes a document disturbs no
other transaction. The audit theorem and the refinement follow from `TxnsOK`; for the
latter each commit is the operation of `DocumentHistory` of its name, through a lemma on
what `Append` and an approval do to the sequence that `DocumentHistory` sees; the step
that finds the candidate active is `Admit`, and a rollback after it `GiveUp`. That one
operation at a time is admitted on a document is `OneWriter` again.
`StepChanges` sums up what one step may do to one document: keep it, append a version,
approve the last one, remove it, or request a verification. The two parts of
`DocumentsInv` about its history (a version is a correction exactly when the one before
it is approved, and a verification is requested for approved versions only) are not inductive without it:
`HInv` joins them to `LedgerIsCurrent`, that the last audit event shows the document as
it is, from which the chain of audit events follows. `AuditIsTrue` is about one commit,
the chain about what lies between two of them.

*Candidates.* `Shape` says which steps each kind of transaction can be at; `Knows`, what
it may rely on: its row is new and its own, or is active or proposed because it holds
the lock, and a decision has read the row it will change. An update's before image is
only known to be of its type, which is all that the finding below leaves. `OneWriter`
says that a candidate, and an extraction, is written by one transaction at a time; the
two lemmas `CandidateCommit` and `ExtractionCommit` then cover the six commits. For the
refinement each commit is `Serve` of its request, `Begin` is `Ask`, a transaction that
ends without a write is `Drop`, and every other statement stutters. `NoRequestAssumption`
keeps the null value apart from the requests. `StepMoves` says what one step may do to a
candidate (`CandidateMoves`) and to an extraction (`ExtractionMoves`); from it follow
`DecidedRowsStay`, `AfterImagesAreTrue`, the half of the audit property that the finding
below leaves, and `NoOrphanedExtraction`, which needs no lock: a candidate is created
before anything is extracted for it, and its removal keeps the row.

*Tenant access.* `CallOK` collects what the layers have established of a call (its
tenant, a role its caller has held, a permission of that role), which may no longer be
true of the database. `HeldOK` connects the history with the roles of now. `ConnOK`
says that a free connection has no setting and that the connection of a call between its
first statement and its end has the setting of that call; `OneConnection`, that a call is
served by one connection. `WritersAreMembers` is inductive with the foreign key.
`Isolation` joins the two layers. `OutcomeSteps` shows that only the statement of a
transaction answers a call on tenant data with success; that statement runs under the
setting of its own call, and the role that let it through was held in the same tenant.

*Verification, what a client sees.* The audit trail needs the agreement of the rows: the
shortcuts a retry or an exhausted claim takes are guarded by the status they find. One
call per attempt rests on `CallsInv`: no call is counted for an attempt beyond those
claimed, a worker with a claim that has not begun holds an attempt nobody has called for,
and no two such workers hold the same one. It holds with shared identifiers,
since the number of the attempt is part of the claim and not of the worker. For
`ImplementsPromise` an answer that a worker holds is one the verifier has given
(`AnswersInv`), so that each decision is a step of the promise and everything else
stutters. `DecisionsHaveGrounds` says the same of states: a verdict that was given stays
given, and a terminal UPDATE is only reached with one, or with all attempts used up.

*Reads and the page.* A read takes no lock. What it has found was true at a moment since
it began and stays so while the rows change: a mutation changes the status of the current
version of an active document only (`VersionKept`), and that is true of the document from
then on, which `during` takes in. This needs nothing of the candidate, and so it holds
for mutations beneath a removed one. Removals are for good (`RemovalsStay`): what was
hidden when the read began still is. A query that asks for the candidate cannot find it;
the query of a candidate's list does not ask, but the list has found its candidate active
since it began, so that of this candidate only removed documents were hidden
(`HiddenOK`). `BegunOK`, `FoundOK` and `LoadedOK` say this for each stage of a read, and
`LedgerOK` that the ledger has of a read what the read answers. The page of a document (`PageInv`) shows what is true, since an
approval is never taken back; a control has something under way only beside the status it
belongs to, and what came of it is not behind what the page shows, so that an answer, also
one replayed to a retry, brings the page forward. These two theorems are in
`DocumentReadsProofs`, which takes `DocumentView` as the instance `Page`; its rows have
the names of those of `DocumentReads`.

*Forms.* `IInv` of `WebSubmissionProofs` has three parts besides the types. `RequestOK`: a
request that has reached the API, or was answered with success, has the key derived from
its own contents; success was answered only under a key that is written, and no request
was refused as a conflict. `WriteOK`: a write was made for a request that was sent, is
under the key of that request, and is the only one under it (and a request on its way to the API has no answer
yet, or that of the timeout). `FormOK`: a form in
submission waits for a request of its present attempt with the values it shows, and what
it reports as done is a write of its own. A retry then finds the write of its first
request, because a derived key says everything that makes two submissions the same
(`KeyNamesSubmission`, `SameSubmissionSameKey`), and `RetriesWriteOnce` follows from
the uniqueness of keys in the ledger. `NoneIsNoValue` and `NoneIsNoRecord` keep the null
value apart from the writes, the replies, the name of a dialog, and keys and records.

`ApiKeepsItsWord` joins the forms to the API. `IdempotentWrite` is proved to keep
`KeyedWrite`, and the actions `ApiWrites`, `ApiReplays` and `ApiRefuses` are proved to do
nothing that `KeyedWrite` does not allow. A call is a request, made when its route
forwards it, with the derived key for its Idempotency-Key; `Forward` is `Ask`,
`ApiWrites` is `Write`, the other answers are `Say`, and what forms, browser and routes
do besides is a stutter. The writer of a key is given no answer in `KeyedWrite` (the
write says it), and an answer that comes after the server's timeout is a failure. It
follows that the forms rest on no behaviour of the API beyond that promise. The
refinement was also checked by TLC, for one form with two requests, before it was proved.

*Waiting.* Two lemmas, both named `NobodyWaitsInACircle`, state the order of the locks in
`IdempotentWrite` (row, then index entry) and in `CandidateRecords` (extraction, then
profile or candidate): among any number of transactions that wait, one holder waits for
nothing. They follow from which locks are held at which step, in every state; that the
runs find no deadlock shows that the steps are those of the model.

*Session.* `AuthorisedWorkspaces` needs that a page on its way carries what its own
request was told (`RequestOK`), whatever has happened to cookies and memberships since.
`LogoutSparesLogin` needs `PrepareOK`: while the logout that a sign-in form sends is in
flight, the form is not ready, its tab has no login in flight, and the session is the one
the logout was sent for or was started by another tab. Both hold for any number of users
and tabs, of which the run has one each. `IInv` was checked by TLC with one tab and two
tenants, and with two users and two tabs (2.3 million states).

Every inductive invariant, and every statement above that no run checks, was checked by
TLC on an instance of its component before it was proved.

Only model-checked:

- liveness (`ImplementsFairPromise` with the fairness of the promise, `EveryCallEnds`,
  `NavigationSettles`): a proof would have to reason about ENABLED, which is out of the
  prover's reach;
- the two violations, `UpdateAuditsItsChange` and `ApprovesTheVersionShown`, which a
  counterexample settles.

## 5. Findings

`candidates_update_audit`: `docs/api.md:79` says that updates "hash the before and after
public state", and `audit.integration.test.ts:220` expects the before hash of an update
to equal the after hash of the preceding event. `updateCandidate` reads the before image
(`candidate.service.ts:244`) without a lock and its write may then wait for another
update. The ledger then has two events with one before hash, and none that leads to the
state the second update really replaced. The after hash is right, and no column is lost.

`view_approval`: the dialog asks "Approve this version?" and says that approval makes
"this version immutable" (`document-approval-control.tsx:133`). The request names the
document only, and `approveComplianceDocument` approves the version that is current when
it holds the lock. If another user has added a version since the page was opened, that
version is approved, which the approver has not seen; the page then shows it.

Seen while modelling, without a run of their own:

- `docs/architecture.md:73` says that document removal "row-locks the active logical
  document and its active parent Candidate". `lockCurrentDocumentVersion`
  (`compliance-document.service.ts:158`) locks `FOR UPDATE OF document` only. A candidate
  may be removed, and its removal committed, after the removal of a document has looked
  at it; the document is then removed beneath it. The same holds for an approval, an
  addition and a correction, which have the same lock.
- The same paragraph says that documents "beneath removed Candidates are filtered in
  database queries before counts and pagination". `listCandidateComplianceDocuments`
  asks for the candidate in a statement of its own (line 272), and the where clause of
  its query (274-278) does not. A candidate removed between the two has its documents
  counted, listed and audited, also in states that they have reached beneath it.
  `RemovedStaysHidden` shows the limit: a candidate removed before the read began is not
  listed.
- `docs/api.md:321` describes the status filter as one of the current version's status.
  A list is two statements (`compliance-document.service.ts:291`), and a document that
  matched may have another status by the time its version is loaded. What is answered is
  still true of one moment (`DocumentIsOfOneMoment`).
- Refreshes of a history may overlap, and the older answer may come last
  (`compliance-document-detail.tsx:65`; `docs/manual-testing.md:173` expects the new
  version to appear): `listed` may go back, the document shown may not.
- A switch of tenants that fails with 401 drops both cookies (`route-response.ts:22`)
  while the page stays (`session-actions.tsx:45`); the next navigation leads to sign-in.
- The fencing of old claims depends on identifiers that `process.pid` does not make
  unique across hosts. Agreement, finality and the promise do not depend on them.

## 6. Not modelled

- **The total of a page.** A page and its count are two statements that may disagree;
  no text promises agreement, and no property could say more than that.
- **Reads of candidates, extractions and verification requests.** Each is the pattern of
  `DocumentReads` with fewer statements: find, audit, answer. Their permission and
  tenant are in `TenantAccess`.
- **Deadlines of transactions.** That they end is a fault anywhere (`Rollback`,
  `TransactionFails`); how long they take is not.
- **HTTP plumbing, configuration, contracts.** Route registration, problem formatting
  and Zod schemas keep no state; only valid input reaches the services.
- **Hashing and signing.** Passwords, tokens, audit hashes and keys are taken to be what
  they are named for: injective, and not to be forged.
- **Rendering.** Components without state.
- **Tests, seed, scripts.** Read as documentation.
- **Liveness of forms and of the sign-in form.** That a submission or the preparatory
  logout ends rests on one timer each.

Every invariant and every safety property of a step that a run checks is stated by a
theorem, but for those named at the end of section 4. What is left to prove is of two
kinds: liveness, which is out of the prover's reach, and lemmas that join further
components, such as that the operations on rows of `TenantAccess` are the transactions of
`DocumentLifecycle` and `CandidateRecords`.
