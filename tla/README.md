# AegisWeb: TLA+ models and proofs

AegisWeb lets AI agents run workflows at vendors' websites under policies, approvals and an audit trail.
This directory models the repository in TLA+: the API (`apps/api`), the worker (`apps/worker`), the queues between
them, the rows they share, and what the web server and a page of the dashboard (`apps/web`) keep of them. TLC
checks each model on a small instance; TLAPS proves the main results for every value of the constants.

Almost every handler of this code reads a row, awaits something, and updates the row by id. Hardly any handler
holds a lock or a transaction over both (the consumption of a refresh token is an exception).
So **every `await` that separates two accesses to shared state is a step boundary in the models**, and the
properties say what is still guaranteed between such steps. Many guarantees hold for calls that nobody overtakes
only; the properties then name exactly what "overtaken" is, and the models mark such calls `stale`.

Contents: [inventory](#inventory) · [modules](#modules) · [runs and bounds](#runs-and-bounds) ·
[fairness](#fairness) · [proofs](#proofs) · [where documents and code differ](#where-documents-and-code-differ) ·
[abstractions](#abstractions) · [not modelled](#not-modelled) · [plan](#plan)

## Inventory

How the parts interact: the web BFF forwards browser requests to the API; the API stores rows in PostgreSQL and
adds jobs to BullMQ (Redis); the worker takes jobs from two queues (`workflow-runs`, `workflow-resume`), drives a
browser at the vendor, and writes back both directly to the database (`markStarted`, receipts, policy denials)
and by calls of the API's internal endpoints (`completeRun`, `failRun`, `createForRun`), authorised by a token of
the job's run. Every part appends to the audit chain.

| component | state | operations | hard behaviour | what makes it correct |
|---|---|---|---|---|
| Run lifecycle in the API (`workflows`, `workflow-runs`, `internal-worker`) | `workflow_runs.status` | `startRun`, `cancel`, `completeRun`, `failRun` | test and update are two database calls; the transition table is not used by `failRun` and `markStarted` | a run that ended stays as it ended; a run reported done was done |
| Approvals | `approval_requests`, and the run's status | `createForRun`, `approve`, `reject`, `expireDue`, `enqueueResume` | two deciders, the sweep and the resume job judge the same row; the job is added before the run is updated, and any of the writes may fail | nothing is submitted without a timely grant; one decision counts; only faults strand a run or a grant, each at most one |
| Job queues | BullMQ jobs under deterministic ids | `enqueueStart`, `enqueueResume`, `enqueueCancel`, `removeStartJob`, delivery, retry, stall | at-least-once delivery, attempts and stalls counted apart, forgotten jobs added again | no job starves; a job that is done has moved its run |
| Worker executor | the callbacks in flight, the vendor's page | `execute`, `executeResume`, `markStarted`, `submitDowngrade`, receipts | crash between the click and the end of the job; a failure handler that fails | at most one submission per delivery; receipts tell the truth |
| Worker run token | one token field in the API client | `setRunToken`, `clearRunToken`, `postJson`, `InternalWorkerGuard` | two queues share the field | a callback that runs alone is never refused while its token lives |
| Audit chain | `audit_events`, a promise chain per process | `record`, `SessionAuditService.record`, `verifyOrganizationChain` | a lock in the memory of one process, millisecond timestamps with random ids, two serialisations | the chain verifies; a verdict does not move |
| Sessions and authentication | `users`, `refresh_tokens`, challenges | `login`, MFA, `refresh`, `logout`, reset and change of password | hashing awaits between test and update; rotation races | a revoked, spent or replaced secret stays so |
| Users and owners | `users.role`, `users.status` | invite, change role, disable, enable, delete the account | the count of owners is a check before the update | an organization keeps an owner; owners answer to owners |
| Web BFF | the session cookie | `proxyWithSession`, `refreshSession`, `logout` | concurrent requests refresh one token, answers arrive in any order | a user with a live session is not logged out; signing out is not undone |
| Dashboard data layer | the cache of queries, mutations in flight | `useQuery` hooks, mutations, `invalidation` | a change succeeds while a list is being loaded, failed or left | a page shows what was changed on it |
| Agents and policies | `agents.status`, policy bundles | pause, resume, revoke; create and update of policies | check-then-act on a status and on a count | revoked is final; one active bundle |
| Policy engine | none (pure) | `evaluatePolicy`, `scoreRisk` | the order of the tests | stricter rules never allow more |
| Credentials and vault | `credentials`, grants | create, update, rotate, revoke, grant, `decryptForRun` | rotation races revocation; versions computed from what was read | a revoked credential is left alone; secrets go to grantees |
| Vendors and workflows | `vendors`, `workflows` | create, update, delete, `startRun` | a chain of readings before each write, each of which may be undone meanwhile | a workflow can be run at its vendor |
| Connectors, browser runtime, action attempts | `action_attempts`, a controlled browser | login, read, download, prepare, submit at three kinds of vendor | anything may throw before or after a click lands | the timeline of a run is true |
| Files and uploads | `files` rows, objects | `uploadScreenshot`, `uploadFile` | an upload quota that nobody awaits | what goes over the quota is noticed |
| Billing | subscription columns of the organization | `createCheckout`, webhooks | webhooks repeated and out of order; two checkouts at once | customer and subscription belong together |
| Rate limiting | counters in Redis or a Map | `RateLimitMiddleware.use` | windows side by side, a full Map, lost answers | less than twice the limit; refusals do not keep a client out |
| Compliance | deletion of accounts | `deleteAccount` | owners counted outside the transaction | an organization keeps an owner |
| Notifications, SSO, organization, preferences, receipts API, configuration, UI | — | — | best effort, single-row reads and writes, or I/O | — |

`PROJECT.json` lists the sources of each, and under `hazards` the line where each hard behaviour bites.

## Modules

| module | models | correspondence |
|---|---|---|
| `RunStatus` | the status enums, `WORKFLOW_RUN_TRANSITIONS`, `isTerminal`, `assertCanTransition` | pure operators |
| `JobQueue` | BullMQ as `WorkflowQueueService` and `WorkerQueueService` use it | one record per job id; an instance is part of `RunLifecycle` |
| `RunLifecycle` | the life of runs across API, queue and worker | `run`, `approval`, `receipt` are rows; `exec[e]` is the callback of queue `e`, `req[q]` an API call; a `pc` names the next database access, and each action is the code from one access to the next. `submitted`, `delivered`, `granted` are read by properties only |
| `ApprovalGate` | what the lifecycle promises: request, grant, submit, report | abstract specification; `RunLifecycle!Gate` is the refinement mapping |
| `AuditChain` | the audit events of one organization | `lock[p]` is the promise chain of process `p`; `events` is ordered as `(createdAt, id)`: a row inserted in the millisecond of the newest lands anywhere among them |
| `Account` | one user's account and refresh tokens | `user` and `token` are rows; `call[c].pc` names the next access; a password is named by the order in which it was set |
| `Requests` | the identities of calls in flight, shared by the five modules below | constants only |
| `Owners` | `users` of one organization | a call is a caller, a target and a `pc`; the guard, the reading, the count and the update are steps |
| `Agents` | agents and policy bundles | as `Owners`; resume and the bundle count are tests of what was read |
| `Vault` | credentials, grants, decryption | `cred[k].version` is the key version and names the payload stored with it |
| `Billing` | the row of an organization, customers, checkouts, webhooks | a subscription is a number that grows with its states at Stripe; a webhook carries the state it was sent with |
| `Workflows` | vendors and workflows, what `startRun` reads | one step per query of `WorkflowValidationService`; `OthersWrite` stands for what `Agents` and `Vault` do meanwhile |
| `Administration` | the five side by side | `service` says which one a behaviour is about |
| `RunToken` | the one `InternalApiClient` of the worker | `runToken` is its field; the guard compares it with the run of the request |
| `Connectors` | one callback at the vendor | an operation of a connector is a script of steps, an action executes one; `done` is what has happened at the vendor, `actAttempt` are the rows |
| `Uploads` | uploads of the runs of one organization | the test of the quota is a second thread of the same call; a failed test ends the process |
| `PolicyEngine` | `evaluatePolicy` | the function as operators; the actions make the rules or the question worse, one change at a time |
| `RateLimit` | the two limiters | `buckets` are the counters; `Tick` is the clock; `spent` remembers what was let through |
| `BrowserSession` | the cookie of one browser | a request carries the cookie it was sent with; answers are kept until they arrive |
| `Dashboard` | one entry of the query cache | `cached` is the entry, `load` the request that fills it, `mutation` the calls; the cache library is external |
| `ApiClients` | these seven side by side | `topic` says which one a behaviour is about |
| `MCRunLifecycle`, `MCAuditChain`, `MCAccount`, `MCAdministration`, `MCApiClients` | instances for TLC | templates, processes, sites, symmetry sets |
| `RunLifecycleProofs`, `RunLifecycleSafety`, `AuditChainProofs`, `AccountProofs`, `AdministrationProofs`, `BrowserSessionProofs`, `QuotaProofs`, `ApiClientsProofs` | theorems | see [proofs](#proofs) |

`Administration` and `ApiClients` put modules that share no state into one instance: `Init` chooses which of them
moves and `Next` leaves the others alone, so the reachable states are the sum of the parts, not the product, and
each part is checked exactly as it would be by itself. Sets of different modules then share model values.

An operator whose comment begins with "Bug:" is no part of a specification. It is the neighbouring definition with
a plausible mistake, kept to show that a property notices it; `PROJECT.json` pairs them under `mutants`.

## Runs and bounds

| run | instance | shows |
|---|---|---|
| `lifecycle_races` | one downgrade run, one approval with or without a deadline, two API calls at once, no fault | types; nothing is submitted without a timely grant; ended runs and decided approvals are final once no stale reading is left |
| `lifecycle_faults` | one downgrade run, two approvals, one API call, one crash or error | a reported downgrade was submitted, the click is not repeated within a delivery, the lifecycle implements `ApprovalGate`, each fault strands at most one run or grant |
| `lifecycle_readonly` | one read-only run, three attempts, three faults | a completed start job has moved its run, every start job ends |
| `lifecycle_progress` | one downgrade run, one approval, one fault | every resume job ends |
| `audit_chain` | two processes, two calls on one and one on the other, one login write, three events, one fault | the chain verifies unless something unordered was written; a verdict never moves; nobody waits for ever |
| `account` | three tokens, two backup codes, two calls, two passwords, one more reset link | rotation happens once; dead passwords, spent codes and disabled users stay so |
| `administration` | two calls at once on three users; on one agent and two policies; on one credential, two grantees and two vendors; on two vendors and a workflow; two customers, two subscriptions and a webhook | what holds of owners, bundles, credentials, subscriptions and workflows for calls that nobody overtakes |
| `api_clients` | two runs and two queues on one client; every template at every connector; two uploads; every policy and question over two sites; three clients of a limiter; two requests over three sessions; every list of the dashboard with two changes | whose requests are refused, whether a timeline is true, what passes a quota or a limit, that stricter rules allow no more, what answers do to a cookie, that a page shows what was changed on it |
| `doc_terminal`, `doc_submit`, `doc_approved_ends`, `doc_audit` | the smallest instance that shows it | a sentence of the documentation refuted by what the code does |

Why the bounds are enough:

- Runs of one organization do not meet except through the worker's queues, and each queue is served by one
  callback at a time: a second run only delays the first. One run with two approvals has the start callback and
  the resume callback at work at once, which is all the concurrency the worker has. Two API calls are the least
  that race with each other and with the worker; the third would have to race for the same row again.
- `MaxAttempts` is 3 in the code; 2 is the least that has a retry and a last attempt. The start jobs run with 3.
  `MaxStalls` is BullMQ's default 1. `MaxFaults` bounds crashes and errors: every handler can be cut at every step.
- A broken link of the chain takes two events, and to see that the verdict stays takes a third. Two calls of one
  process compete for its lock; a third on another process has a lock of its own.
- Two children of one refresh token take three tokens. Dead passwords are compared with the current one only, so
  two passwords suffice; an invited user goes through three (the placeholder, which is 0, and two real ones).
- Three users are the least where two owners act on each other while somebody else is there; two calls are the
  least that race. `MaxChanges` bounds what other services write to one workflow's agent and credential, of which
  one write after a reading is enough to make the call stale. `MaxVersion` 3 allows two rotations of one credential,
  `MaxState` 2 a subscription that changes after it was sold.
- `Connectors` needs no bound: scripts are finite and everything may be cut short anywhere.
- Two uploads of 1 to 3 bytes over a quota of 3 for the run and 4 for the organization reach every case of the test:
  within both, over one, over the other, and over only because of a row that came after the reading.
- Two sites, one below the other, tell a domain from its subdomains; two actions and two signals tell what is
  listed from what is not; amounts 0 to 2 lie below, at and above each limit.
- A Map of two buckets and three keys is the least that is full; windows of two ticks may lie side by side.
- Three sessions are a login, its rotation, and one more login or rotation; two requests are the least that refresh
  the same token. Two changes and one list are the least where one change is reported while the list is loaded for
  the other; the seven lists are checked each.
- The theorems do not depend on any of these bounds.

Runs that declare a symmetry set check invariants and properties of single steps only, for which it is sound; the
runs with `~>` declare none. Deadlock is not checked for the lifecycle, the chain and the administration: there the
system does stop, when every run has ended or the calls and bounds are used up.

## Fairness

`FairSpec` of `RunLifecycle` is weak fairness of each API call that has begun, of each callback that has begun, of
taking a job for each queue and job, and of BullMQ's stalled-job check. The code justifies each: a handler is a
chain of awaits that end, a BullMQ worker polls while it runs, and its stalled check is a timer. Nothing is
assumed of users (they may never approve), of the clock (a deadline may never pass), of faults, or of jobs being
forgotten. One action per job is fair because BullMQ hands out waiting jobs in order.
`FairSpec` of `AuditChain` is weak fairness of the clock and of each call at the head of its lock; a call behind
the lock must be carried by the calls before it. The other modules have safety properties only.

## Proofs

TLAPS proves each theorem listed in `PROJECT.json` for any number of runs, approvals, calls, writers, processes,
users, agents, policies, credentials, webhooks, vendors, tokens, requests, uploads, clients, mutations, attempts and
faults, and for any limit, quota and window. The only assumptions are the `ASSUME`d facts on constants of the modules
concerned (`LifecycleAssumption`, `AuditAssumption`, `TokenAssumption`, `AccountAssumption`, `OwnersAssumption`,
`AgentsAssumption`, `VaultAssumption`, `BillingAssumption`, `WorkflowsAssumption`, `BrowserAssumption`,
`PolicyAssumption`, `ActionsAssumption`, `LimitAssumption`, `UploadsAssumption`), which TLC evaluates.

- **`RunLifecycleProofs`**: `TypeCorrect`. `TypeOK` is not inductive: a resume job gets its run from the approval
  row and a decision in flight is written to the row it names. `RowsInv`, `QueueInv`, `ExecInv` and `ReqInv` add
  that rows, jobs and calls name each other consistently.
- **`RunLifecycleSafety`**: the submission properties, `LifecycleImplementsGate` and `CompletedJobsLeaveNoRun`.
  `SafeInv` adds where a callback is: past the approval check its approval was granted; before the click it has one
  delivery more than submissions; about to report, it has submitted. The refinement maps each action to a step of
  the gate or a stutter under this invariant. `StartedInv` says that a start callback past `markStarted` has left
  the queued status behind, which is what a completed job rests on.
  `EndOfRunIsFinal` and `DecisionIsFinal`: no step leaves a settled run or a decided approval otherwise, by the guard
  of each action that begins a write and by what the calls in flight have read.
  `FaultsStrandAtMostOne` counts: every step but a crash or an error leaves both sets of stranded rows as they are or
  smaller (`NothingStranded`), and those add one element to one of them (`OneStranded`). `PlacesInv` is what this rests
  on: a resume job that was taken was delivered, a decision in flight writes the run its request was made for, and
  only a start callback puts a run to wait.
- **`AuditChainProofs`**: `ChainAlwaysVerifies`. As long as nothing unordered was written, one process holds the
  lock, the call about to create an event is its holder, and what it has read is still the newest event.
  `LocksAreQueued` has each call in its process's queue exactly once, whatever fails. `BreaksLast`: a row goes
  behind the first broken event, so the verdict of the verification stays.
- **`AccountProofs`**: `PasswordsKnown`, `RefreshesNameTokens`, `OneReplacement` and `CodesRead` say what a call in
  flight knows about the rows it has read; from them follow the single rotation of a token and the three
  properties of what stays dead, spent or shut out.
- **`AdministrationProofs`**: for `Owners`, a call that is not stale sees the target and the other owners as they are,
  so the last owner goes to a stale call only. For `Agents`, whom a fresh call is about to pause or resume is not
  revoked, and an agent whom it is about to give an active bundle has no other. For `Vault`, `CallOK` says of each
  call that its credential exists, that a fresh one has found it unrevoked and knows its version, and that a
  decryption has seen what there is now. For `Billing`, no row, event or webhook is ahead of Stripe, a fresh checkout
  that creates a customer has found none, and a fresh webhook is not behind the row. For `Workflows`, `FlowInv` says
  of each call what it has read so far and that it is still so unless the call is stale; a step that writes rows keeps
  it because it marks every call for which something has changed. `EachService`: a behaviour of `Administration` is
  a behaviour of each service, so `AdministrationIsSafe` states all of this of the specification TLC checks.
- **`BrowserSessionProofs`**: the invariant says where a session that is over may still be: in the cookie with the
  answer on its way, in an answer that has not arrived, or lost.
- **`QuotaProofs`**: what is summed up. `MapThenSumSet` is defined by recursion over the subsets of a set; that it adds
  one element at a time, follows a change of one summand and splits over two parts is proved by taking a smallest
  subset for which it does not (`SmallestSet`), since the subsets of a finite set are well-founded. `LimitIsKept`
  rests on `KeyOK`: a live counter counts the requests let through since its window began, up to the limit, and what
  was let through before, within the length of a window, is less than the limit. `OverrunsEndTheProcess` rests on
  `UploadOK`: what the test of an upload has read is the sum of the rows unless a row was stored since, a test that
  has passed was right, and an overrun shows in a reading made or to come. `CleanupBuckets` keeps its keys by a
  recursive function because the provers cannot expand `SelectSeq`; `LiveKeysOf` says what it returns.
- **`ApiClientsProofs`**: an undisturbed callback finds its own token in the client; `Stricter` relates two policies and questions, each step of the engine is in it, and
  `evaluatePolicy` is monotone along it; `Marked` says of a list that lacks a reported change that it is invalid,
  and on show either loading without having passed the change, or failed.
  `TimelineIsTrue` is not inductive either: it holds because of the order of steps in every script. `Fits` says what a
  step may follow (an act its attempt, a completion its act, a completed login its acceptance, a report its
  completion), `TimelineInv` that the state is what some set of steps has left (`LeftBy`) and that each step left fits
  it and the steps before. `ConnectorsSound` proves of each operation of each connector what the executor relies on
  (`LogsIn`, `Operates`), and `ScriptFollows` puts the scripts of the four templates together from that alone: a
  fourth connector needs only its own lemma. `EachClient` and `ClientsAreSafe` are as for the administration.

Only model-checked: the liveness properties (`StartJobSettles`, `ResumeJobSettles`, `RecordSettles`), since fairness
and ENABLED are out of the prover's reach, and the refuted sentences. Every invariant and every action property of
the passing runs is the statement of a theorem.

## Where documents and code differ

Refuted by a run:

- `doc_terminal`: "Workflow terminal states cannot mutate." (docs/BACKEND_IMPLEMENTATION_PLAN.md:2437).
  `markStarted` writes `running` by id over a run that was canceled after `findExecutableRun` read it.
- `doc_submit`: "Retries must not repeat approved destructive actions unless idempotency marker confirms not
  executed." (:1406). The worker has no such marker: a job redelivered after a crash clicks again.
- `doc_approved_ends`: an approved run completes (docs/MVP_BACKEND_ACCEPTANCE.md:35). `approve` adds the resume job
  before it writes `running`; when the job is faster, the run stays `running` for ever.
- `doc_audit`: "Audit event hash chain verifies." (docs/BACKEND_IMPLEMENTATION_PLAN.md:2436).
  `SessionAuditService` hashes keys in insertion order, the verification in sorted order.

Present in the models, without a run of their own:

- Two deciders who both read `pending` overwrite each other ("Approved/rejected/expired approvals cannot be decided
  again.", docs/PHASE_17_COMPLETION_NOTES.md:30); what does hold is `SettledApprovalIsFinal`.
- An error between the approval row and the queue leaves an approved request without a job (:35 of the same
  notes, "enqueues a resume job"). In the same way a start is cut between row and job, a cancellation between the
  removed job and the row, a rejection or an expiry between request and run, and the start callback between the
  waiting run and its request. `FaultsStrandOne` says that nothing else does this, and that one fault strands one row.
  It does not count a run left `running` (see `doc_approved_ends`) or a run whose start job has used up its attempts.
- `failRun` moves a queued run to `failed`, which the transition table does not allow
  (docs/PHASE_15_COMPLETION_NOTES.md:28).
- A run ended by cancellation, rejection or expiry has no receipt ("Receipt is generated for every terminal run
  state.", docs/integration-guide.md:59): only the worker writes receipts.
- `markPermanentFailure` has no caller in `apps/`: a job that used up its attempts leaves its run as it is ("Worker
  marks failed after permanent error.", docs/BACKEND_IMPLEMENTATION_PLAN.md:1413).
- The comment at workflow-executor.service.ts:67 has the run token live as long as the work; with two queues the
  callback of one clears the token of the other. `RefusedOnlyIfDisturbed` says how far this goes.
- Two audit events of one millisecond are walked in the order of random ids, which may break the chain.
- The table of invalidations is said to "never miss invalidating an unrelated list that depended on the same row"
  (apps/web/lib/data-layer/mutations.ts:17). It does not follow the names of agents that other lists show, nor the
  names of vendors on runs and approvals, nor the audit events that each change adds; and a list that is being loaded
  for the first time may be shown without the change until it is stale by age. `OwnWritesAreShown` says what is left.
- `assertUploadWithinQuota` is called without `await`: an upload over the quota is stored, and the rejection nobody
  handles ends the process. `OverrunEndsProcess` says when.
- The attempt of `prepareDowngrade` is never marked completed, and `submitDowngrade` marks its attempt completed
  whatever the vendor answered.
- `resetPassword` makes a user active by id, also one who was disabled while the password was hashed ("Disabled
  users cannot log in.", docs/PHASE_4_COMPLETION_NOTES.md:148).

## Abstractions

Lifecycle: a delayed job is a waiting job. The three templates with a vendor are two: read-only (invoice download,
renewal check) and plan downgrade; the noop template is enqueued by tests only. Login, navigation, screenshots,
action attempts and heartbeats write nothing the properties read (a heartbeat writes `stateJson`). The agent's
status at a resume is a free choice, and the template test of a resume is left out, since jobs carry the template
of their run. An internal API call in flight when the worker dies finishes before the job is delivered again (the
job's lock lives 30 s). Only resume jobs are forgotten: a start job is added once and nobody consumes the cancel jobs; a stall of a worker
that is alive is left out. The `return this.handle...Failure()` in a `catch` is not awaited before `finally`, which closes
the browser only. The worker leaves out `expiresAt`, other callers of the endpoint may set it, hence
`Expiries`. The sweep is one call per approval. A request refused because of a disturbed run token appears in
`RunLifecycle` as a fault.

Audit: the hash of an event is its creation number, which collides with nothing; `stable` says that the stored hash
is the one the verification recomputes. The insert of a dead process landing after its restart, and clocks of two
processes that differ, are left out. The map of locks that never shrinks (its identity test compares different
promises) has no effect on order.

Token: the outcome of the guard is taken when the header is read. A token is the run it was issued for, and its
signature is not modelled.

Account: tokens that expire are refused and make no step; the life of reset links is not modelled, and an invite
link is a reset link. A login takes the row as read, so the challenge is under way from then on. MFA enrolment
and e-mail verification are not modelled; the access tokens revoked in the memory of one process are in
`BrowserSession`.

Owners: the role "member" stands for approver, auditor and developer. Invited owners count as owners for
`assertNotLastOwner`, and `enableUser` activates anyone, as in the code. Agents: the policy status "inactive" is
draft or archived. Vault: payload and key version are stored together, cryptography is left out. Billing: the status
and price of a subscription are left out.

Workflows: every template logs in, so a credential is always named; there is one agent and one credential. The
database's unique index on vendors includes those deleted softly while `assertNoActiveDuplicate` ignores them; rows
have identities here and addresses are left out. An update of a vendor touches columns nobody reads before a write.

Browser session: the API acts before the BFF's `fetch` throws or does not act at all. `refreshSession` takes an answer
whose body cannot be read (`response.json().catch(...)`) for one without a session and clears the cookie; the model
loses an answer as a whole only, and no property depends on this case. Uploads: bytes are what
`decodeUpload` estimates; a handler that fails otherwise may leave an object without a row. Policy engine:
`evaluatePolicy` serves the API's evaluation endpoint; the worker decides by the fixed table of `WorkerPolicyClient`,
which is in `Connectors`. Rate limit: a request takes no time, an expired counter is the same as none, Redis keeps
its counters over a restart, a lost answer may be counted again.

Connectors: decisions are recorded for every act but enforced for the submission only, as in the code; the worker
never marks an attempt failed; a popup or an address that is not allowed throws after the click has landed.
Receipts and what follows `completeRun` belong to `RunLifecycle`.

Dashboard: an age that passes `staleTime` or `gcTime` may do so at any time; two retries are any number while
a component waits. What is left out of `Reads` is named there; `evaluate` of a policy changes nothing. Fixture mode
makes no requests. `start-workflow-flow.tsx:175` starts a run with `apiPost` beside the
mutations of `mutations.ts`, so no list of runs is invalidated by it; the model has the changes of `mutations.ts` only.

## Not modelled

Each component outside the table of modules is in `PROJECT.json` with the reason. Most lines that are not mapped are
presentation (screens, lists, forms and mappers of `apps/web`), seeds, fixtures and generated code, configuration,
logging, metrics and health. Organization, preferences, receipts and notifications are single-row reads and writes
or best effort; SSO is a stub: it answers that it is disabled, and starting a login throws `NotImplementedException`.

## Plan

1. An abstract specification of the audit log (an append-only sequence) that `AuditChain` implements while nothing
   unordered is written.
2. MFA enrolment and e-mail verification in `Account`: `verifyEnrollment` tests a code against the secret it has
   read, hashes the backup codes and then writes by id, so `enroll` or `disable` may replace the secret in between
   (apps/api/src/auth/mfa.service.ts:33).
3. `Connectors` composed with `RunLifecycle`: the receipt tells of the attempts what the timeline says.
