# HookScope in TLA+

HookScope receives provider webhooks (Stripe, GitHub), stores them, forwards
them to the customer's destination with retries, and lets the customer inspect,
replay and be alerted about them. This directory holds TLA+ models of its
code, the TLC configurations that check them and TLAPS proofs about them.
All paths below are relative to the repository.

    tlc -workers 2 -config MCReplay.cfg MCReplay
    tlapm WorkspaceProofs.tla

## 1. Inventory

| Component | State it keeps | Operations | Interacts with |
|---|---|---|---|
| Ingestion routes (`apps/ingestion/src/routes`) | rows of failed verifications | token lookup, signature gate, `queue.add` | PostgreSQL, BullMQ |
| Ingestion workers (`workers/`, `services/*-ingest.service.ts`, `queues/`) | jobs in Redis; event, delivery, log and usage rows; S3 objects; `event:<id>` cache | processor (S3, row, cache, usage, forward, outcome), `failed` handler | BullMQ, PostgreSQL, S3, destination, `wh:alert:events` |
| Event replay (`webhook.service.ts`, `webhook.repository.ts`) | the same rows; promises in the API process | retry, batch replay, batch delete | S3, destination, the workers' rows |
| Sessions (`auth.service.ts`, `require-auth.ts`, `apps/web/lib/http.ts`) | refresh tokens in families, the cookie jar, one refresh promise per tab | login, refresh, logout, logout everywhere | the web client |
| Accounts (`auth.service.ts`, `lib/oauth.ts`) | user, codes, reset links, linked identities, avatar objects | register, login, refresh, codes, reset, provider sign-in, link, unlink, avatar, profile | mail, providers, S3, settings pages |
| Alerts and event stream (`lib/alert-evaluator.ts`, `alerts/`, `lib/sse-manager.ts`) | alerts, triggers, the registry of connections | CRUD, evaluation, silence check, stream, send | Redis pub/sub, browsers |
| Billing (`billing/`) | one `Subscription` row per user | webhook handlers, sync, plan change | the payment provider |
| Retention (`event-expiration.service.ts`, `event-cron.service.ts`) | `deletedAt`, log rows | expiry, log cleanup, batch delete | the plans of billing |
| Projects and endpoints | rows with soft deletes, limits, secrets | create, settings, status, delete | routes, billing, console |
| Web routing (`app-shell.tsx`, `onboarding-flow.tsx`, server pages, OAuth callback) | the URL, the cached answer of `GET /me` | gates, guards, redirects, form continuations | sessions, projects |
| Web tables (`events-table.tsx`, `deliveries-table.tsx`, live feed) | query cache, filters, page, selection | filter, page, select, replay, delete, retry | replay, query cache |
| Web console (`app-shell.tsx`, `dashboard-sidebar.tsx`, dialogs, alert forms) | selection, remembered endpoints, dialogs, forms | switch, create, pause, delete, edit | endpoints, alerts, query cache |

What is hard: the workers run beside each other on the same rows, retried after
failures and crashes, and a provider may send one event twice; they write
`WebhookEvent.status` by id alone. Replays run un-awaited in the API process on
the same rows. Token rotation, codes, links, limits and unlinking check and then
act in several calls. Billing webhooks come late, twice and out of order. In the
browser, effects, redirects, handlers that go on after an await, and a cache whose
answers are stale or overtaken each act on their own. `hazards` in `PROJECT.json`
lists each at its line with the properties that answer it.

What makes each component correct is stated by the properties of section 4.

## 2. Plan

Everything planned so far is modelled, checked and, where the prover can reach
it, proved. What could be added, in this order:

1. The handling of a job whose lock was lost while its worker lives (a false stall).
2. Edits of an endpoint's destination between a job's retries, in the pipeline.
3. The volume buckets of the overview and the pages of the deliveries table.
4. The onboarding forms' own state while they are open.

## 3. Modules

| Module | What it is |
|---|---|
| `DeliveryPipeline` | both ingestion workers, their queue and `failed` handler |
| `AtLeastOnce` | abstract: what the pipeline promises for one accepted request |
| `Replay` | extends `DeliveryPipeline` with the API's retries, batches and deletes |
| `AuthSessions` | refresh rotation, families, logout, the interceptor of each tab |
| `Session` | abstract: the life of the session one login opens |
| `Accounts` | the account requests, await by await |
| `AccountPages` | extends `Accounts` with the pages that send them and show the result |
| `Alerts` | alert routes, evaluations, the registry and the pages' streams |
| `Billing` | the provider's subscriptions, webhooks, sync, plan changes |
| `Retention` | extends `Billing` with events, the expiry and the log cleanup |
| `Endpoints` | requests on projects and endpoints beside the ingestion routes |
| `Workspace` | where pages, gates, guards, forms and the callback send the user |
| `QueryCache` | the cache of TanStack Query, as the hooks use it |
| `EventTables` | the feed, the events and deliveries tables over `QueryCache` |
| `Dashboard` | how the console chooses the project and endpoint, over `QueryCache` |
| `AlertRules` | extends `Dashboard` with the alerts tab and its forms |
| `MC...` | instances for TLC |
| `DeliveryPipelineProofs`, `AuthSessionsProofs`, `AccountsProofs`, `ServicesProofs` (alerts, billing, retention), `EndpointsProofs`, `WorkspaceProofs`, `EventTablesProofs`, `ConsoleProofs` | theorems |

`map` in `PROJECT.json` ties each definition to the lines it stands for.

### DeliveryPipeline and the code

The two worker files are the same program; the map names lines of the
Stripe one, and of the GitHub one where it stands for a group of actions. One
action is what a run does between two awaits, and `pc[j]` is the call it
makes next:

| `pc` | Code (`stripe-event.worker.ts`) | Actions |
|---|---|---|
| `putObject` | 34-59, step 1 | `PutObject` |
| `createEvent` | 62-68, `createWebhookEvent` | `CreateEvent`: insert and log, or P2002 and the existing id |
| `cache`, `usage` | 78-95, steps 3 and 3b | `CacheEvent`, `CountUsage`, skipped by a duplicate |
| `createDelivery`, `markProcessing` | 103-112, 224-243 | `CreateDelivery`, `MarkProcessing` |
| `fetch` | 248-278 | `FetchResponds`, `FetchUnreachable`, or `Throw` for `assertSafeDestination` |
| `persist...` | 280-303, 321-357 | `PersistUnreachable`, `PersistFailure`, `PersistSuccess` |
| `publish...` | 306-313, 365-376 | `PublishSuccess`, `PublishFailure` |
| `resolved`, `rejected` | the promise settles | `Complete`, `Reject` |
| `findEvent`, `deadLetter`, `publishDeadLetter` | 124-173 | the failed handler |
| `lost` | the process died, the lock is still there | `RequeueStalled`, `FailStalled` |

`job`, `attemptsMade` and `stalledCount` are BullMQ's fields; `event`,
`deliveries` and `usage` the rows; `stored` and `cached` S3 and Redis;
`received`, `acked` and `alerts` what the outside has seen.

Modelling decisions:

- `Throw` fails any call of the processor, and the failed call had no effect.
  For most calls the other outcome, an effect and then a failure, is the step
  followed by the failure of the next one. For the final transaction it is not:
  `RedeliveryNeedsCrash` is claimed for a transaction that did not commit when
  it throws. A body that cannot be read after a 2xx (line 319) is `Throw` in
  `persistSuccess`.
- Each job crashes by itself. A process that dies with several runs is several
  `Crash` steps in a row; the concurrency limit of 10 is not modelled, which
  only adds interleavings. A worker that is alive but lost its lock (a false
  stall) is not modelled.
- BullMQ (5.77) is external: a stalled job is requeued `maxStalledCount` times
  and then failed, with the attempt counted and `failed` emitted, whatever
  attempts are left. A failed handler that dies is not run again.
- `EventLog` rows are written in the transaction of the row they describe and
  are left out; so are the `version` columns, which are incremented and never read,
  and the one-day TTL of the cache. `userId` always resolves (the
  endpoint's project has an owner).
- `Refused` are the requests whose signature the routes reject:
  `LogVerificationFailure` writes their `failed_<timestamp>` row, FAILED and without a
  payload (`routes/stripe.ts:108-116`). No job is queued for them; the lists show the
  row, and the replay queries find it like any other.
- The only unbounded counters are `usage`, `received` and the length of
  `deliveries`; each is bounded by the attempts and stalls of a job.

### Replay and the code

`Replay` extends the pipeline: its `Next` is a step of a worker, of a replay,
a soft delete or the death of the API process, and both programs write
`event`. A batch is several replays of one request, started one after the other in
any order of its events. `replay[r]` is the call the replay makes next:

| `replay` | Code | Actions |
|---|---|---|
| `idle`, `listed` | `webhook.service.ts` 59-60, 86-91; `webhook.repository.ts` 211-226 | `ListBatch`, `CheckEvent` |
| `readLast`, `createRow` | `webhook.repository.ts` 229-257 | `ReadLast`, `CreateRow` |
| `getEvent` | `webhook.service.ts` 63 (a retry only) | `GetEvent` |
| `getObject`, `fetch` | 133, 147-160 | `GetObject`, `Post` |
| `persist...` | 135, 163, 178, and 70 or 98 | `PersistOutcome`, `PersistThrows` |
| `ended`, `rejected`, `lost` | returned; gave up; its process died | - |

- `RequestThrows` fails a query of the request (the controller answers 500); the
  failed query had no effect. A `ListBatch` that fails changes nothing and is
  not a step. What a batch has started goes on.
- `PersistThrows` is the failure of `updateDeliveryOutcome`, which may have
  committed. `AfterThrow` follows the error through the catches: the one
  around `fetch`, which takes it for a network error, then the one of `retry` or
  `batchReplay`, then `.catch(() => {})`.
- `hidden` stands for `deletedAt` of the event, its endpoint or its project:
  batch delete, expiry, and the deletion of what it belongs to.
- A replay of a refused request gets its row in `Delivery` and fails at `GetObject`,
  because its `payloadUrl` is empty: the row ends FAILED. This is what the code does.
- `ApiCrash` ends every request and replay: there is one API process, and
  nothing takes them up again.
- Replays publish no alerts and count no usage, as in the code.

### AuthSessions and the code

One user, one browser: the tabs share the cookie jar, each has the module's
`refreshPromise` to itself. A refresh is known by the request whose 401 started it;
`call[r]` is the database call its handler makes next (`findToken`, `revoke`,
`create`, `revokeFamily`), so overlapping refreshes interleave between them. A
failed call answers 500; whatever was written before stays. `Disturbed(f)` is what
the properties excuse: a failed call or lost answer, two tabs with one token, a
logout that presents the same token, a logout everywhere.

### Accounts, AccountPages and the code

The requests are registration, login, refresh, codes, resets, provider sign-in, link,
unlink, avatars and profile saves. `at[c]` is the await a request is at, and what it
read before stays as it was; `before[c]` and `overlap[c]` are histories of which
requests ended before it began or ran beside it. The updates of `Promise.all` in a reset
are made in any order, each may fail alone, and `resetPassword` answers only when all
were made.

A refresh of any token that was issued runs here too, call by call (`findToken`,
`revoke`, `create`, `revokeFamily`), and `family` is the first token of its family. It
is here for what it does to a reset: see section 6. The browser's side of it, and
logging out, are in `AuthSessions`.

`AccountPages` puts one tab of a signed-in user in front: the code entry
(`verify-step.tsx`) and the settings. Its requests are those of `Accounts`,
answered call by call; others of the same account come from elsewhere. A request may
fail for the page while the API still works. `Hears` says who is told of an answer:
`mutate` tells only the latest call, `mutateAsync` each, a page that was left none.

### Alerts and the code

A message, a tick of the silence check or a call of the test route starts an
evaluation: it lists the active alerts once and considers them one at a time, each
query and write a step. `Patched` gives a patch the defaults Zod 4 fills in for absent
fields: one that does not speak of `isActive` activates the alert. `Send` writes to
every stream of the registry and drops the dead ones.

### Billing, Retention and the code

The provider's subscriptions change by themselves and each change puts a webhook into
`outbox`, where it stays until answered with 200; a handler is two or three steps
(ask the provider, look for the row, write). `changePlan` reads the plan and row, calls
the provider, and writes. A run of the expiry lists the users with their plans and
then expires user by user, while billing goes on; `held` is the history of the
retentions a user has had since.

### Endpoints and the code

A request reads, checks and writes in the code's own steps: create counts active
endpoints, compares with the plan's limit and inserts; update finds, merges what the
form sends (an empty secret is left out) and writes by id. The requests are those of the
web application: the API itself would store an empty secret if one were sent
(`endpoint.repository.ts:106`, 113), and `SecretIsKept` says nothing of that. The
ingestion routes find the endpoint by its token and verify and queue later with what
they found.

### Workspace and the code

The effects of the shell and of the onboarding run when a dependency changed (`due`);
the user is slower than an effect or a redirect under way (`Rendered`). A handler that
awaited an invalidation goes on before or after the effect of the answer, but before a
navigation lands. A page that lands on another mounts it, and fetches `me` when it is
missing or stale. `Links` is what is rendered to click on: of the onboarding the
steps up to the present one, "Continue", "Skip" or "Go to dashboard", and the logo; a
pending step is no link. The server pages check only that the cookies are there. `lost` and
`unmarked` are histories.

### EventTables, Dashboard, AlertRules and the code

All three work over `QueryCache`: an entry has data, an error or nothing; it is stale
by time, invalidation or a failed fetch; a fetch reads the API at one moment and
arrives at another; an invalidation restarts what is watched, and marks as `overtaken`
the fetch it does not restart (a first fetch, or one off screen).

In `EventTables` one filter stands for the three and the statuses of events are left
out; counts and rows of a list are one read. In `Dashboard` the projects page, the
switchers, the palette, the redirect page and the dialogs each push or replace the
URL, and the shell's two effects resolve what is selected and remembered; a user
clicks only when no effect is due and no navigation under way, but the palette works
over a dialog. (Clicking the breadcrumb to a project while the redirect away from it is
pending would leave "Redirecting to endpoint dashboard..." for good; this is excluded.)
`AlertRules` models the rules for all endpoints; `lost` and `current` are histories:
an answer was lost; the form was opened on a list that was fresh, not overtaken, with
no call under way.

## 4. Runs

| Run | Instance | Distinct states |
|---|---|---|
| `duplicates` | two jobs of one event and a refused request, 2 attempts, 1 stall, at most 2 failures | 1,439,166 |
| `settling` | one job and a refused request, 3 attempts, 1 stall, fair | 94,898 |
| `replays` | a retry of an event, a batch of it and of a refused request, beside the worker | 2,479,603 |
| `sessions` | two tabs, three requests, five tokens, one disturbance, one new login; fair | 302,405 |
| `accounts` | up to four requests on the same rows; pages with two or three | 958,527 |
| `alerts` | two alerts, three evaluations, two streams, one edit, one delivery | 625,300 |
| `subscriptions` | two subscriptions of a user and a user without, two events, three days | 1,518,464 |
| `endpoints` | two API requests and a webhook, three endpoints, limits 1 and 2 | 2,975,303 |
| `workspace` | six clicks or accidents, one failing call, two projects; fair | 428,614 |
| `tables` | two events, pages of one row, four moves; fair | 309,477 |
| `console` | two projects, three endpoints, limit 2, two alerts, three moves; fair | 544,280 |
| `subscribers` | as `workspace`, five clicks; violated, see findings | - |

What they show:

- `duplicates`: an event is counted at most once (`UsageAtMostOnce`); a completed job
  was acknowledged, also when all jobs of an event interleave
  (`CompletedMeansDelivered`, `AllCompletedMeansDelivered`); statuses and alerts are
  backed by rows and jobs (`StatusIsBacked`, `AlertsAreBacked`); only a dead worker
  makes a persisted success run again (`RedeliveryNeedsCrash`); an accepted event's row
  never goes without its payload, and only a refused one's has none
  (`PayloadBeforeRow`). `OutcomesAreFinal` is proved and has no run of its own.
- `settling`: every job settles (`EveryJobSettles`), and the pipeline implements
  bounded at-least-once delivery (`ImplementsAtLeastOnce`).
- `replays`: whoever wrote a status last, a row backs it (`StatusHasDelivery`); a replay
  of an accepted event finds its payload, and one of a refused request finds none,
  never succeeds and leaves the row FAILED (`ReplayFindsPayload`); no number is skipped
  (`NumbersHaveNoGaps`); no success without a 2xx (`SuccessWasAnswered`); who ended has
  an outcome (`EndedHasOutcome`).
- `sessions`: theft detection has a cause (`TheftHasCause`), logging out ends the
  session (`LogoutEndsSession`), refreshing is transparent (`RefreshIsTransparent`),
  a family implements `Session` (`ImplementsSession`), every request settles
  (`RequestsSettle`): the refresh that is itself refused does not wait for itself.
- `accounts`: a code is dead once a later one was sent, unless the two sends overlapped
  (`SupersededCodeIsRefused`); a reset ends every session from before it, except one a
  refresh prolonged while the reset ran (`ResetIsFinal`); `LockedOutNeedsRace`,
  `AvatarIsStored`, and of the pages `PagesTellTheTruth`.
- `alerts`: `OneAlertDoesNotStopTheOthers`, `StreamIsGapless`.
- `subscriptions`: `RowIsOneSubscription`, `ExpiresUnderOwnPlan`.
- `endpoints`: `OverrunIsBounded`, `DeletedEndpointIsSilent`, `SecretIsKept`.
- `workspace`: the redirects end (`RoutingSettles`), in the right place
  (`RestIsUsable`); a completed onboarding stays so (`CompletionIsFinal`).
- `tables`: what the cache takes for fresh shows every deletion and retry the tab was
  told of (`FreshShowsWhatWasTold`); the tables end at the filter typed (`TablesSettle`).
- `console`: the dashboard comes to rest (`DashboardSettles`) showing what is selected
  and remembered (`RestShowsSelection`); a stored alert fits its type
  (`ConfigFitsType`); saving a form pauses and activates nothing (`SaveKeepsActivity`).
- `subscribers`: the callback compares the status with `"active"`
  (`auth.controller.ts:270`), the stored value is `ACTIVE`: with billing enabled every
  onboarded subscriber who signs in with a provider lands on `/pricing`.

Some properties excuse by name a race the code has, so that they say what else must
hold beside it. What they excuse is not claimed: a logout that overlaps a refresh with
the same token leaves a live token (`LogoutEndsSession`; for `ImplementsSession` its
session is still alive), sends of a code that overlap leave both codes live
(`SupersededCodeIsRefused`), a refresh that overlaps a reset survives it
(`ResetIsFinal`), and a fetch that an invalidation does not restart brings the old list
(`FreshShowsWhatWasTold`). `SecretIsKept` is about the web application's requests.

**Bounds.** Two jobs, replays, tabs, requests or handlers on one row are the fewest that
race; a third adds no new kind of conflict where every write is by one of them, and the
proofs remove the bound.

- `duplicates`: two attempts give a first, a last and a retried run; `FailureBudget = 2`
  admits each pair of failures. Symmetry over the jobs is sound: they carry the same
  event and the run has no liveness property.
- `replays`: one attempt and no stall, as a retried run only repeats calls before its
  row; `RaceOnFirstEvent` has the refused request's row written first and replays it when
  the retry and the job of the accepted event are over;
  `WorkerFailsEarlyOrWithDelivery` lets the worker's run fail or crash before the cache,
  and fail with its delivery. Payloads and rows under retried, stalled and duplicate
  runs are explored by `duplicates` (`PayloadBeforeRow`), and `ReplaysFindPayload` is
  proved without any of these bounds.
- `sessions`: `OneEnding` lets the session be disturbed once, and the user log in again
  after a logout. The inductive invariant was also checked without it.
- `accounts`: requests of one kind or of kinds that meet on the same rows, three
  with what fails among them, four where a code or a link is sent and used twice. In
  front of the pages two, three of a code, at most one of them from elsewhere. Requests
  are named in the order in which they begin.
- `alerts`: two evaluations at a time for one alert, or one for two alerts or beside
  edits or deliveries; streams that end, where there are neither.
- `subscriptions`: two handlers at a time while there are no events and no days; then
  one subscription, one webhook, no plan change.
- `endpoints`: two requests of either kind at once, one resumed endpoint, nothing after
  the first webhook that is queued or logged. Symmetry over requests and endpoints.
- `workspace`: six of what the user, the clock and the provider do take the user from
  sign-in through the onboarding into the shell and out again.
- `tables`: two events on pages of one row give a second page, a filter with fewer
  pages and a deletion that empties one. Without the excuse of `overtaken`, TLC finds
  the race that it names, so the bounds reach it.
- `console`: it starts from the pages a user loads - the projects, a project without an
  endpoint, an endpoint at the plan's limit where nothing has come, the alerts - and
  three moves from there. `AlertRules` was also checked with five moves and two live
  alerts.

`CHECK_DEADLOCK FALSE` where the system may stop: all jobs settled, all requests
answered, the user idle at the bound.

**Fairness.** Only the program's own machinery is fair. `settling`: `WF(Queue \/
Processor \/ FailedHandler)` for each job, since workers poll, delayed jobs are promoted,
the stalled check runs on a timer and each await returns, throws or ends with the
process. `sessions`: the handlers, the answers and the interceptor. `workspace`:
`WF(Api)`, `WF(Browser)`. `tables`: the debounce timer, the effect, each query and each
request. `console`: `WF(Progress \/ AlertsRead)`: effects, navigations, answers,
continuations. No user, provider, clock or failure is fair, and no call has to succeed.

## 5. Proofs

TLAPS proves every safety and action property of every passing run, and both
refinements, for any sets of jobs, events, replays, requests, tabs, tokens, streams,
alerts, subscriptions, projects and endpoints and any value of the bounds. The
assumptions are the `ASSUME`s of the modules, which only type the constants and keep
names apart (a retry replays one event, a batch distinct ones; an identifier is not a
request); TLC evaluates all of them. `theorems` in `PROJECT.json` lists the results.

| Module | Theorems |
|---|---|
| `DeliveryPipelineProofs` | `TypeCorrect`, `CompletedIsDelivered`, `RedeliveryFollowsCrash`, `OutcomesStay`, `CountedOnce`, `RowsHavePayload`, `StatusesAreBacked`, `AlertsFollowRows`, `CompletedEventIsDelivered`, `PipelineImplements`; of replays `ReplayTypeCorrect`, `StatusesHaveDeliveries`, `ReplaysFindPayload`, `NumbersAreDense`, `SuccessesWereAnswered`, `EndedReplaysHaveOutcome` |
| `AuthSessionsProofs` | `SessionTypes`, `RotatedTokensAreRevoked`, `RotationImplementsSession`, `TheftDetectionHasCause`, `LoggingOutEndsTheSession`, `RefreshingIsTransparent` |
| `AccountsProofs` | `AccountsAreTyped`, `SupersededCodesAreRefused`, `ResetsAreFinal`, `LockedOutAfterRace`, `AvatarsAreStored`, `PagesAskTheApi`, `PagesAreTruthful` |
| `ServicesProofs` | `RowsAreOneSubscription`, `ExpiryFollowsThePlan`, `StreamsAreGapless`, `EveryDueAlertIsSettled`, `TriggersAreStoredFirst` |
| `EndpointsProofs` | `EndpointTypes`, `LimitOverrun`, `SecretsAreKept`, `DeletedEndpointsAreSilent` |
| `WorkspaceProofs` | `RestingPagesAreUsable`, `WorkspaceIsTyped`, `OnboardingStaysCompleted` |
| `EventTablesProofs` | `TablesAreTyped`, `FreshEntriesShowIt` |
| `ConsoleProofs` | `RestShowsWhatIsSelected`, `SavedConfigsFit`, `SavingKeepsActivity` |

None of the properties is inductive by itself: what a step may write depends on where
its request is, and what a page may show on what is on its way to it. The invariants
say that:

1. *A job alone.* None of the properties is inductive
   by itself, because what a run may write depends on where it is. `JobInv` is
   `Types` with two parts. `QueueInv`: a run is under way or lost exactly while
   the job is active; a job that has not failed has attempts and stalls left; the
   failed handler runs only after the last attempt. `RunOK`: from
   `markProcessing` to the outcome the newest row is PENDING; a run about
   to persist a success was acknowledged; one about to publish a failure has
   persisted it; a settled job's newest row is SUCCESS; and a job with a SUCCESS row
   is settled or has lost a worker. `OutcomeReplacesNewest` and `CreationAppends` say
   what a step does to the rows, and `OthersUntouched` that it leaves other jobs alone.
2. *The jobs of an event.* A step of one job may change
   what the others rely on. `UsageInv`: at most one run may still count an
   event, the one that created its row, and while it may the count is 0.
   `BackingStays`: what backs a status is never taken away; `StatusWrites`: what
   a step writes is backed. `LastWriterInv`: a row that does not say DELIVERED has a
   job under way that has not persisted a success, so that the row says DELIVERED
   when they all have.
3. *Refinement.* `SendInv` bounds `received` by the
   attempts and stalls counted, plus one while the run under way has posted; with
   it and `JobInv` every step is a step of `AtLeastOnce` or a stutter
   (`StepRefines`).
4. *Replays.* A replay only ever changes the row of an event that
   has one (`ReplayFrame`), so `JobInv` and `RowInv` of the workers survive
   (`RowFrameKeeps`); `LastWriterInv` and `StatusIsBacked` do not, and `StatusHasDelivery`
   takes their place. `ReplayOK` ties a replay's place to its row,
   `NumberOK` says that a number read or exceeded is in use. `StatusReplayStep`: a
   replay that overwrites its own outcome overwrites the status with it.
5. *Sessions.* `SessionInv`: rows, holders and calls fit together; a request issues a
   token only after the one it presented was revoked (`RotatedTokensAreRevoked`), from
   which `RotationImplementsSession` follows: the abstract session of a family lives
   while a token of it is live or about to be made. For the three other properties the
   lineage is needed. `BrowserInv` adds that a tab has one refresh at a time, that a
   token that was replaced is in no cookie and one just made is known to nobody else.
   `LineInv`: every family is disturbed, or one line of tokens (`OneLine`): a revoked
   token has its one successor made or being made by whoever revoked it, at most one
   token is unspent, one refresh runs, and whoever is refused presented an expired one.
   Each disturbance, once there, stays; so every step either disturbs the family or
   prolongs its line.
6. *Accounts.* `AccountInv` types the rows and calls and says what the histories mean:
   of two requests under way each overlaps the other, and what ended before one began is
   settled. Over it four invariants, one per property: `CodeInv` (once a later send
   deleted the codes none of an earlier one is left, and no confirmation that began
   afterwards holds one), `ResetInv` (each of the three updates, once made, stays made
   against all but overlapping requests; a token live after the revocation that
   descends from one before it has an overlapping refresh of its family to blame),
   `UnlinkInv` (an unlink past its check leaves a way in or has an overlapping one to
   blame), `AvatarInv` (the object of an upload outlives its wait for the row; only who
   read a URL deletes its object).
7. *Pages.* `PagesAskTheApi`: every step of the pages is a step of `Accounts` or leaves
   its variables alone, so 6 holds behind the pages. `PageInv`: a fresh entry, or a fetch
   that was read and not overtaken, is what the account has, or there is a suspect - a
   request of the entry's writers that the tab has not heard of; `CodeOK` and
   `VerifyInv` follow the code entry through superseded calls.
8. *Services.* `BillingInv` finds the row one subscription because each handler writes
   customer and subscription together; `ListedIsHeld`: the retention a run carries for
   a user is one the user has had since. `EvaluationOK`: an alert of an evaluation is
   before it, at hand or settled; `StreamOK`: a streaming page is in the registry and
   has received exactly what was pushed since it joined.
9. *Endpoints.* `LimitInv` counts room for each create past its check; `SilenceInv`
   follows what a route found to the queue.
10. *Workspace.* `WorkspaceInv` types the state and says what the browser was told of
    the account (`ToldInv`: a company stays), which gives `CompletionIsFinal`. `RestInv`
    adds `AnswersInv` (a null answer is stale, a refusal is for a stranger), `StrangerInv`
    (whoever is unknown for good has no session), `DestInv` and `RefetchInv` (where a
    handler goes, and what it was told before it goes) and one part for each judge:
    `GateInv` and `GuardInv` say that a page whose effect is not due was let in, is being
    sent elsewhere, or waits for an answer that changes the judgement. A redirect that
    lands on the page it left changes no dependency and runs no effect; `GuardInv` holds
    because the guard only ever sends to another page.
11. *Tables.* `CacheInv`: every fetch that was read and not overtaken, and every fresh
    entry, reflects what the tab was told, because the answer that tells invalidates
    first.
12. *Console.* `DashboardInv`: an endpoint has a project that was created, lists show
    what belongs to their project, what is watched has been asked for, and
    `SelectionInv` - the page's two effects ran for the lists as they are now or are due
    again. `ConsoleInv` adds `ListInv` and `FormInv`: the alert list, and the answer on
    its way to it, show the activity of every live alert unless a doubt shows (stale,
    overtaken, a call unsettled), and a current form has no call under way but its own.

The attempts changed the models where a formula was not quite right. `RefreshIsTransparent`
was strengthened. `SaveKeepsActivity` was false beyond the bound of its run: delete an
alert; while the refetch is read, toggle another and leave the tab; the toggle's
invalidation does not restart a fetch nobody watches, which then arrives as fresh; open
the edit form on it and save, and the toggle is undone (`alert-edit-dialog.tsx:59`). The
history `current` now excludes an overtaken list, and the race is named here instead.

**Only model-checked.** `EveryJobSettles`, `RequestsSettle`, `RoutingSettles`,
`TablesSettle` and `DashboardSettles`: liveness under fairness is out of the prover's
reach, `ENABLED` with it. No module declares a `RECURSIVE` operator. The violated claim is
refuted by TLC's counterexample.

## 6. What the code does otherwise than it says

Met while modelling; only the first is a run of its own.

- *Subscribers*: `README.md:232` and the comment at `auth.controller.ts:267`, see above.
- *Delivery*: a duplicate is forwarded again (`docs/appflow.md:52`; worker 103); a job
  may wait for its retry with PROCESSING persisted, after `assertSafeDestination` threw
  (`README.md:324`; worker 248); a job exhausted before its row exists, or failed by
  BullMQ for stalling, is not dead-lettered (`docs/appflow.md:76`; worker 126, 142); a
  later run overwrites DELIVERED (`schema.prisma:24`; worker 144); a replay answered
  with a 2xx is recorded as FAILED when recording fails (`schema.prisma:32`;
  `webhook.service.ts:175`).
- *Accounts*: "force re-login on all devices" (`auth.service.ts:238`): a refresh that has
  passed the check of `revokedAt` (line 88) when `revokeAllUserTokens` runs creates the
  next token afterwards (line 102), so that device stays signed in; `ResetIsFinal`
  excuses exactly such a refresh. "Atomically" (`auth.service.ts:234`, 310) is said of
  calls that are not in one transaction; the link flow is always refused, because its
  redirect URI is the sign-in callback's; `sendOtp` of a verified user answers 200 and
  the page asks for a code that was never mailed.
- *Alerts*: a PATCH without `isActive` activates a paused alert and one without a
  severity resets it (`types/alert.ts:73`, Zod 4); `findActive` runs outside the `try`
  (comment at `alert-evaluator.ts:175`); type or config alone are not validated against
  each other; a stream closed while `requireAuth` awaits stays registered; events sent
  while an EventSource is disconnected are not sent again.
- *Billing*: a stale sync overwrites a newer status, cancelled and failed write
  constants late, a second subscription flips the row, an unknown status becomes ACTIVE;
  free retention is 30 days in the expiry and 7 in the usage report; a canceled row's
  plan is still used.
- *Endpoints*: "This token is shown once" is hidden for the plan's last endpoint and a
  project's first; STRICT without a secret is reachable by an update; `updateStatus` does
  not ask for the limit; endpoints of a deleted project still accept webhooks.
- *Workspace*: a failed `GET /me` leaves the shell at "Redirecting..."; with billing
  disabled `?step=plan` throws while rendering; a checkout's return may come before its
  webhook and end on `/pricing`.
- *Tables*: selecting all compares sizes only; a selection made while a replay is
  pending is cleared by its continuation; more than 100 selected are always refused; a
  deletion may leave a page beyond the last, without pagination; a retry whose row
  unmounted is not invalidated.
- *Console*: a failed endpoint list clears the remembered endpoint and opens the "create
  your first endpoint" dialog; continuations of dialogs push the user away from where
  they have gone since; deleting and pausing do not invalidate the usage, so the limit is
  shown as reached; the settings form and the edit dialog reset typed text when a
  refetch differs; saving a form writes back values as old as its mount.
- *Settings pages*: superseded code submissions are not told, so the page may stay at
  "Verifying..."; an avatar upload's continuation closes the dialog reopened for
  another.

## 7. Not modelled

The listing and statistics queries (they change no state; their bucket arithmetic in
`endpoint.service.ts:105-149` drops the earliest partial hour), payment validation (a pure
function whose result is only stored), which addresses the SSRF check refuses (the check
itself is a call that may throw), rate limits (they only refuse), plumbing and shared
clients (wiring and I/O), landing pages, charts and the component library (presentation),
seeds and tests. Of Web routing, what the onboarding forms keep while they are open; of
the tables, the pages of the deliveries table; of the console, more than one tab.
