# A verification project for the web admin base system

TLA+ models of the parts of the web admin base system (a pnpm monorepo: a Hono
API, a background worker, a React administration console, shared packages) whose
correctness depends on the order of concurrent steps, on failures, on tables that
must agree, or on long sequences of legal calls. TLC checks the models on small
instances; TLAPS checks proofs of theorems about them for every value of the
constants.

## The system

The API (`src/apps/api`) serves HTTP requests. Worker processes
(`src/apps/worker`) run `WorkerRuntime.runOnce` on an interval timer. Both use one
database (SQLite or PostgreSQL) through a small executor, and meet in its tables:
there is no other channel between them. An in-memory copy of the core tables
lives in each API process. The console (`src/apps/web`) runs in browser tabs,
which share the local storage and know the server by its answers only.

| Component | State | Operations | Hard behaviour | Modules |
| --- | --- | --- | --- | --- |
| webhook delivery | `webhook_subscriptions`, `event_outbox`, `webhook_deliveries`, `webhook_delivery_attempts` | subscription create, update, delete; fan-out; claim; send; record; recover; retain | overlapping activations, crashes, late results, stale reads | `WebhookDelivery`, `DeliveryContract` |
| email delivery | `email_deliveries`, `email_delivery_attempts` | request, claim, send, record, recover, cancel, retain, rotate keys | the same, and encrypted content that retention removes | `EmailDelivery` |
| SMTP adapter | the socket, its buffer, the command under way | connect, greet, upgrade, authenticate, send, quit | a server that stalls, breaks off, splits lines | `SmtpDelivery` |
| durable queue | `queue_jobs` | enqueue, claim, complete, fail, recover | double claims, dead letters | `JobQueue` |
| durable scheduler | `scheduled_jobs` | register, claim, success, failure; the next run of a cron expression | double runs, missed runs, boundaries of the calendar | `JobScheduler`, `CronSchedule` |
| distributed tasks | `distributed_locks`, timers | acquire, run, release | activations overlap; a lock expires under its task | `DistributedLock` |
| core persistence, executors | the in-memory store, the promise chain, the open client | persistAfter, persistSync, flush; every operation of the services | memory and database disagree after a failure; ids given twice | `CorePersistence`, `CoreStore` |
| files, import and export | file rows, references, task rows, stored objects | upload, attach, delete, run a task, expire, clean up | a crash between content and row | `ManagedFiles` |
| authentication, users | users, sessions, token store | login, refresh, logout, change and reset of passwords, disable | check and use of a session or a password | `AuthSession` |
| permissions, roles, cache | roles, bindings, overrides, rules, the permission cache | compute a context, change, invalidate | a context computed before a change and cached after it | `AccessControl` |
| data and field permissions | rules of roles | replace, compile, evaluate, filter | rules whose operators a release took away; SQL's unknown | `DataPermissions`, `FieldPermissions` |
| routing and authorization | the manifest, the routers | the middlewares, the lookup of an endpoint's permission | one pattern that answers for another; the world changes meanwhile | `RequestHandling`, `ApiManifest` |
| organizations | organizations, their encoded paths | create, enable, disable, delete, configure depth | reuse of a path, subtree ranges | `OrganizationTree`, `OrganizationForest` |
| announcements | announcements, their targets, the open client | create, update, publish, unpublish, delete | check and write are separate; requests of one process share a transaction | `Announcements` |
| menus, permission metadata | `menus`, `api_permissions`, `permissions`, bindings, grants | edit, seed, synchronize | two writers with rules of their own | `MenuTree`, `MetadataCatalog` |
| module lifecycle, conformance | the registry, statuses, grants, schedules, handlers | plan, apply, bootstrap, refresh, deploy; the command line; the conformance check | memory, tables and worker follow a release at different moments | `ModuleLifecycle`, `ModuleConformance` |
| migrations, first setup | `schema_migrations`; the initialization state | run, look, apply; set up | several operators, killed runs, refusals half-way | `Migrations`, `SystemSetup` |
| notifications, templates | `notifications`, `notification_templates` | request, dispatch, change status; edit | a job delivered twice; a row written whole after a stale read | `Notifications`, `NotificationTemplates` |
| system management | parameters, dictionaries, texts | create, update, synchronize | overlapping edits, the synchronization among them | `SystemSettings` |
| web application | the stores of each tab, local storage, the query cache | login, switch, logout, reload, open a page, change, save | late answers, a list of organizations of another login, what is shown after a change | `WebSession`, `WebPages`, `AssignmentPanel` |

## How the project is built

One module per component has its variables, one action per handler, statement or
callback, its properties and, where liveness is claimed, its fairness. Six
*MC modules* give the constants their values and put components that share no
state side by side for the runs: a behaviour is of one `part`, the variables of
the others stay as they are (a part that is not explored begins in one way only).
The fairness of such a run is the component's own, guarded by `part`. Components
that do share state are composed for real: `Announcements` extends
`OrganizationTree` and interleaves with it, `RequestHandling` and `WebPages` extend
`ApiManifest`, `CorePersistence` contains the executor, `WebhookDelivery` the API's and
the worker's statements.

### Runs

| Run | Parts | Properties |
| --- | --- | --- |
| `webhook` | two events; one event and an administrator who edits | `DeliveriesAreSound`, `ConfigIsCurrent`, `EventuallySettled`, `ImplementsContract` (a refinement) |
| `email_delivery` | deliveries; the SMTP conversation | `AttemptsAreSound`, `ContentIsSound`, `IdempotentReplies`, `OutcomesStand`; `MailIsSound` |
| `worker` | queue; lock; files; cron | `QueueIsSound`, `ImplementsContract` (a refinement), `EventuallySettled`; `LeaseIsKept`, `EventuallyRunAgain`; `FilesAreSound`, `InvalidIsPurged`; `NextRunIsFirst` |
| `saves` | scheduler; saves of the API | `RunsAreEarned`, `EventuallyRuns`; `SavesAreTrue`, `EventuallyAnswered` |
| `auth_session` | sessions at the server; tabs of a browser | `PasswordsAreCurrent`, `EndedForGood`, `DecisionsHold`, `TimedLockEnds`; `TabsAreCoherent` |
| `access` | contexts; requests; records; fields; pages; roles | `ContextsAreSound`, `EventuallyCurrent`; `RequestsAreSound`; `RulesAreExact`; `PagesAreSound` |
| `back_office` | store; modules; tree; announcements; menus; migrations; catalog; setup; notifications; templates; settings; conformance | `ChangesAreKept`; `ModulesAreSound`; `PathsAreAForest` (a refinement); `TargetsAreMinimal`; `MetadataIsSound`; `DeploymentIsSound`; `InboxIsExact`; `EditsAreSound`; `ConformingWorks` |
| `auth_denied` | 1 call at the server | fails: a login under way enables a user who was disabled or locked meanwhile |
| `persistence_overlap` | 2 saves wait for the same one | fails: the second is acknowledged before anything is committed |
| `webhook_overlap` | PostgreSQL claims | fails: two deliveries of one subscription run at once |
| `expired_results` | 2 expired results, batches of one | fails: the first is selected again and again, the second never removed |
| `pending_modules` | releases | fails: a worker runs the handlers of a release that nobody has accepted yet |

The five that fail show where the code and its documents disagree; PROJECT.json's
findings quote both. Deadlock is not checked where a part stops at its bounds.
Several of the properties are conjunctions of named ones, so that each question has
its definition: `MetadataIsSound` is `MenusAreSound` and `CatalogIsSound`,
`DeploymentIsSound` is `HistoryIsTrue` and `SetupIsAtomic`, `EditsAreSound` is
`TemplatesAreSound` and `SettingsAreSound`, `RulesAreExact` is `RecordsAreExact` and
`FieldsAreSound`, `PagesAreSound` is `WebPagesAreSound` and `SavesAreMeant`.

### Proofs

| Module | Inductive invariant | Theorems |
| --- | --- | --- |
| `WebhookDeliveryProofs` | `DeliveryInv` (under `Prompt`), `SerialInv` (serial claims), `FanOutsAreDisjoint`, `EditsAreFresh` and `RowsWereRead` (one administrator) | `DeliveriesSound` and its parts, `KeepsContract` (the refinement), `FanOutsStayDisjoint`, `ConfigHolds` |
| `EmailDeliveryProofs` | `EmailInv` (under `PromptResults`), `RequestInv`; `SmtpInv` | `AttemptsSound`, `ContentSound`, `RepliesIdempotent`, `OutcomesKept`; `MailHolds` |
| `JobQueueProofs` | `QueueInv` (under `Owned`), `GivenUpInv`, `SuccessInv` | `QueueSound`, `KeepsContract` (the refinement) |
| `WorkerProofs` | `LeaseInv` (under `Exclusive`); `FilesInv`; `JobInv` (under `JobOwned`, one administrator); `SaveInv` (one waiting save); `CronInv` | `LeaseKept`; `FilesHold`; `RunsAreEarnedHolds`; `SavesHold`; `NextRunHolds` |
| `AuthSessionProofs` | `AuthInv`; `TabsInv` with `ListsInv` | `PasswordsHold`, `SessionsEnd`, `Decisions`; `TabsHold` |
| `AccessControlProofs` | `AccessInv`; `RequestInv`; `DataTypeOK`, `FieldInv`; `WebInv`, `PanelInv` | `ContextsSound` and its parts; `RequestsHold`; `RulesHold`; `PagesHold` |
| `OrganizationForest` | `ForestInv` | `ForestSound` |
| `BackOfficeProofs` | `StoreInv`; `ModulesInv`; `TreeInv`; `AnnouncementsInv`; `SetupInv`; `MigrationsInv` (append-only releases); `TemplatesInv`; `SettingsInv`; `InboxInv`; `MenusInv`; `CatalogInv` | `ModulesLiveSound`, `ModulesSound`; `TreeIsAForest`, `PathsHold` (the refinement); `TargetsHold`; `SetupHolds`, `HistoryHolds`, `DeploymentHolds`; `TemplatesHold`, `SettingsHold`, `EditsHold`; `InboxHolds`; `ChangesHold`; `MenusHold`, `CatalogHolds`, `MetadataHolds`; `ConformingHolds` |

Every proof goes through the module's type invariant, one step per action and,
under it, one per part of the invariant that the action can disturb. Constants are
restricted by the named assumptions of the component's module only (what is
positive, what contains what); the conditions above are hypotheses of the theorems.
Two of the assumptions are facts about tables the repository writes by hand, and
hold of them because TLC has evaluated them over all of their entries: `TablesAgree`
(routers, manifest and request schemas) and `PagesAgree` (pages, manifest and query
keys). What the theorems add to them is every order of steps.

A theorem states each invariant and each action property that a passing run checks, and
each refinement. Model-checked only: the eight liveness properties (`EventuallyCurrent`,
`TimedLockEnds`, `EventuallySettled` of deliveries and of jobs, `EventuallyRunAgain`,
`InvalidIsPurged`, `EventuallyRuns`, `EventuallyAnswered`), which need fairness and ENABLED and are
out of the prover's reach, and the five runs that fail.

A recursive definition that a proof is about is a recursive function, and what it
computes is found without induction: `LoopExists` (`BackOfficeProofs`) gives the function that a
loop over a list defines, `RecursionExists` (`AccessControlProofs`) the one on parts that are
nested finitely deep, and a least counterexample (`LeastExists`, or a smallest expression)
stands for the induction.

## Webhook delivery

`WebhookDelivery.tla` models one activation of `runOnce` as a *worker*. The
interval timer starts one while an older one still awaits, and several processes
run, so any number may be in progress. A database transaction is one step (of the
shared client that the executor hands to overlapping callers of one process, see
*Assumptions*), unless READ COMMITTED lets another transaction commit between two
of its statements and the code depends on it:

- a claim is a `ClaimScan` (the snapshot of the SELECT) and a `ClaimCommit` (row
  locks, columns evaluated again, UPDATEs);
- a fan-out is `FanOutBegin` (lock the pending events), a `FanOutEvent` per event
  (the subscriptions matching at that moment) and a `FanOutCommit`;
- an update of a subscription is `UpdateRead` (`getStored`, outside the
  transaction) and `UpdateCommit`;
- clean-up is `CleanupSelect` and `CleanupDelete`.

Everything else is one action: `CreateSubscription`, `DeleteSubscription`, `Emit`
(a domain transaction's insert into the outbox), `Respond`, `RecordAttempt`,
`LoseResult` (the transaction of `recordAttempt` fails), `Crash`,
`RecoverStaleRunning`, `CleanupOutbox`, and `Tick`, the clock. Payloads,
headers, secrets, signatures and error texts are left out. Times are counted
from the last change of a row and stop counting where no guard can tell more.

`SerialClaims` says whether claim transactions exclude each other (SQLite's one
writer) or not (PostgreSQL). `RequestBound` is the time within which a worker that
does not crash records what it claimed. Properties marked [prompt] suppose that
it is smaller than the timeout of recovery (`Prompt`). The code gives a request
`WEBHOOK_REQUEST_TIMEOUT_MS` (10 s) against 15 minutes of recovery, but nothing enforces it
when the process or the database stalls: a worker that stalls longer can reopen an
exhausted delivery, because `recordAttempt` names the row by its id alone.

Run `webhook`. Two events for one subscription are the smallest instance in which claims
compete, two attempts the smallest with a retry and a last attempt, two workers
the smallest in which one is late; a recovery timeout of two ticks and a request
bound of one separate "still sending" from "abandoned". Revisions stop at
`MaxRevision` updates, which lets a change follow a change. One administrator
updates at a time, beside one event: two that both read before either writes store two
configurations under one revision.

Fairness: the timer goes on starting activations, the database
answers, the HTTP client answers or times out, time passes, and crashes do not
hit the few statements of a fan-out or claim forever. Crashes while a request is
in flight are not bounded; a delivery still settles because each claim uses up
an attempt and recovery fails the exhausted ones.

### Proofs

`WebhookDeliveryProofs.tla` proves, for all constants that satisfy
`WebhookAssumption`:

- `TypeCorrect`: `TypeOK` is an invariant.
- `DeliveryInvariant`: under `Prompt`, `DeliveryInv` is an invariant. The safety
  properties alone are not inductive: that a result in memory belongs to its row
  (`ClaimsAreOwned`) survives recovery only because the claim in memory is exactly
  as old as the row's `locked_at` (`LeasesAgree`) and is bounded; the attempts stay
  bounded because a waiting row has one left (`BudgetKept`); retention is safe
  because what it has selected stays settled (`PurgingSettled`).
- `OwnershipHolds`, `AttemptsHold`, `HistoryHolds`, `OutcomesAreFinal`, `PurgeIsSafe`
  follow from it.
- `SuccessIsReal` and `OneRunningHolds` need no `Prompt`; the second needs
  `SerialClaims`, and rests on `SerialInv`: the open claim has seen no delivery of a
  subscription that is busy by now.

`DeliveriesSound` puts them together as the run states them. Two theorems need facts about
fan-outs and edits beside them:

- `KeepsContract` (under `Prompt`): the tables implement `DeliveryContract`. Every step is
  mapped to a step of the contract or to none; a fan-out's commit opens what it inserts, and
  that is new because of `FanOutsAreDisjoint`, which `FanOutsStayDisjoint` proves without
  any hypothesis: an event locked by one fan-out is in no other, and one that is published
  is in none.
- `ConfigHolds` (under `OneAdmin`): `ConfigIsCurrent`. An edit under way writes the revision
  after the one it read (`EditsAreFresh`), and the rows of deliveries, and those a fan-out
  holds in memory, were read from their subscription at a revision it has had
  (`RowsWereRead`). Without `OneAdmin` two edits store two configurations under one revision.

Only `EventuallySettled` is left to TLC.

## E-mail delivery

`EmailDelivery.tla` models the life of a row of `email_deliveries` from the API's
idempotent `request` to retention. The API's calls are three steps, because it
reads the row (`RequestLookup`), reads the user and the template (`RequestCheck`)
and inserts (`RequestInsert`) in statements of their own. The worker's actions
resemble those of `WebhookDelivery`, with three differences in the code: a claim
depends on nothing but the rows it locks, so it is one action (`ClaimReady`; the
set it takes is any subset of the claimable rows, because SKIP LOCKED passes over
rows); results are recorded only after every send of the batch has ended, and
one that fails to be recorded loses the rest (`LoseResults`); and a settled row
loses its content, represented by the key it is encrypted with. `Rotate`,
`MigrateScan`, `MigrateRow` and `RemoveKey` are the operator's rotation of keys: the
migration command reads all rows and updates them one by one while worker and
API go on. The model assumes what the design asks of the operator: keys are
removed when no migration is running and no unfinished row names them.

`OutcomesStand` is about every step: what has succeeded, failed or been canceled is
never opened again nor given another outcome, whoever records late, recovers, claims or
migrates beside it. The claim looks whether its users are deleted, but nothing looks
again before the mail is sent, so no property speaks of users deleted by then.

`SendBound < StaleTimeout` is supposed by the properties marked [prompt]. The
configuration does not enforce it: `staleSeconds` may be 60 while each step of an
SMTP conversation may take 120 s, and recovery looks only at `locked_at`. Two
requests are needed for a batch of which a part is lost, two callers and two
contents for the race of two inserts under one key. That an accepted request is
settled in the end is not checked here: the claim, retry and recovery it depends
on have the shape of the queue's and the webhooks', whose runs check it.

`EmailDeliveryProofs.tla` proves every property of the module for any number of requests,
callers, workers, keys and ticks. `RequestInv` needs nothing: whatever two callers insert
under one key, `ON CONFLICT` leaves one row, and what a caller was told agrees with
it. The others need `PromptResults` (`SendBound < StaleTimeout`). `EmailInv` adds that an
attempt under way is exactly as old as its row's `locked_at`, that a row which waits has
an attempt left, that what retention has selected stays settled, and
`KeysStay`: a key that a request or a migration in progress holds is in the ring, which
the operator's discipline gives.

`SmtpDelivery.tla` models one attempt in more detail: `SmtpEmailDeliveryAdapter` as a
conversation of commands, each with a timeout of its own, over a socket whose bytes
arrive in any pieces. `buffer` holds the answers that have arrived and are not
read; `owed` says that the server is to answer; `link` is the connection and whether
it is encrypted. `Answers`, `SaysGoodbye` and `Fails` are the server's and the network's,
`Exits` the process's. Which errors are worth another attempt is the code's table.
The part of the run has every configuration (implicit TLS or not, this host or
another, credentials or not, a server that offers STARTTLS or not) and two attempts:
the second shows what a first one with a doubtful end leaves. `MailIsSound`: a
success was accepted; the server gets a mail twice only after an attempt whose answer
was in doubt; given up is what nothing more can be done for; credentials and
message travel in the clear to this host only. The buffer survives the upgrade to
TLS, writing a message has no listener for errors (the process exits), and the
upgrade's own timeout counts as refused for good; all of that is in the model.

`MailHolds` proves `MailIsSound` for any configuration, number of attempts, and server. That
an answer 250 to the message means this attempt's mail was taken rests on
`AnswersAreCurrent`: apart from goodbyes, which come unasked and say no more than "later",
the buffer holds at most one answer, and it is to the command the client waits for; nothing
owed is left over when the next command is written, although the buffer outlives the upgrade.
`TlsIsSettled` follows the connection through greeting, STARTTLS and the second greeting, and
`AttemptsAreCounted` ties the conversation to the row.

## Durable queue

`JobQueue.tla` models `createDatabaseQueueAdapter`. A worker is one activation of
`processReady`: it recovers stale jobs, scans for the oldest due job
(`ClaimScan`), claims it (`ClaimCommit`), runs its handler, and records the result.
The code's peculiarities are kept: a job is handed to the handler even if the
UPDATE of the claim changed no row; `completeJob` and `failJob` name the row by its
id alone; `failJob` reads the attempt in a statement of its own (`FailRead`); an
error of `completeJob` is caught like the handler's (`CompleteFails`). Job types
and payloads are left out; `Silent` holds the jobs whose failure makes no event.

Two jobs, one of them silent, two activations and two attempts (run `worker`) are
the least with a competing claim, a retry and a dead letter. Overlapping claims and handlers that outlast recovery are left to the theorems:
`GivenUpLast` and `SuccessIsReal` are proved for them too. A job given up by
recovery is not announced; only `failJob` writes `job.failed`.

`JobQueueProofs.tla` proves all the safety properties. `GivenUpLast` and
`SuccessIsReal` hold whatever the timing: the attempt that `failJob` has read is
never above the row's (`GivenUpInv`), and a run that returned is remembered
(`SuccessInv`). The rest needs `Owned` (serial claims; handlers end before
recovery) and `QueueInv`: a claim in progress finds its row waiting, and a claimed
row is exactly as old as the activation that handles it (`ClaimsAgree`), so
recovery cannot take it; from this follows that every step moves a job as
`DeliveryContract` allows (`KeepsContract`, a refinement proved for all
constants).

## Durable scheduler

`JobScheduler.tla` models a row of `scheduled_jobs` as its status, the ticks left
until `next_run_at` and its attempts, and a worker as one activation of
`processDue`. Workers register the tasks of the catalogue whenever they start
(`Register`); administrators create, switch and edit tasks through the API
(`CreateScheduledTask`, `SetScheduledTaskStatus`, `UpdateRead` and `UpdateCommit`). A
claim is a `ClaimScan` and a `ClaimCommit`, which writes the lease into
`next_run_at`. `MarkSuccessFails` is the success that cannot be recorded, or whose
log entry cannot be written, and is then recorded as a failure. What
`computeNextCronRun` returns is any delay from `Shortest` to `Period`. Attempts stop
counting at `MaxAttempts`, with which alone they are compared; events stop at
`MaxAlarms`. `unregister` is left out: no process asks for it.

The code does not keep a task of the catalogue disabled: `register`
(`database-scheduler.ts:111`) writes `status = excluded.status` whenever a worker
starts, although the requirements say that a disabled task does not run
(`web_admin_base_system_prd.md:931`). So `DisabledNeverStarts`, a part of
`RunsAreEarned`, speaks of the tasks that
administrators created.

The properties marked [owned] suppose that transactions are serial and that a run
is recorded before its lease ends and before the next run is due (`Owned`). The
code gives 15 minutes for the first; for a task that runs every minute the second
is an assumption on its handler. They speak of tasks that nobody edits, because
switching a task on sets its next run anew while an old run may still go on.

`RunsAreEarnedHolds` (`WorkerProofs.tla`) proves `RunsAreEarned` under `JobOwned` and one
administrator who edits, for any tasks, workers and delays. `RunsAreLeased` says how far the
lease outlasts the run: what is left of it and the run's age are together more than a
handler may take, so while a task is run it is not due; `TriesAreCounted`, that no attempt is
counted which was not made; `EnabledIsWanted`, that neither a row nor an update that was read
before a change enables what an administrator has disabled.
Two administrators could: one reads an enabled task, the other disables it, and the first
writes back what it has read.

`CronSchedule.tla` models what `computeNextCronRun` returns: the checks of an
expression, its fields as sets of values, and the loop from minute to minute. The
calendar is scaled (2 seconds a minute, 3 minutes an hour, 2 hours a day, weeks of 3
days, months of 2, 3, 2, 4 ... days, the fourth day only every other year, a horizon
of 6 days), so that ends of hours, days, weeks, months and years, the "31st" that a
month lacks, both names of Sunday and the leap day all happen within a few hundred
minutes. A registration starts at every second of the first days, later computations
at the end of a run, after one of three delays. `NextRunIsFirst` compares the loop with
what an expression means, said without it: the next run is the first minute later at
which the expression fires, and there is none only where there is none within the
horizon. Two things a reader of the code should know: a schedule for the 29th of
February may have no run within the horizon, which `markScheduleSuccess` and
`markScheduleFailure` pass on as an error; and `*/1` is not a wildcard when days of the
month and of the week are combined.

`NextRunHolds` (`WorkerProofs.tla`) proves it for every size of the calendar, every
expression and every delay: the numbers a field accepts are those its tokens denote
(`FieldsMean`, which rests on `StepsAreMultiples`), so the loop's test is the meaning
(`MatchingIsFiring`), and the loop stops at the first minute that passes
(`SearchFindsFirst`: of the minutes that disagree there would be a least one, `LeastExists`).
`CronInv` says that a registration's next run was computed from an accepted expression.

## Distributed lock

`DistributedLock.tla` models the row of one key in `locks` and the executions
(*runners*) that want it. `InsertIfAbsent` and `TakeExpiredOrOwned` are the two
statements of `acquire`; `HandlerEnds`, `TimesOut` and `Release` are the boundary
around the handler: after a timeout the boundary ends while the handler goes on
("late"), and when the lease is released it still does ("orphan"). `Crash` leaves the
row behind.

Three runners are needed for a late one, a holder and one that waits. The runners
of a process share an owner in the code, and so do processes with the default
worker name; the properties marked [exclusive] suppose that they do not: of two
executions with one owner the second takes the first one's lease at once.

Fairness: the statements and handlers of a process that is alive end, time
passes, and the process of a runner in `Survivors` does not exit; the others may
exit at any moment, with the lease in hand. That the task runs again is claimed
of a survivor.

`WorkerProofs.tla` proves `LeaseIsKept` for any number of runners
and any timing. The inductive invariant `LeaseInv` says that a runner whose time is
not over holds the lease, with exactly as much time left as it has itself, and
that runners without a lease are late; a lease with time left is out of reach of
other owners (`OthersKeepIt`).

## Core persistence

`CorePersistence.tla` models how an API process with `BACKEND_CORE_STORE=database`
saves its memory in PostgreSQL. A request changes the memory (`Operate`), waits for
`pendingSave`, and starts its save (`StartSave`); a save is a transaction around one
transaction per scope, each of which deletes all rows of its tables (`Delete`) and
inserts those of the memory (`Insert`, one row a step); the event comes last
(`AppendEvent`). `persistSync` chains the save of a request that has been answered
already (`Background`). Of the executor the model keeps that all callers share
`activeClient`: a call that finds it set joins (`Enter`), a client that arrives late
replaces it (`Connected`), and `Release` clears it whoever's it is. Failures are
those of connecting, of any statement and of COMMIT, whose answer may be lost;
`Crash` is an exit and a start, which loads the tables. A request's change is one
row in each of its scopes, so the properties can tell whose changes are where.

`MaxWaiting` is not a bound of convenience: two saves that wait for the same promise
both start when it resolves, the second joins the transaction of the first, and
answers before the COMMIT. With one waiting save at a time the promise chain
serializes saves, and the run `saves` shows that this suffices. The failures
are two because the interesting ones come in pairs (a statement and the next
save's), the exit one because memory and tables agree after it.

A run with two waiting saves (`persistence_overlap`) fails. A save writes all the memory holds, so the change of a request that still waits may
be committed by another save, without the first one's event; only the direction of
`EventImpliesChange` holds. Fairness: the database answers and the process runs.

`SavesHold` (`WorkerProofs.tla`) proves `SavesAreTrue` for any requests, scopes, failures and
restarts, with one save waiting at a time (`MaxWaiting = 1`, the hypothesis that
`persistence_overlap` shows to be needed). The argument, `SaveInv`: one save runs, and the one
that waits does so for it or for a background save in between (`SavesAreOrdered`), so the
client that is set, and the transaction that is open, are its own (`ClientIsTheSavers`);
a transaction that has gone well so far inserts again what it deletes, because the memory
holds what the tables hold (`MemoryIsAhead`), and its request's row in each scope it has
passed (`SavesAreWhole`); after a background save has failed, whatever waits is rejected
(`FailureStops`), so nothing is acknowledged without a COMMIT.

`CoreStore.tla` is the other side of saving: which tables an operation of the services
changes in memory and which it saves. `Catalogue` lists every operation of
`BackendCoreServices` with both; the two do not always agree, and the operations chosen
for the run (`createUser`, `updateUser`, `createMenu`, `updateRolePermissions`) are one of each
kind. The model has the id sequences (kept in memory, read from the tables at a start),
the name checks of `createUser` before the password is hashed and its insert
after it, failed saves, restarts, and a synchronization of modules, which writes tables
beside the memory and then reloads them. `ChangesAreKept`: what was acknowledged
survives restarts in every table it changed, the memory forgets nothing but by a
restart or a synchronization, and two users of one name, once created, block every
save of users until the process starts again (the unique index refuses them, and
nothing takes the second out of the memory).

`ChangesHold` (`BackOfficeProofs.tla`) proves it for the whole catalogue, any selection of
its operations, both dialects and all bounds. Each entry is shown to save every table it
changes for good (`CatalogueIsSound`): an operation whose scopes forget a table fails
there. `StoreInv` adds to what is promised that a change which waits for its save, or is saved,
is still in the memory (`ChangesAreHeld`), so that a later save of the same tables writes it
again; that no row has an id the sequences have yet to give until modules are synchronized
(`SequencesLead`, which a start restores: `HighestIs`); and that creations which wait for
their hash have ids of their own (`ReservedAreTaken`).

## Authentication and sessions

`AuthSession.tla` models the users and sessions in the memory of an API process,
which `AuthService` and `UserService` change. Between two awaits a handler runs
alone, so an action is what a call does from one await to the next, and `calls` holds
what it remembers over the await. The awaits that matter are those of scrypt, which
runs outside the event loop: `LoginBegin` and `LoginFails` or `LoginSucceeds` lie on
either side of `verifyPassword`, `ChangeBegin` and `ResetBegin` before, `PasswordEnd`
after the hash of the new password. The two awaits of `changePassword` are one, because
nothing is read between them but the answer of the first. `RefreshBegin` takes the
token store's copy of a token; `Enter` is the middleware that authenticates a
request, `Handle` and `Logout` are handlers that run after further awaits.

Times are compared with the clock only, so `lockedUntil` is none, ahead or past
(`LockRunsOut`), and a session is late or not (`SessionRunsOut`). A token is its session:
it carries the version its session has. Two ghost fields make the properties
statable: `proof` is the password a session's login was given, `overtaken` marks a
login whose user was locked, switched or given a password between its two steps.

Users do not touch each other's records, so one is enough. `MaxVersion` bounds the
changes of `tokenVersion`, which the code only ever increments: two allow one
session to end by a lock and the next by another; the proofs hold for any bound.
Fairness: the clock goes on, calls end, and the user tries again; the
login is strongly fair because a real process has no bound on calls in progress,
as the model has.

`AuthSessionProofs.tla` proves the three safety properties for any number of users,
sessions and calls. What a token is accepted for is not inductive: a session of a
locked user would come back with the unlock. The invariant `AuthInv` says why it
does not: a session whose version is the user's belongs to an enabled user, whose
password it has shown (`SessionsAgree`), because whatever takes a user out of
`enabled` or changes the password also increments the version; and a login that was
not overtaken is one of an enabled user and right still (`LoginsAgree`). Every action
is shown to be a `Step`: each user keeps its version and stays enabled if it was
(`Kept`), or has a new version and all its logins under way are overtaken (`Renewed`);
each session ages, or is born with what its user has. `StepKeeps` derives the rest.
Only `TimedLockEnds` is left to TLC.

Run `auth_denied` shows the one thing that does not hold: `login` sets the status to
`enabled` after the password was verified, without looking again.

`WebSession.tla` has the tabs of one browser: each keeps token, user, permission codes,
organization and the list of organizations to choose from in memory, all share the local
storage, from which `requestJson` takes the token of every request. Answers arrive after
whatever the user has done meanwhile, or never. A list is named by the login that was
answered with it. `Reload` is `readOrganizations` and `readCurrentOrganizationId`
(`organization.store.ts:51-69`): the stored organization is taken only if the stored list, or
the default where none is stored, has it, and else the first of the list.
`TabsAreCoherent`: what a tab shows belongs to the token it was issued
for, unless an answer overtook a logout or another login (`late`), or the tab was loaded
anew while the stored list did not have the organization of the stored token (`Unlisted`).
There are three ways to that: another tab's logout removed the list and a late answer then
stored a token; another tab's login stored its own list and a late answer another
session's token; or a tab switched the session to an organization of another login's list. The
page then shows one organization under the token of another until the next switch or login.
Further: as long as no other tab
has written the storage, requests carry the tab's own token; and the stored token is one the
server accepts while its session lives, unless the answer to the session's last switch was
lost or came before that to an earlier one. Two tabs, two users, two organizations and two
sessions are the least in which an answer meets another user's session; four calls of
one session (three where there are two) the least in which the answers to two switches
come in the wrong order. A login is answered with any set of the organizations; the default
is one of them. Tabs and users are interchangeable, so the first login that is answered is
one user's in one tab (`FirstOfMany`).

`TabsHold` (`AuthSessionProofs.tla`) proves it for any tabs, users, sessions and calls.
`TabsInv` adds that the session of a login whose answer is on the way is known to nobody
else (`LoginsAreFresh`), and why the stored token is current: it is that of the session's
last switch, or the answer with that one is on its way to some tab (`LocalIsCurrent`).
`ListsInv` adds where lists come from: a switch chosen from the list of its own session
stays in that list (`SwitchesAreListed`), so a stored list of the same login as the stored
token has its organization, unless another list has switched the session (`LocalIsListed`). The
proof found the case of the switches in the wrong order, which three calls did not
reach: two tabs ask for two organizations one after the other, the second answer is
handled first, the first one then leaves its dead token in the storage, and every request
is refused until the next login. The model says when that happens (`Superseded`).
Logging out in the browser is local: the server is not told. What the query
cache holds survives it, and is not modelled.

## Access control

`AccessControl.tla` models what decides a request's permissions: roles with their
codes and rules, `bindings` (`userOrganizationRoles`: the role of a user in an
organization, which keeps its role when it is deleted), the users' `overrides`, the
enabled permissions, and organizations, whose tree is a constant. `Computed` is
what `getPermissionContext` computes from them, and `cache` what `PermissionCache`
holds. A call of `getPermissionContext` that misses goes through `LookUp`, `Derive` and
`StoreEntry`. Every handler of `BackendCoreServices` that can change a context is
an action: it changes the memory and then names the contexts to delete
(`InvalidateUser`, `InvalidateRole`, `InvalidateAll`), collected from the memory as it
is after the change. With the cache in memory the deletions are part of the step;
with the cache in the database or in Redis they are sent (`clearing`) and arrive one
by one in any order with the entries that requests store (`InvalidationLands`), or
fail (`InvalidationFails`). `createRecord` of a user spans two steps, before and after
its password is hashed: the role or the organization may be gone by then.

An entry is in the ghost set `suspect` if a request has stored a context that is no
longer what would be computed, or if its deletion failed. The code lets such an
entry live until its 300 seconds are over (`Expire`).

Contexts do not affect each other, so those of one user in one organization are
enough to look at (`Wanted`), while any user, role and organization may change. The
user is not the first administrator, and becomes a super administrator through
another organization when that is assigned. Two changes let a role or a binding be
deleted and come back between a request's steps. Fairness: calls of the cache are
answered, and the time to live passes.

The process of an API server is one: several processes with caches in memory would
not hear of each other's changes. Restarts are left out: `refreshBusinessModuleMetadata`
deletes all contexts at each start. Contexts of deleted organizations are not
deleted, nor does anybody ask for them: authentication and the change of the
organization demand an enabled one.

`AccessControlProofs.tla` proves the safety properties of contexts and the type invariant
for any users, organizations, roles and requests. The inductive invariant
`AccessInv` adds three things to them: a user who has not been created has no cached
context (`Unborn`), for nothing is deleted when the user is made; whatever names a
role names one that exists (`RolesExist`), for nothing is deleted when a role is made;
and with the cache in memory nothing is under way to it (`NothingUnderWay`). A context
depends on its user, the user's bindings and the roles of the live ones
(`SameContext`). `ChangeKeeps` reduces a change to the question whether the contexts it
does not delete stay what they are; `OneUser`, `OneRole` and `AllUsers` answer it for the
three ways of collecting what is deleted. `OneRole` needs that deleted bindings keep
their role: the users of a deleted role are found by them. `EventuallyCurrent` is left
to TLC.

## Requests and permissions of endpoints

`ApiManifest.tla` is a table of tables: the permission manifest of the APIs, the handlers
of the routers in the order `createApp` composes them, the request schemas of the OpenAPI
document, permission codes, routes and menus, each of which the repository writes by
hand in a file of its own. `RequestHandling.tla` takes a request to any endpoint of
any of them, to any method, and to ids that look like other endpoints, through the
middlewares: activation of modules, session, forced change of the password, the lookup
of the first entry that answers, the permission, and for a file's content the
references and the modules that own them. Between two awaits the world changes: the
session ends, a role changes, a module is synchronized, the owner of a record answers
differently. `seen` remembers all that was true since the request came, because the code
promises no more than a decision on the state of some moment of the request.
`RequestsAreSound`: the handler that runs had its own entry checked (not that of a pattern
before it), the session and the permission were there, whoever was denied lacked the
permission, and the document names the request the handler reads. One change of the
world falls between any two steps; one reference and two modules suffice for a file that
one module vouches for and another does not. HEAD requests are left out.

`RequestsHold` (`AccessControlProofs.tla`) proves `RequestsAreSound` for any number of changes and
references, any modules of the release and any contexts, over the repository's tables.
`TablesAgree` says of them what TLC evaluates for every endpoint: the first entry that answers is
the one of the handler that runs. `RequestInv` adds that what is true of the world now was
seen (`WorldIsSeen`), that each phase was reached past the checks before it
(`ActivationWasSeen`, `CallerWasSeen`, `WaitsForItsPermission`), and that the reference being
examined is one of the file's, active when it was read (`ContentIsExamined`).

## Rules for records and fields

`DataPermissions.tla` models how a role's rules become a predicate and how the database
decides it, with SQL's third value: `Compiled` follows `compile` and its helpers, with
conditions that a release no longer offers, module operators that fail and lists that are
too long compiled to "false". `NothingIsWidened`: a record is shown only if an allowing rule
surely covers it and no denying rule may; the exception the code makes is an `or` of a
denying rule, which denies less when one of its alternatives is gone. `NothingIsLost`:
when all compiles, nothing is missing. Two rules of every shape of expression, with every
owner and organization a record may have, NULL among them, are enough: a third rule
meets the others only by `or`.

`FieldPermissions.tla` models rules for fields, which an update replaces by reviving rows
and adding new ones, under an index that counts deleted rows, and their enforcement in
responses and writes. Lists have up to two rules, equal keys among them, after one
another twice: what is left from the first must not show in the second.

`RulesHold` proves `RulesAreExact` for any expressions nested finitely deep, any values and any
lists of rules. A predicate is what it means: one of the constants `True` and `False`, which
the helpers look for, or one that selects, with its truth for each record. Three facts go from
the parts of an expression to the whole (`ExpressionsSay`): what it selects it surely covers;
what it does not select it surely does not cover, unless an `or` in it was shortened; and when
all of it compiles it selects what it surely covers. `DataAssumption` has from the schema that
`and` and `or` have parts, and from JSON that they are nested finitely deep. For fields
`FieldInv` says that live rows are those of the last list, with the effect of the last rule for
their key (`Follow`), and that a key has one row, deleted or not.

## The console's pages

`WebPages.tla` lists for each route which queries its page makes, which changes it
offers, under which permissions, and which query keys a change invalidates; a behaviour
opens pages one after the other, chooses a row, opens the panel of the shell, reads, changes
and reads again while answers are delayed or lost. The query cache is TanStack Query's,
as `query-client.ts` configures it: `fetches` has, per key, whether a fetch is under way,
whether there is an answer yet, and whether the answer is still true. `invalidateQueries`
starts again what is mounted and has an answer, cancelling what is under way
(`Restarts`); it leaves alone what is not mounted and it joins a first load (`GoesOn`), whose
answer may be from before the change. A component that is mounted joins what is under way
for its key, whoever it was begun for.
`WebPagesAreSound`: every call a page makes is an endpoint that some handler serves, under
the permission the route or the button asks for; routes, menus and manifest agree; and
once nothing is under way, what is shown is what the server has, unless it was missed.
Missed is named in the module: the answer of a first load, or of a fetch begun for a component
that was gone when the change came back, read before that change; and what was shown when
the answer to a change was lost. It lasts until the next fetch of the key. Further exceptions:
the pages of core management offer everything to whoever may view them
(the server refuses), and nothing refreshes the announcement form's organizations. All
pages are checked against the manifest and against each other's refreshes; five that differ in
kind are visited (`Visited`: one list with a panel, a list with a choice whose keys nest, two
lists, a change that refreshes nothing here, a record). Answers stay cached after their
component is gone for one of the keys (`Kept`), the detail of a file, which is chosen,
left and chosen again; a read under way goes on for every key.

`AssignmentPanel.tla` is the editor of a role's permissions, which replaces the whole list:
the query of the role, the panel filled from it once, another role selected meanwhile,
another administrator's save, lost answers. `SavesAreMeant`: a list that is sent by someone
whose page had the present codes changes exactly what was switched. A list may be sent
before any codes were read; it promises nothing.

`PagesHold` proves `PagesAreSound` for any pages visited, answers delayed or lost, roles, codes and
other administrators. That offers suffice is `PagesAgree`, about the tables; what is proved from
it is that whatever is old and not missed is what the change under way refreshes, on whatever
page it was begun (`FetchedIsTrue`),
and that the panel's list is the role's codes with what was switched, and no other role's
(`PanelIsOfItsRole`), whatever was selected, read or saved in between.

## Files, imports and exports

`ManagedFiles.tla` models file rows, references and stored objects under uploads with their
compensation, deletion, attachment by business modules, log exports, module exports and
imports, and the two cleanups. Two files, one task, two activations, batches of one and one
fault (of the storage, of a statement, of a process) put a crash between any two
statements. `FilesAreSound`: what an active row names can be read (but for an upload whose
row was inserted and could not be read back), what is stored is known or was cut off,
results stay until they expire. `InvalidIsPurged` holds under weak fairness of the cleanup
job, which the scheduler starts every day. `FilesHold` (`WorkerProofs.tla`) proves
`FilesAreSound` for any files, tasks, activations, batches and faults. `FilesInv` adds the order
of an upload (`UploadsAreOrdered`), who waits for it (`UploadsAreAwaited`), that a handler's
file is its own and nobody's result yet (`HandlersAreSound`), that no two tasks share a result
(`ResultsAreSeparate`), and that the file cleanup removes only what is invalid
(`PurgedIsInvalid`). `ExpiredIsPurged` fails: `expired_results`. A
task whose worker dies after it was marked `running` stays so: no statement takes it up
again.

## The back office

Each of these is a part of the run `back_office`.

- `OrganizationTree.tla`: paths pack a segment per level into an integer; a subtree is a
  range. It implements `OrganizationForest`, in which a place is a sequence of segments:
  `PathsAreAForest`. The radix is 4 in place of 256, levels 3 in place of 8; segments run
  out, so the last segment and the last level are reached. `ForestSound` (in
  `OrganizationForest.tla`) proves the forest's promises for any number of organizations and
  any depth: `ForestInv` adds to them that what stands has a parent that stands (`Rooted`).
  `TreeIsAForest` and `PathsHold` (`BackOfficeProofs.tla`) prove that the tree implements the
  forest, for any radix, depth and numbers of segments with `TreeAssumption`: decoding undoes
  encoding, the range of a path holds just the paths that begin with it, and a row says the same
  of its place in its path, its level and its segment (`TreeInv`). `TreeAssumption` demands that
  roots have no more segments than children and fit half the radix, as 127 and 255 of 256 do
  (`org-path.ts:3`): the range of the highest root would leave the integers otherwise.
- `Announcements.tla`: requests begin, read and validate, then write, over that tree, in
  several processes with PostgreSQL. A request alone in its process is a transaction, whose
  write is one step (`Write`). Requests that overlap in one process are *crossed*: through the
  `activeClient` of `infrastructure.executor.ts:6-34` the second joins the transaction of
  the first, or goes on outside of any when the first has ended. So their writes are a
  step per statement (`WriteRow`, `DeleteTargets`, `InsertTarget`), what the first rolls back
  takes the second's statements with it, and what the second's failure leaves is committed
  by the first (`EndCrossed`, `Fail`). Two overlapping updates may run DELETE, DELETE, INSERT of a
  parent, INSERT of its child. `TargetsAreMinimal`: no target is inside another, whatever
  requests write one after the other or in several processes, and however the tree has
  grown; what crossed requests wrote is excepted (`mixed`) until a request that is not crossed
  writes the targets anew. Two slots for requests, two processes and three requests, of which
  the first may have made a draft already, let two overlap and a third put right what they left;
  two organizations on two levels are created, the second below the first or beside it
  (`Small`), and stay. A publication
  and an update may both pass their checks and overwrite each other (`announcement.repository.ts:113`,
  `:130`); nothing in the code excludes it and no property is stated. Expiry is left out as data: a
  publication that has expired fails, as any request may. `TargetsHold` proves
  `TargetsAreMinimal`: what waits to be written is minimal too, and so is every row that is not
  `mixed`, whose uncommitted writes a rollback can take back (`AnnouncementsInv`); both stay so because a place is
  never given again and nobody moves (`StillApart`), which is a fact of the forest.
- `MenuTree.tla`: administrators edit menus, the seed command restores base menus, and a
  synchronization writes the manifests' past the service. Menus form a tree, and the seed is
  the way out of every state a synchronization refuses. Two base menus and one of a module
  below them make parents change owners. What is above a menu is the least set closed
  under parents, which needs no recursion. Bindings to APIs are explored
  of one menu (`OneBound`), since no menu's depend on another's.
- `MetadataCatalog.tla`: APIs' and permissions' rows from release to release, with codes and
  endpoints that change places; a synchronization refuses on the unique index, the seed
  does not. Four releases have a renaming, a swap and the way back.
- `ModuleLifecycle.tla`: releases, which of their modules are accepted, permissions, grants and
  dictionary items in tables and memory, schedules, the worker's handlers. Four releases:
  a new module, a changed one that gives up a permission, one that is gone. The command line
  (`module-sync.ts:35-58`, which `docs/business_module_extension_guide.md:165-172` tells the operator
  to run) is a process of its own: `CommandChecks` and `CommandCommits` synchronize with the
  running API's release or the next one, and no hook refreshes the API's memory. From then
  until its next refresh or start the API is `behind`: it still has the removed permissions and
  their grants, and a save of its roles writes the grants back (`restored`).
  `LivePermissionsAreActive` and `GrantsNeedAuthorisation` except these two by name, and
  nothing else. Of the schedules one module's are explored (`OneJob`).
  `BackOfficeProofs.tla` proves `ModulesAreSound` for any releases: `ModulesInv` says
  that what is active was accepted with some release (`ActiveWasAccepted`), that what the accepted
  release ships is active (`RegistryIsActive`), that a synchronization of the API that has
  committed has accepted its release unless the command line followed (`CommittedIsAccepted`), and
  that live grants are of enabled permissions.
- `ModuleConformance.tla`: what modules declare against what API and worker register and
  mount. If `checkBusinessModuleConformance` finds nothing, every declared contribution works
  (`ConformingWorks`). Sources are edited up to three times, which is enough for two wrongs
  that hide each other. `ConformingHolds` proves it for any modules, contributions and edits.
  `ConformanceAssumption` has from the schemas that whatever has a place (`HasPlace`: an API, a
  route) names a permission, and from the prefixes that a place has one namespace.
- `Migrations.tla`: several operators run several releases' plans; runs are killed. The
  SQL of a migration takes effect once and is recorded, and a run that ended well is
  complete. `SystemSetup.tla`: setups overlap at the password's hash, saves fail, the
  process restarts: one is answered, and what says initialized is whole.
- `Notifications.tla`: a job delivered again, a request repeated with its key and a recipient
  who deletes: each recipient has it once, and what was deleted stays away.
- `NotificationTemplates.tla`: an update reads the template twice and writes the whole row.
  Updates that do not overlap add up, mail has no gap, and an in-app notification only where
  its caller left a variable out. The answer of a creation that ignores the channel is left out.
- `SystemSettings.tla`: parameters, dictionary types and texts, written by two managers and
  by the synchronization of texts. Dictionary items have the types' code.

`BackOffice.tla` conjoins the promises of the last modules as the run checks them.
`BackOfficeProofs.tla` proves, beside those of modules, organizations, announcements and conformance:

- `HistoryHolds` (`HistoryIsTrue`), for any runners, releases and kills. A transaction that has
  inserted its row is the only one of that name, ever (`WritersAreAlone`: the primary key
  makes the second wait and fail), so an effect happens once; what a runner has passed is
  applied as its release writes it (`PassedIsApplied`). That a finished run is complete, in
  order, needs that a source's migrations are append-only (`ReleasesGrow`): the
  repository's rule (`docs/troubleshooting_guide.md:15`), and TLC checks it of the run's
  releases.
- `SetupHolds` (`SetupIsAtomic`), for any number of setups, failed saves and restarts: the
  built-in roles let one request through at a time (`SetupsTakeTurns`), and memory and tables
  are each whole or not initialized (`Whole`). `DeploymentHolds` conjoins the two.
- `TemplatesHold` (`TemplatesAreSound`): as long as no two updates of a template overlap there
  is one at a time (`OneAtATime`), which still finds what it checked (`ChecksStand`).
- `SettingsHold` (`SettingsAreSound`): the row an update has read still stands when it writes
  (`RequestsAreTyped`; nothing deletes one), so each type is what was last sent for its columns,
  and each text shows its override or its default, unless the write had been overtaken.
  `EditsHold` conjoins the two.
- `InboxHolds` (`InboxIsExact`), for any requests, repeated jobs and recipients who
  read, archive and delete: every insert respects the unique index (`EachRecipientOnce`), a job that
  commits has gone through its whole list (`OrdersReachAll`), and no later step takes a row away
  (`RowsStay`). That recipients are finitely many is assumed, as a request lists them.
- `MenusHold` (`MenusAreSound`), for any manifests and any number of menus. That no live menu is
  in a cycle is not inductive, since a seed brings deleted rows back: `MenusInv` says of all
  rows, deleted ones included, that no set of them holds the parents of all its members
  (`Grounded`), and that what is live hangs from what is live (`LiveHangs`). An administrator's
  move keeps it by its check; a seed or a synchronization because what it writes hangs from
  entries before it, or as its manifest says. So the menus of a module must not hang from each
  other in a circle: `MenusAssumption` says it, since the validation of references
  (`src/packages/module-sdk/src/reference-validation.ts:58`) asks only that the
  parent exists.
- `CatalogHolds` (`CatalogIsSound`), for any releases whose codes and endpoints are unique:
  the loaded catalogue is never longer than the stored one, and after a seed every entry of the
  release has its row, with its code and endpoint and no other's (`Settled`), until another
  release is deployed. `MetadataHolds` conjoins the two.

## Bounds

Every bound is a constant of its module, in the `.cfg` of the run. Two of a kind
compete (activations, callers, editors, tabs), two attempts are a retry and a last one,
one fault falls between any two steps; where pairs of faults matter (saves, setups) there
are two. Counters that only grow stop at a bound named `Max...` in the guard. Where the data
would explode, one bound is used at a time, as the sections say.

## Assumptions beside the fairness

- The executors of the infrastructure (`infrastructure.executor.ts`, which communications,
  modules and system management use, each with one of its own) and of the worker share one
  `activeClient` among the overlapping callers of a process, as the core's does. What that does
  to transactions is modelled in `CorePersistence` and in `Announcements` only; elsewhere a
  transaction is that of its caller alone, as with one caller per process at a time.
- One API process, but for announcements. Several, each with its memory, overwrite each other's tables
  (`table-writer.ts:21`); that is listed as a hazard and not modelled.
- Transactions of a claim are serial where a property is marked so; SQLite gives it, and
  PostgreSQL does not.
- Handlers, requests and SMTP conversations end before recovery takes their row, where a
  property is marked so; no configuration enforces it.

## Not modelled

- The parser of events and the validations of inputs: pure, and refused before anything
  changes. Generated OpenAPI schemas, contracts' types, field schemas: declarations.
- The event bus: only `publish` is used, and is `Emit` of `WebhookDelivery`.
- The storage, S3, Redis, RabbitMQ and HTTP adapters: what the outside may answer is an
  input of the models; S3, Redis and RabbitMQ are alternatives that the default does not
  start. Counters of the rate limit: no process uses them.
- Rendering, forms' fields, paging, translations of the console; answers the cache keeps
  after a logout.
- Names, titles, remarks, lists and filters of the back office; expiry of announcements.
- HEAD requests; output of the command lines; the schema as such.
- Known, and not a property of any run: updates of a scheduled task that leave out handler
  type or status write back what they read before a synchronization; an update of a text
  that a synchronization overtakes shows the old default until the next one; a pending module's
  grants are lost when a role is saved after a restart; a creation of a template or of
  a dictionary row beyond the listed ones may be answered with another record.
