# Verification of the notification service

TLA+ modules, TLC configurations and TLAPS proofs for the push-notification service in
`src/`: a FastAPI backend, Celery workers over RabbitMQ, PostgreSQL, a simulated channel
provider and a React console. Paths below are relative to `src/backend/app/` unless they
start otherwise.

## 1. The system

| Component | State it keeps | Operations | Talks to | What is hard |
|---|---|---|---|---|
| Sending API (`application/sending.py`) | `dispatch`, `delivery`, `delivery_transition` rows | `send_template` | rows; `io` queue | one commit per row, then an enqueue outside any transaction |
| Delivery worker (`tasks/sending.py`, `application/delivery.py`) | the locals of each task; `idempotency_key` rows | `dispatch_fanout`, `deliver`, `sms_poll` | rows, `io` queue, provider | redelivery, crashes, state read in one session and used in another |
| Delivery repositories (`adapters/persistence/*_repo.py`) | the rows above | `create_queued`, `record_sent`, `record_failed`, `confirm`, `confirm_by_provider_ref`, `claim` | PostgreSQL | reads without locks, writes by primary key |
| Webhook confirmation (`application/confirmation.py`) | none of its own | `confirm` | rows; called by the provider | callbacks early, repeated, lost |
| Resilience (`application/resilience.py`, `adapters/resilience/breaker.py`) | a breaker per destination and process | `run` | provider | retries times breaker times threads |
| Provider (`provider_sim/main.py`, `adapters/channels/*`) | outcome of every accepted send | send, status, callback | webhook | accepts and times out; one callback, never repeated |
| Stats report (`application/reporting.py`, `stats_config.py`, `tasks/reporting.py`) | `stats_report_config`, report deliveries | set frequency, tick, claim, cycle | rows, `cpu` and `io` queues | check-then-act on the anchor, cycles of several processes, aggregation under writes |
| Accounts (`application/accounts.py`) | `user_account`, `email_token` | register, verify, login, request and perform a reset | mailer | check-then-insert, check-then-mark, half-done requests |
| Templates, contacts (`application/templates.py`, `contacts.py`) | `template`, `contact`, `template_recipient` rows | add a contact; create, update, delete a template; copy it on a send | rows | statements of READ COMMITTED transactions that overlap, row locks |
| Smoke check (`application/smoke.py`, `tasks/liveness.py`) | `liveness_completion` rows | publish a ping per pool, poll, read once more | both pools, rows | a deadline against a late row, rows of other checks, a part that fails or is silent |
| Health endpoints (`application/readiness_aggregate.py`, `adapters/probes/*`) | none | `/livez`, `/readyz`, `/health` | database, broker, workers | probes one by one while things change; a probe that never answers |
| Web console, session and history (`src/frontend`) | the stored token and its copy, the query cache | probe, login, logout, list, poll, send | API | answers that arrive after the session or the list changed |
| Web console, send detail (`SendDetailDrawer.tsx`, `SendQueryService`) | the data of each send's query | open, close, poll; list the rows, read their transitions | rows | a view put together in several sessions, a poll driven by what it fetched |
| Web console, dashboard | the pages read so far | load | API | offset pages over a list that grows |

What makes each part correct, and where it is stated:

* **Delivery**: a record moves only along `queued -> sent -> delivered | failed` and
  `queued -> failed`; one task at a time sends it; calls to the provider stay within the
  retry budget whatever is redelivered; what validation refuses is never sent; the outcome
  recorded is the provider's, for the reference the row keeps; everything that is
  committed and handed over is attempted in the end.
* **Resilience**: the breaker opens exactly after the configured streak, lets one trial
  through at a time and leaves a failing destination alone for the whole timeout; the two
  mechanisms together give the caller a bounded number of calls and an end.
* **Reports**: every account gets one personal report per cycle, administrators one global
  one; counts are those of users' sends and current; claims are an interval apart; what is
  due is claimed, what is claimed is carried out.
* **Templates**: recipients belong to the owner of a template that exists; no SMS that is
  too long is stored or sent, whatever two saves add up to; the recipient sets of two saves
  are not mixed; requests that wait for each other do not wait for ever.
* **Console**: a list that shows work in progress
  catches up by itself; a send that was accepted appears on the list that is shown. The
  drawer of a send shows cards that do not contradict themselves, does not stop asking
  before all is final, and does not stay behind. The
  chart counts what the load could know, bracketed by its start and its end.
* **Health**: a smoke check that succeeds had its own pings run, one that fails blames no
  pool whose row was there in time; a healthy report saw everything up; both end.
* **Accounts**: one account per address; state changes only through a mailed token of the
  right purpose; a spent token is refused.

## 2. Modules

```
Lifecycle  <- implemented by -  Pipeline  EXTENDS  DeliveryWorker  EXTENDS  DeliveryStore
    |                              |
    |                              +--> PipelineProofs -> MCPipeline
    +--- instantiated by SendDetail -> SendDetailProofs
Attempts   <- implemented by -  Pipeline and Resilience -> ResilienceProofs
Templates -> TemplatesProofs      Health -> HealthProofs
Reporting -> ReportingProofs      Accounts -> AccountsProofs
Dashboard -> DashboardProofs      Console
MCPipeline, MCReporting, MCAccounts, MCTemplates, MCSendDetail: instances for TLC; MCPipeline
extends PipelineProofs, because the runs check the invariant of the proofs (`Inductive`) too
```

**DeliveryStore** holds the four tables and one operator per commit of a repository. An
operator is the commit only; a SELECT that comes before it in a repository function is a
step of the caller, because the session holds no lock on what it read.

**DeliveryWorker** is the `io` pool. `job[w]` is what thread `w` is doing: a program
counter, the delivery, and the locals that survive to a later step. Every repository call
and every HTTP exchange is one step:

| Code | Actions |
|---|---|
| `dispatch_fanout` | `BeginFanout`, `FanoutPublish` |
| `deliver` / `DeliveryService._deliver_one` | `BeginDeliver` (row, no-op unless queued, validation), `Claim`, one of `CallAccepted`, `CallTimedOut`, `CallTransient`, `CallRejected`, `CallRefused` per attempt, `RecordRead`, `RecordWrite`, `EnqueuePoll` |
| `sms_poll` / `SmsPollService.poll_once` | `BeginPoll`, `PollAnswered`, `PollPending`, `PollError`, `ConfirmWrite` |
| Celery, RabbitMQ | `Crash` (acknowledged early, so the message is gone), `Redeliver` |

Taking a message and the task's first SELECT are one step: nothing another process can see
lies between. `record_sent` and `record_failed` read `from_status` and then write without
looking at it, hence two steps. A call that times out may have been accepted
(`CallTimedOut`) or not (`CallTransient`). The provider decides the fate of an accepted
send when it accepts it; `PollPending` is the answer `pending` of one that has not
released its decision. `invalid_format` also stands for `invalid_device_token`, which
differs in the text alone.

**Pipeline** adds the API process (`StartSend`, `SaveDelivery`, `EnqueueFanout`,
`AbortSend`) and the webhook (`ReceiveCallback` is the SELECT, `ApplyCallback` the COMMIT,
`CrashHook` the death of the request between them; `LoseCallback`, `RepeatCallback`).

**Lifecycle** is the abstract specification of a delivery, as its readers see it: a row
appears queued with its first transition (`Create`), its status moves along the edges of
`domain/dispatch.py` and not before all recipients of the dispatch have their rows (`Move`,
`Whole`), each move leaves a transition, and a second writer of a final status leaves one
more (`Repeat`). `LifecycleSpec` in Pipeline instantiates it with the rows; that is how
Pipeline and SendDetail meet: the one implements it, the other builds on it.

**SendDetail** composes the rows, the reads of `GET /sends/{id}` and the drawer. `RowStep` is
any step of Lifecycle once the dispatch is committed (`Accept`); `ListDeliveries` and
`ReadTransitions` are the sessions of `SendQueryService._view`, one for the rows and one for each
timeline; `Open`, `Close`, `Poll`, `Receive` are the drawer; `Fetch`, `Lose` and `Collect` are what
TanStack Query (external) does with a query: one fetch at a time, one retry, data kept when
a fetch fails and dropped when nobody has looked for a while. Transitions come in commit
order; the query sorts them by `at`, the start of their transaction, which differs only if a
transaction that begins first reads what the other one commits.

**Health** models the two ways to ask whether the service works. A smoke check is `Publish`
(twice), `Loop` (the condition), `Poll` (the read), `Last` (the read after the deadline) and
`Raise`; `Tick` is its clock. A request to `/health` starts its probes (`Ask`); `Probe`,
`CountPongs` or `Expire` give each its results, `Report` is `gather`; one to `/readyz` has a
single probe and no limit. `Take` and `Ping` are a worker at a ping, acknowledged before it is
run. A subsystem may go down (it refuses), fall silent (`hung`) and recover; a worker that
fails loses the pings it has acknowledged, and a broker that fails may deliver again what
is being run: the table's unique constraint makes that second row no row. `inTime` and
`wasUp` are history.

**Resilience** models `ResiliencePolicy.run` for one destination: threads, the breaker of
pybreaker (external: `call` holds its lock during the wrapped call, an excluded error
counts as an answer), time in ticks, restarts. **Attempts** is what a caller is promised: at
most `MaxAttempts` calls in a run, then `sent` or `failed`, unless the thread dies. `Result`
and `Count` map the threads of Resilience to it, `RunResult` and `RunCount` the tasks of
Pipeline. That both implement it is how the two fit together: Pipeline lets a refusal happen
at any attempt, and Resilience says when it does.

**Reporting** models the cadence (`SetFrequency` validates and reads the clock,
`SetInterval` commits later), Beat, `TakeTick`, `CheckDue` and `Claim` (the two sessions of
`claim_if_due`), the three reads of the cycle (`ReadUsers`, `ReadGlobal`, `ListAccounts`),
`CreateReport` / `EnqueueDeliver` per recipient, `FinishCycle`, and `CutShort`. Report
deliveries enter the `io` pool like any other; here `ReportSent` stands for that whole
path, because only its `sent` row matters to the aggregates (which must not count it).
`set_interval` is an upsert abstracted as one commit. `claims` and `finished` are history; a
claim records after how many claims its check ran (`after`), and so which it could see.

**Accounts** models each API request as a process: `Register` / `Create` / `Issue` / `Mail`,
`RequestReset` / `Issue` / `Mail`, `Consume` / `MarkConsumed` / `Apply`, and `Fail` at any
step. A request's name stands for what it creates. Login reads a row and changes nothing.

**Templates** models the statements of the repository's sessions. PostgreSQL is external
and READ COMMITTED: a statement sees what is committed when it starts and waits for a row
that another transaction has locked. `Begin` is validation, the check of the recipients and
`session.get` (`Load`); the check has a session of its own, but contacts keep their owner
and are never deleted, so that no step in between could matter. Of an update, `Write` is the flush of the
changed columns before the `DELETE` (no `UPDATE` when nothing changed), `Unlink` the `DELETE`
of the recipients, `Awake` its end after a wait, `Link` the `INSERT`s with the COMMIT; of a
delete, `Remove` and `Cascade`; of a send, `Load` and `Resolve` read the columns and the
recipients in two statements. The locks are those of the template row (`lock`) and of deleted recipients
(`Deleters`). `WaitsFor` says whom the statement of a request waits for, and every statement is
guarded by it. `Rollback` is every end without COMMIT, `Deadlock` the one that PostgreSQL picks of
two requests that wait for each other.
A recipient named twice in a request, which the primary key refuses, is left out: `wanted`
is a set.

**Console** is one browser tab. A request is asked, served and answered in three steps, so
that any answer may come after a login, a logout or a reload; `Lose` fails it. `storage` is
localStorage, `session` the copy of AuthProvider, and a 401 clears both whoever asked
(`SignOut`). TanStack Query is external: a fetch under way is joined by a mount (`Fetch`),
dropped and made again by an invalidation unless it is the first one (`Invalidated`), tried
again once, and its data outlives page and session. Other tabs and pages are left out.

**Dashboard** is `loadDashboard`: pages by offset of a list to which sends are added at the
head (or one behind it: `created_at` is when a transaction began), the cap, the retry of
the whole load, and `aggregate`. `first`, `low`, `high` and `born` are history, and so are the
rows (`got`) and the load (`scan`) that `result` keeps beside the aggregate.

### Variants

A definition introduced by `Variant:` is no part of the model. It is the definition after
it with a bug such code could have, kept to show that a property can fail:

| Variant | Of | What it breaks |
|---|---|---|
| `ClaimKeyTwice` | `ClaimKey` | `SingleSender` |
| `BeginDeliverUnvalidated` | `BeginDeliver` | `ValidationDecides` |
| `ClaimIgnored` | `Claim` | `CalledWhileQueued` |
| `RetriedOnceMore` | `Retried` | `AttemptsBounded` |
| `CallAcceptedFirstRef` | `CallAccepted` | `OutcomeIsProviders`, `Inductive` |
| `CallRejectedUncaught` | `CallRejected` | `EventuallyAttempted` |
| `PollPendingFails` | `PollPending` | `LifecycleSpec` |
| `SaveDeliveryLate` | `SaveDelivery` | `NothingStranded` |
| `ReceiveCallbackLoosely`, `ReceiveCallbackUnanswered` | `ReceiveCallback` | `OutcomeIsProviders`, `HistoryIsAPath` |
| `ApplyCallbackUncommitted` | `ApplyCallback` | `CallbackDecides` |
| `EnterUnlocked` | `Enter` | `OneCall` |
| `RefuseWaits` | `Refuse` | `RunEnds` |
| `HealthyForgetful` | `Healthy` | `OpenAfterStreak` |
| `SystemErrorUntimed` | `SystemError` | `LeftAlone` |
| `TransientOnceMore` | `Transient` | `AttemptsSpec` |
| `DueAfter` | `Due` | `DueIsClaimed` |
| `ClaimCatchingUp` | `Claim` | `Spaced` |
| `ReadGlobalOfAll` | `ReadGlobal` | `CountsAreCurrent` |
| `CreateReportStrictly` | `CreateReport` | `ClaimsFinish` |
| `EnqueueNewest` | `EnqueueDeliver` | `ServedExactly` |
| `CreateUnindexed` | `Create` | `OneAccountPerEmail` |
| `FindAny` | `Find` | `ChangedByToken` |
| `MarkInMemory` | `MarkConsumed` | `SpentIsRefused` |
| `SaveUnchecked` | `Save` | `RecipientsOwned` |
| `WriteUnchecked`, `WriteDeferred` | `Write` | `SmsFits`, `WritersNotMixed` |
| `RollbackHolding` | `Rollback` | `SomeoneGoesOn` |
| `NoneFinal` | `AnyInProgress` | `CatchesUp` |
| `Joined` | `Invalidated` | `SentIsShown` |
| `PageFailsKeeping` | `PageFails` | `CopiesBounded` |
| `PageSkewed` | `PageAt` | `CountsBracketed` |
| `ExhaustedEarly` | `Exhausted` | `WindowCovered` |
| `AllInProgress` | `InProgress` | `StopsComplete` |
| `ReceiveRefreshed` | `Receive` | `ViewConsistent` |
| `LoseWithData` | `Lose` | `CatchesUp` |
| `PollAny` (with `AnyCompleted`) | `Poll` | `VerdictTruthful` |
| `LoopUntilCompleted` | `Loop` | `CheckEnds` |
| `CountPongsOnly` | `CountPongs` | `HealthyIsTrue` |
| `ExpireSingles` | `Expire` | `ReportEnds` |

## 3. What TLC checks

| Run | Instance | Shows |
|---|---|---|
| `PipelineEmail` | one dispatch to a good and a missing address, 2 workers, 2 webhook requests, 2 attempts, one redelivery, one repeated callback, one fault, fair | `SingleSender`, `AttemptsBounded`, `ValidationDecides`, `OutcomeIsProviders`, `HistoryIsAPath`, `CalledWhileQueued`; without the fault, `EventuallyAttempted` and `CallbackDecides` |
| `PipelineSms` | SMS to a good and a rejected number, 2 workers, 2 attempts, 3 polls, two redeliveries, one fault | `Inductive`, the invariant the proofs use and that implies the first five of `PipelineEmail`; `NothingStranded`; `LifecycleSpec`, the refinement |
| `ResilienceShared` | 3 threads, 2 attempts, `FailMax` 2, timeout 2, 4 runs, one restart, fair | `OpenAfterStreak`, `OneCall`, `LeftAlone`, `AttemptsSpec`, `RunEnds` |
| `ReportsSafe` | 2 processes, an administrator and a user who registers during the run, sends of the user and of reports, no cycle cut short | `ServedExactly`, `CountsAreCurrent` |
| `ReportsSolo` | 1 process, the cadence changed or disabled, a cycle cut short, a clock that has room for several periods, fair | `Spaced`, `DueIsClaimed`, `ClaimsFinish` |
| `AccountsSafe` | 5 requests, 3 of them open at a time, 2 addresses, a fault, an expiry | `OneAccountPerEmail`, `ChangedByToken`, `SpentIsRefused` |
| `TemplatesSafe` | 4 requests of 2 users on one template, 3 of them open at a time, 2 contacts, lost connections | `RecipientsOwned`, `SmsFits`, `WritersNotMixed`, `SomeoneGoesOn` |
| `ConsoleLive` | one user, 2 logins, 2 sends, a lost request, fair | `CatchesUp`, `SentIsShown` |
| `DashboardScan` | pages of 2, cap 4, up to 5 dispatches, a failed page | `CountsBracketed`, `CopiesBounded`, `WindowCovered` |
| `SendDetail` | one send to 2 recipients, up to 3 transitions each, 2 failed requests, fair | `ViewConsistent`, `StopsComplete`, `CatchesUp` |
| `HealthChecks` | 2 smoke checks at once, or a request to `/health` beside one to `/readyz`; one failure of a subsystem, fair | `VerdictTruthful`, `HealthyIsTrue`, `CheckEnds`, `ReportEnds` |

Why the bounds suffice. The rows of different deliveries never meet except through a
fan-out and the pool, so one delivery under load and one that is refused show every
interaction; a race takes two actors on one row, so two workers and two webhook requests;
with two attempts a send that timed out, accepted or not, is followed by another. One redelivery puts two tasks on a delivery, two redeliveries three or two
overlapping chains of polls. For the breaker, three threads are one in the call, one
waiting and one that comes after; a streak of two is reached by one thread or by two. Two
processes suffice for cycles that overlap; `Spaced` needs several periods and is checked
with one process, over a clock in which two to three of them fit (the theorem holds for any
number of processes). For accounts, three open
requests are two that race and a third that made their token. Templates never meet each
other, so there is one; four requests are one that creates it and three that overlap on it:
two saves and a send or a delete. In the console a second login is what an old answer can
meet, and a second send what an old list lacks; a user of another name would add only
rows that are not his (see below). The dashboard's constants keep what matters of 100 and
2000: the cap is a multiple of the page, the list outgrows both, and two pages are enough for
a shift between them. It has one hour, because all hours are counted by the same sum. Of a send's drawer two
recipients are one that is final and one that is not, or one listed and one to come; three
transitions are a whole life, with a repeat in place of the last; two failures are a fetch
lost with its retry. The time limit of a smoke check is one tick: any number of polls comes
before it and the last read after. What a check does is not seen by a request to `/health`
nor the reverse, so the two are not run beside each other.

Deadlock checking is off where the system really stops: when finitely many sends, runs,
requests or checks have been worked off. It is on for Reporting, where Beat never ends (the bound on
waiting ticks never blocks, because a process can always go on).

### Fairness

* Pipeline: a running task keeps executing and a waiting message is taken by some idle
  thread (Celery's consumer loop); a started request goes on; a webhook request is served.
  Users need not send; crashes, losses, repetitions and redeliveries need not happen.
  `WF` is per queue entry, because RabbitMQ's queue is FIFO and does not starve one.
* Resilience: `WF(Run(t))`: a thread goes on, and every call ends because the HTTP client
  has a timeout (`provider_http.py`). Tick is not fair: no run waits for the clock.
* Reporting: `WF(Beat)` and `WF(ProcStep(p))`: Beat is a singleton with a timer
  (`tasks/celery_app.py`), the prefork pool takes ticks. Administrators owe nothing.
* Console: `WF` for the server that handles the request of a list and for the timer of the poll; `SF`
  for taking its answer, because a reload, a refresh or a send
  drops the request under way and asks again: only a user who does so faster than answers
  come, for ever, could prevent it. Users need not do anything.

* SendDetail: `WF` for the server's steps, for taking its answer and for the timer of an open
  drawer. Deliveries need not move, users need not look, requests need not fail.
* Health: `WF` for the next step of a check and of a request, for the clock and for
  `wait_for` (the event loop). No worker, broker or data store is fair: `CheckEnds` and
  `ReportEnds` hold although nothing comes back, and name what they do depend on.

### Where documents and code part

The run `BugDuplicateSend` checks a statement of `specs/003-notification-management/data-model.md:177`,
that idempotency guarantees at most one accepted send per delivery, and TLC's counterexample
is an execution of the code: a timeout after acceptance is retried, and neither side
deduplicates.

Modelling met other places where the code does less than a document says or one might
expect. The steps are in the models; no property claims the contrary.

* *Confirmation.* Two callbacks of one send may both pass the SELECT of
  `confirm_by_provider_ref`, and both write and append, although
  `specs/003-notification-management/data-model.md:178` lets none overwrite a terminal state; the
  outcome is the same. A callback that outruns `record_sent` is answered 204 and gone, so the
  delivery stays `sent`; an error of the status endpoint ends an SMS poll chain
  (`PollError`). The provider's callback carries no reason, so a delivery that failed
  after it was sent has none.
* *Delivery.* `application/resilience.py:57` says that a failed claim means a prior attempt
  already delivered; a worker that dies after the claim leaves the row queued, its key
  taken, and nobody ever sends it. `record_failed` may be appended twice for a refused
  address (two copies of `deliver`).
* *Breaker.* `tasks/deps.py:36` has the container, and with it the breakers, built once per
  process. The threads of the `io` pool that start together may each build one
  (`get_worker_container` checks and sets without a lock); from the next task on they share
  the one that was stored last, which is the case that Resilience models.
* *Reports.* `specs/004-admin-stats-report/research.md:200` says that `claim_if_due` advances
  the anchor atomically. It checks and writes in two sessions, so that two processes whose
  checks overlap claim one period and both run a cycle. `advance_anchor` writes the time of its tick over a change of the cadence made
  since the check, so that a report may fire less than an interval after a change, or
  after reporting was disabled, which `specs/004-admin-stats-report/spec.md:159` excludes. The
  global report may count a send that no personal one has, because they are two queries; a
  cycle cut short is not made up for.
* *Accounts.* Two overlapping requests may both use one token, and a failure between mark
  and change spends a token for nothing; the second of two racing registrations is answered
  500 rather than 409; a registration that fails after its first commit leaves an address
  that can neither register nor ask for another verification mail.
* *Templates.* A send may copy the text of before and the recipients of after an update
  (FR-030 asks for a snapshot at send time). An update that changes only the recipients takes
  no lock, so that two of them merge their sets, or one is answered 500. Two
  updates that change different columns both take effect.
* *Send detail.* The drawer polls "while open and non-terminal" (`SendDetailDrawer.tsx:2`). A
  view read after the dispatch was committed and before its first delivery was has no
  recipients and so nothing in progress: the drawer says that there are none and does not ask
  again until it is opened anew. `StopsComplete` and `CatchesUp` speak of views with recipients.
* *Smoke check.* `specs/001-system-liveness/contracts/smoke-check-cli.md` gives exit code 1 the
  meaning that at least one row did not appear in time, and has the polling wrapped in
  `asyncio.wait_for`. The last read cannot make the check succeed, so that it may fail with no
  pool missing, both rows there before the deadline; and a read that never returns holds the
  check (`CheckEnds` excepts a silent data store or broker), because the deadline is looked at
  only between reads. The second `apply_async` may fail after the first was published: the
  check ends with an exception, and the row of the first is written all the same.
  `GET /readyz` has no limit of its own (`ReportEnds`).
* *Console.* The query cache outlives the session: the next user to sign in on the tab is
  shown the rows of the one before until the list is fetched, and a fetch begun with the old
  token is joined by the new page. The 401 of an old request ends the session that a login
  has stored meanwhile. A send accepted during the first load of the list may be missing
  until the next fetch, for an invalidation does not cancel a first load (`Owes` asks for
  a list that was loaded before).

## 4. What is proved

TLAPS proves, for every number of dispatches, deliveries, workers, requests, attempts, polls,
users, contacts, templates, checks, subsystem failures, accounts and processes of the report,
pages, caps and sends of a dashboard and every bound on faults, under the
assumptions named in the modules (`StoreAssumption`, `WorkerAssumption`, `PipelineAssumption`,
`ResilienceAssumption`, `TemplatesAssumption`, `DetailAssumption`, `HealthAssumption`,
`AccountsAssumption`, `ReportingAssumption`, `DashboardAssumption`; all
of them say that constants have their types, that limits of attempts and failures are at
least 1, and that "no delivery", "no reference", "no user" and "no request" are none. Two say
more: the accounts of Reporting are finitely many, however many, because their rows are added
up; and the dashboard's cap is a multiple of its page, as 2000 is of 100 in `Dashboard.tsx`):

* **PipelineProofs** `InvariantHolds`: `Spec => []Inductive`, and from it `TypesCorrect`,
  `OneSenderAtATime`, `BudgetPerDelivery`, `RefusedNeverSent`, `RecordedIsProviders`,
  `NobodyLeftBehind` (`NothingStranded`) and `HistoriesArePaths` (`HistoryIsAPath`): every
  safety invariant the runs check. `ImplementsLifecycle` and `ImplementsAttempts`: Pipeline
  implements Lifecycle and Attempts. `CallsOnlyQueued`: the action property
  `CalledWhileQueued`. `FinalRowsStay`: the action property `FinalRowStays`.
* **ResilienceProofs** `OpensAfterStreak`, `OneCallAtATime`, `RestsWhileDown` and
  `KeepsPromise`: the breaker's properties, and that Resilience implements Attempts.
* **TemplatesProofs** `Invariance` and from it `TypesCorrect`, `RecipientsStayOwned`,
  `SmsAlwaysFits`, `WritersNeverMixed`: `TypeOK`, `RecipientsOwned`, `SmsFits` and
  `WritersNotMixed`, without the bounds of `TemplatesSafe` on open requests and rows; with an
  invariant about snapshots (`DeletersExclusive`) also `NoKnots`: `SomeoneGoesOn`.
* **SendDetailProofs** `Invariance` and from it `TypesCorrect`, `CardsAreConsistent` and
  `StopsWhenComplete`: `TypeOK`, `ViewConsistent` and `StopsComplete`.
* **HealthProofs** `Invariance` and from it `TypesCorrect`, `VerdictsAreTrue` and
  `HealthyMeansUp`: `TypeOK`, `VerdictTruthful` and `HealthyIsTrue`.
* **AccountsProofs** `Invariance` and from it `TypesCorrect`, `AddressesStayUnique`,
  `ChangesAreAuthorised` and `TokensAreSpentOnce`: `TypeOK`, `OneAccountPerEmail`,
  `ChangedByToken` and the action property `SpentIsRefused`.
* **ReportingProofs** `Invariance` and from it `TypesCorrect`, `ClaimsAreSpaced` and
  `CyclesServeExactly`: `TypeOK`, `Spaced` and `ServedExactly`; with one more invariant
  (`CountInv`) `ReportsCountWell`: `CountsAreCurrent`.
* **DashboardProofs** `Invariance` and from it `TypesCorrect`, `CountsAreBracketed`,
  `CopiesAreBounded` and `WindowIsCovered`: `TypeOK`, `CountsBracketed`, `CopiesBounded` and
  `WindowCovered`. The types are those of every variable, the history in `scan` and `result`
  included; in Reporting they include those of the claims and of what each process holds.

*The argument for the pipeline.* None of the properties is inductive: whether a write of a
task is right depends on what that task remembers. `IInv` therefore says what may be relied
on in the middle of a task. `KeyInv`: whoever got past the claim owns the key, so a delivery without a key was never called, has no reference and
is not sent. `JobInv`: a task at `call` has made exactly the calls its counter says, which
ties the budget of the run to that of the delivery; a task about to record holds
validation's verdict, a channel error, or a reference of this delivery that the provider
accepted; a poll about to confirm holds the fate of the row's own reference. `HookInv`:
the same for a webhook request between SELECT and COMMIT. `RefInv`: references are handed
out in the order of the calls. `SingleSender` closes the circle: as only one task is past
the claim, and before its record the row is queued, the stale read at the start of
`deliver` does no harm. The proof goes action by action, with lemmas for the parts that
many actions leave alone. The refinement needs that invariant for the writes of `RecordWrite`
and of the two confirmations: either the row is where the edge starts, a `Move`, or another
copy has already written the same outcome, a `Repeat`. That a `Move` finds its dispatch whole
is `OrderInv`: a row leaves `queued` only in the hands of a task, tasks come from a fan-out, and
the fan-out is enqueued after the last row is committed.

Attempts asks less: the run of a task is its locals between the claim and the write, so each
action moves one run by one step of Attempts (`StepsRun`), with `JobInv` for the bound on calls.

Four more parts make up `Inductive`; `OrderInv` is one. `ChannelInv` says that a delivery has
one channel to be confirmed by: polls are about an SMS and callbacks about none, in the queues
and in the hands of those who serve them. So two confirmations of one delivery write the same
outcome with the same reason (`ReasonInv`), the carrier's or none. With the status a
repeated record then leaves the reason and the reference as they were, which is
`FinalRowStays`: data-model.md:178 is true of the row, although the code only asks before it
writes, or, in `record_failed`, does not ask. `StrandInv` follows a queued delivery from hand to hand, as
long as nothing was cut short: before its key is claimed its request, a message or a task will
still come to it (`Awaited`), after that a task is sending it; so when all is done none is
queued. A second copy of a message does not disturb this, because the one that loses the claim
ends without a trace and the winner goes on. `PathInv` says why, as long as nothing comes
twice, a history is a path: what is still to happen to a delivery is in one place, a queue,
the ids of a fan-out or the hands of a thread (`OnePlace`); an accepted send has one callback
at most, of which only that for the reference on record is served (`OneCallback`), and a poll
is only for channels that have none. What a task has read of the row
therefore stays as it was read (`Steady`), and the transition it appends starts where the
history ends.

*The argument for the breaker.* `BreakerInv` relates the breaker's counter to the streak of
system errors and its timer to the time of rest: while closed the counter is the streak and
below the limit; while open the timer and the rest add up to the timeout; a call under way
excludes an open breaker, because it was let in under the lock.

*The argument for templates.* `IInv` adds to the properties what an open request relies on
between two statements (`JobOK`). Whoever has updated or deleted the template row holds its
lock until the COMMIT: only then does it rely on columns (what it will commit fits) and on
having seen every recipient of an earlier writer. Whoever holds no lock relies on less: the
row it loaded keeps its owner and never comes back once deleted, the contacts it checked
keep theirs, and a new id is used by nobody else. `Frame` says what a step of another
request must leave alone for that to stay true; then each action is one lemma. The COMMIT
of an update is the hard one: its recipients have an owner because the foreign key found
the row, and its merged columns fit because the CHECK looked at them under the lock.

That no wait is for ever needs a second invariant, `WaitInv`, for a bound on who can wait for
whom. Rows of `template_recipient` are never inserted again by the same request, so that of two
snapshots of one template the later one has everything that is left of the earlier (`Nested`);
together with the row locks (`Exclusive`) this means that at any time at most one request has
recipients of a template deleted and not committed (`OneDeleter`). Every statement but the
UPDATE and the DELETE of the template row waits for that one or for the delete that holds the
row's lock (`WaitsOn`); those two statements wait for the holder of the lock, which is at a
later statement (`Held`). The deleter itself waits for nobody but that delete, and if the delete
waits at all it waits for the deleter (`DeleterWaits`): the only circle there can be has
two members, and `Victim` is what breaks it. In the code that is two saves of the recipients
and one delete, whatever else is open. `SomeoneGoesOn` says it with `Ready`, which is the guard
of the request's own statement or of `Deadlock`, and not with ENABLED: about `Ready` there can
be a proof.

*The argument for the drawer.* A view is true of a moment that has passed; the invariant says
what of it lasts. `RowInv`: a status has its transition, and a row that has left `queued` has
all its sisters. `ListOK`: the status a card shows was reached, so its transition stays in the
history; and one that is final stays, and was listed together with every recipient. `CardOK`:
a timeline that was read, later than the row, contains that transition and begins the history.
Both are stable under every step of Lifecycle, so they hold of what is being read (`FetchInv`)
and of what is shown (`DataInv`).

*The argument for health.* Rows are never deleted and each belongs to one check, so what a
check read of itself stays true (`ChecksInv`). A good result and a reply come from something
that was up while the request was open, and what was up is only added to (`ReportOK`).

*The argument for accounts.* A changed row is justified by a token, and the request that
applied it is gone: the invariant says what of it lasts (`Relies`). A token is named after the
one request that issued it and is looked up only once mailed, so a token issued later is never
the one a request came with; a request past the lookup knows the purpose of its token, and
past the mark every row of that name is spent and stays so. `OneAccountPerEmail` needs no
more than the unique index, which is why the check before it may be stale.

*The argument for the report.* `AnchorIsLast`: until the administrator changes the row, its
anchor is the time of the last claim, so a process that found the row due (`Seen`) knows when
the last claim it could see was made, however long it waits with its own. For the cycle,
`OwnCycle`: no other process has the same one, so nobody else adds rows to it. `Served`: each
account the claim knew is still to do or has its personal report, an administrator who has
that one has the global one as well unless it is next, and every row but the newest is in the
queue. `Remembered`: accounts are never deleted, so the list read after the claim has
everybody the claim knew. For the counts, `CountInv`: rows are only added, so at any time
each owner's count lies between the rows a claim kept and those there are (`Based`), that of
a process that has read them does as well (`Carried`), and that of a report for ever
(`Counted`). The same holds of their sums over the accounts, among which the owner of the
report's own sends is not.

*The argument for the dashboard.* The load knows a prefix of a list that moves under it
(`Knows(got, k)`, for the rows read and how many). A send that comes in pushes what is behind
it one place on: so of the first `k` places at most `born` hold a dispatch that was not
read (`Missed`), and a dispatch of the list as it was first seen, at place `q`, is now at one
of `q` to `q + born` and was read if that is among the first `k` (`Shifted`). What the load
owes, hour by hour, is in the rows read or in those behind `k` (`Weighed`), and without any
new send the rows read are those of the list (`Unmoved`). At the end the rest is empty, or the
cap was reached; each conjunct then gives one of the three properties.

*Sums.* Both use folds of the community modules, which are recursive functions over the
subsets of a finite set. Induction over them is by a least counterexample: `LeastOf` (from
`WFMin`, which has no operator parameter) gives the smallest size at which a statement fails.
`FoldingExists` so proves that the recursion has a solution, hence that the `CHOOSE` behind
the fold is one; that sums are natural numbers, grow with their terms, split and take in one
more term follows in the same way.

*With TLC only.* Liveness, which needs fairness and ENABLED: all of Console, `CatchesUp`,
`RunEnds`, `EventuallyAttempted`, `CallbackDecides`, `DueIsClaimed`, `ClaimsFinish`,
`CheckEnds` and `ReportEnds`. Every safety invariant and action property of a run is proved.
The other way round, `FinalRowStays` and the `AttemptsSpec` of Pipeline belong to no run: they
follow from invariants of which `PipelineSms` checks every part.

## 5. What is not modelled

`GET /livez`, which always answers. Routers, schemas and error mapping are stateless;
rendering, the mailer and telemetry are
input and output; migrations and seeds run once and appear as the initial rows. Address
formats are two classes, bad and good. Rates, latencies and backoff times are steps that
come later. Of the console, the forms for templates, contacts and accounts, the second page
of the list and other tabs are left out.

## 6. Plan

1. What safety there is in Console, which has only liveness properties so far: whose rows a
   page may show, and what an answer that comes late may still change.
2. Report deliveries through Pipeline in place of `ReportSent`, and the copy of Templates
   in place of Pipeline's `StartSend`.
