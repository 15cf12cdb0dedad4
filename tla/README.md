# Verification of Naughyfication

TLA+ models of the notification backend in this repository, TLC runs that check
them on small instances, and theorems about them checked by TLAPS.

    tlc -workers 2 -config MCDelivery_core.cfg MCDelivery     # one run
    tlapm DeliveryProofs.tla                                  # one proof module

`PROJECT.json` lists the components, the runs, what each definition translates
(`map`), the hazards, the findings and the theorems.

## 1. The system

One process runs the HTTP API and the workers. It keeps nothing important in
memory: its state is in PostgreSQL and in Redis, and **no transaction spans the
two, nor two statements of one operation** (a migration and the bootstrap of the
key excepted). Each store call is therefore an atomic step of its own, and what
an operation read before a step it may write back after others have moved.

| Component (code) | State | Operations | Meets others through |
|---|---|---|---|
| `service.Submit` | - | look up the template, insert row, insert log, enqueue attempt 1 | tables, queue |
| `service.Process` (worker handler) | its copy of the notification | read, count the attempt, send, dead letter or schedule the retry, update, log, webhook | tables, queue, provider, dispatcher |
| `service.RetryDeadLetter` | its copy of the notification | read letter and row, reset the row, mark the letter, enqueue | tables, queue |
| `queue.Client`, `queue.Server` (asynq) | scheduled, pending, active, archived tasks and their ids | enqueue with task id `<notification>-<attempt>`, `MaxRetry(0)` and a delay; hand jobs to workers; recover leases; shut down | Redis |
| `postgres.Repository` | `notifications`, `delivery_logs`, `dead_letter_jobs`, `idempotency_keys`, `users`, `api_keys`, `templates` | one statement each | every service |
| `Middleware.Idempotency` | rows of `idempotency_keys` | insert or select, run the handler, store its response | wraps `handleNotify` and, through it, `Submit` |
| `Middleware.RateLimit` | sorted set per API key in Redis, field `burst` | stamp, one MULTI/EXEC transaction, compare | wraps every `/v1` handler |
| `provider.SMTPProvider`, `MockProvider` | goroutine of each `SendMail` | send with a time-out | called by `Process` |
| `provider.WebhookDispatcher` | goroutine of each callback | up to `WEBHOOK_MAX_RETRIES` posts with back-off | started by `Process` |
| the two `retryDelay` | - | the delay of an attempt, from 64-bit durations | `Process`, dispatcher |
| `renderedBody` | - | text, placeholders, fall-backs | the row that `Submit` wrote and handlers write again |
| `config.Load`, `app.New`, `RunMigrations`, `UpsertUserWithAPIKey` | `schema_migrations`, the schema, `api_keys` | boot: create the ledger, apply what is missing, add the key, ping Redis | other processes that boot on the database |
| `cmd/server`, `App.Close` | the process | signal handling, shutdown | all |
| auth, router, metrics, logging | none that matters here | look-ups, counters | - |

What is hard: handlers for one notification overlap when a retry delay elapses
early; a manual retry runs beside handlers and other manual retries; a copy of
the row that has become stale is written back whole; each of the statements may
fail, also after it took effect; the process may die between any two of them;
on SIGTERM asynq and `main` shut down independently; concurrent requests with
one idempotency key or one API key reach the stores in any order; processes
that boot together find the same migration missing; a delay is computed in
arithmetic that wraps around.
Each hazard is in `PROJECT.json`, at its line, with the properties about it.

What makes each component correct:

- *delivery*: nothing says "sent" that the provider did not accept; a failed
  notification can be retried by hand; the number of sends is bounded; no two
  sends of a notification overlap; an accepted notification is never without a
  job; each is eventually sent or failed; the row follows its life cycle;
- *idempotency*: the handler runs once per key; all results of a key are equal;
  a key with another body gets no result; a key has one notification; a 202
  means that the job is queued; a claimed key is eventually answered;
- *rate limit*: no window of a second lets through more than the limit; nobody
  is refused without that many requests in the second;
- *SMTP provider*: a worker gets free whatever the server does; a second mail
  goes out only after an error was reported for the first, or its handler was
  aborted by a shutdown; no goroutine stays
  that has something to report;
- *webhooks*: what the endpoint is told is true; a callback is posted at most
  `max(1, WEBHOOK_MAX_RETRIES)` times and given up only then, or when its URL is no URL;
- *boot*: who serves has the whole schema and accepts its own key; a migration
  is committed once and whole; a boot that lost a race can be repeated; boots
  end; delays double up to their limit;
- *content*: the mail says what was asked for, and each attempt says the same.

## 2. The modules

| Module | What it is |
|---|---|
| `NotificationLifecycle` | abstract: the life of one notification's row |
| `Delivery` | Submit, Process, RetryDeadLetter, asynq, crash, SIGTERM, restart |
| `DeliveryProofs` | theorems about `Delivery`: what is written is true |
| `DeliveryCountProofs` | theorems about `Delivery`: how many sends there are, and in which order the attempts are numbered |
| `DeliveryLifeProofs` | theorems about `Delivery`: the life cycle of a row, and that nothing is left behind |
| `OncePerKey` | abstract: an idempotency key is claimed once and decided once |
| `Idempotency` | the idempotency middleware with its table, around Submit's store calls, with hang-ups and crashes |
| `IdempotencyProofs` | theorems about `Idempotency` |
| `Provider` | `SMTPProvider.Send` and `WebhookDispatcher.Notify` with their goroutines |
| `ProviderProofs` | theorems about `Provider` |
| `RateLimit` | the sliding window of the rate limiter, with time |
| `RateLimitProofs` | theorems about `RateLimit` |
| `Backoff` | the two `retryDelay` functions, in integers that wrap around |
| `Boot` | processes that boot, die and are started again on one database; extends `Backoff` |
| `BootProofs` | theorems about `Boot` |
| `Content` | what a mail says, from the request to `renderedBody` |
| `ContentProofs` | a theorem about `Content` |
| `MCDelivery`, `MCIdempotency`, `MCProvider`, `MCRateLimit`, `MCBoot`, `MCContent` | the instances for TLC |

Operators whose name ends in `_bug` are mutants: what the operator after them
would be after a plausible mistake. `PROJECT.json` pairs each with a property
that detects it.

### Delivery

State. `row`, `logs` and `letters` are the tables (a row keeps status and
attempts, a letter whether `retried_at` is set). `scheduled`, `pending`,
`active`, `archived` are asynq's task sets; a task *is* its id, the pair of
notification and attempt. `submit`, `worker`, `retry` hold, for each operation
in progress, its program counter and the copy it carries (a request that has
ended keeps the notification it was for, so that the properties can tell how
often a retry was asked for). `callbacks` is what
was handed to the webhook dispatcher. `tally` is a history variable: calls of
the provider, acceptances, manual requeues, aborted jobs. `faults` counts the
faults so that `MaxFaults` can bound them.

Actions, one per store call, in the order of the code:

| Code | Actions |
|---|---|
| `Submit` service.go:85-138 | `RejectUnsupported`, `CreateNotification`, `AppendFirstLog`, `EnqueueFirst` |
| `Process` service.go:140-224 | `GetNotification`, `IncrementAttempts`, `SendReturns`, `CreateDeadLetter` or `ScheduleRetry`, `UpdateNotification`, `AppendLog`, `Finish` |
| `RetryDeadLetter` service.go:250-269 | `RetryRead`, `RetryUpdate`, `RetryMark`, `RetryEnqueue` |
| asynq, as queue/asynq.go configures it | `Put`, `Refused`, `ReplyLost` (the results of `Enqueue`), `Forward`, `Dequeue`, `Return`, `LeaseExpired`, `Abort` |
| main.go, app.go | `Crash`, `Stop`, `Exit`, with `Restart` |

A statement that fails may have taken effect or not (`DbError`, `ReplyLost`);
cancelled contexts have the same effect. asynq is external: it is modelled from
the options the code passes. An id stays taken while a task is kept, archived
ones included; a task that succeeded is deleted and its id is free again; a
failed task is archived, since `MaxRetry(0)`; so is the task of a dead worker,
when its lease has run out. `s.dlq` and `s.metrics` are never nil, as `app.New`
builds the service.

`LongBackoff` chooses between the two regimes a delay can be in: TRUE, a retry
becomes due only after the handler that scheduled it has returned; FALSE, at
any time. The first is what `BASE_BACKOFF=2s` gives while the database is
quick; nothing in the code enforces it.

The abstract specification is `NotificationLifecycle`. `ImplementsLifecycle`
says that the row of each notification refines an instance of it, `Life(n)`, for
as long as no operator has asked for its retry and no shutdown has aborted a
handler of it (`Untouched`). A manual retry leaves the life cycle on purpose,
"failed" becoming "pending" again; an aborted job is put back beside the retry it
may have enqueued already, and two handlers then count the same attempt.

### Idempotency

`records` is the table; `pc`, `recorder`, `answer`, `gone` are, for each
request, its place, what the handler wrote, what the client received and
whether it hung up; `stored` is what the two stores hold of the notification
that the request submitted. `CreateOrGet` is two statements (`Insert`,
`Select`), between which other requests move. The handler is `Handle`,
`AppendLog` and `Enqueue`, the three store calls of `Submit`: when a later one
fails, the 500 is recorded and replayed, and what the earlier ones stored
stays. `MarkCompleted` follows. A hang-up cancels the context of every later
statement, which then may fail, applied or not. The recorder writes through to
the response, which net/http buffers: the client is taken to have its answer when
the chain has returned, `MarkCompleted` included. A response carries the request
whose execution it came from, as the notification id in the body does. The
requests are those of one user; users do not share rows, since the unique index
covers the user.

### Provider

What `Delivery` treats as one step, `SendReturns`, and what it only records, the
hand-over of a callback, in detail, for the handlers of one notification, which
are numbered in the order in which they call `Send`.

| Code | Actions |
|---|---|
| `Process` service.go:140-155 | `Send`: a job is taken, the attempt counted, `Send` called |
| `SMTPProvider.Send` provider.go:35-87 | `Accept` and `SendMailReturns` (net/smtp), `Report`, `SendReturns` |
| `Process` service.go:164-223 | `Schedule`, `Record` |
| `WebhookDispatcher.Notify` provider.go:123-179 | `BuildFails`, `PostCallback`, `Answered`, `PostFails`, `Wait`; `Receive` is the endpoint |
| main.go:28-47 with asynq's shutdown | `Stop`, `Abort`, `Exit` |

`waiting` counts the jobs in the queue. `number`, `handler`, `returned`, `mail`,
`result`, `callback` are functions of the handler: the attempt it makes, where it
is, what its `Send` returned, the goroutine of `SendMail`, the
channel between the two, the goroutine of `Notify`. The number is one more than a
count that any handler may have stored before (`Stored`), since the row that is
read may be older than the last. A handler that ends brings the next job or
none; one that a shutdown aborts gives its job back (`Abort`), though its mail
may be out and even though it has stored its attempt; a job that is with a
worker when the process dies is archived (`Exit`). A webhook URL is stored
unchecked, so that a callback may be one whose request cannot be built
(`valid`, `BuildFails`). `accepted` is the SMTP
server's view, `received` the endpoint's; `wire` holds posts under way, which
may arrive after their time-out or never. A handler and the next one overlap as
in `Delivery`; the `SendMail` goroutines of different handlers overlap freely.

### RateLimit

`now` counts ticks, `Window` of them to the second. `Stamp` reads the clock and
makes the member; `AllowRequest` is the transaction (ZREMRANGEBYSCORE, ZADD,
ZCARD, EXPIRE) and the comparison; transactions run in any order, each at most
`MaxDelay` ticks after its stamp. `Degrade` is the answer to a Redis error.
`Tick` lets time pass and expires sorted sets.

### Boot and Backoff

Each process goes through `config.Load` and `app.New` one statement at a time:

| Code | Actions |
|---|---|
| `RunMigrations` migrations.go:16-73 | `FindLedger` and `CreateLedger` (one CREATE TABLE IF NOT EXISTS, which looks and then creates), `Check`, and of the transaction `Apply`, `Create`, `Record`, `Commit` |
| `UpsertUserWithAPIKey` repository.go:206-234 | `UpsertUser`, `CommitKey` |
| the rest of `app.New` | `PingRedis`; `StatementFails` for any statement |
| main.go | `Crash`, `Start` with one of the `Environments` |

What a transaction has done becomes visible at its commit; until then others
that touch the same rows or create the same tables wait (`Holds`), and fail if
it commits. An error ends the boot, as `main` panics. `Load` is translated with
its fall-backs for missing and malformed values, and a malformed LOG_LEVEL or
DATABASE_URL is left out: with those `app.New` returns before its first
statement, at each start. `Backoff` is the arithmetic of `time.Duration`, a
signed integer of `Width` bits in which a second is `Second` units:
multiplication and `1 << n` wrap around. In Go these are 64 and 10^9.

### Content

A text is a sequence of words, data a function from the words of the form
`{{key}}` to their values. `GetTemplate` is the head of `Submit`, with the
look-up whose error is ignored; `CreateNotification` keeps what table
`notifications` has columns for; handlers read, `Send` and write back.
`EditTemplate` is the world outside, since no code writes table `templates`.

## 3. The runs

Each question is asked once. `outbound`, `races`, `core` and `dlq` take up to two
minutes, the others seconds.

| Run | Instance | What it checks |
|---|---|---|
| `core` | 1 notification, 2 workers, 2 manual retries, MAX_RETRIES 1, long delays, one database error, one Redis error; fair | `TypeOK`; `FaultlessNoneStranded`: without a fault, an unsettled notification whose retry was asked for once at most has a job or a request that will make one; `EventuallySettled`; `EventuallyRetried`; `ImplementsLifecycle` |
| `races` | 1 notification, 2 workers, MAX_RETRIES 2, short delays, one fault of each kind, SIGTERM included | `NoOverlappingSends`, `NoResend`, `ExhaustedHasLetter` |
| `dlq` | 1 notification, 2 workers, 2 manual retries, MAX_RETRIES 1, short delays, one fault of each kind but SIGTERM | `References`, `NoFalseDelivery`, `OnlyDeadLettersExceedLimit`, `SendBudget` |
| `replay` | 4 requests, 3 of them with one key and one of those with another body; one database error, one crash, one hang-up; fair | `TypeOK`, `AtMostOnce`, `SameResult`, `MatchingBody`, `OwnerRuns`, `OneNotificationPerKey`, `AcceptedIsQueued`, `ImplementsOncePerKey`, `EventuallyCompleted` |
| `outbound` | max_attempts 2, 2 handlers, 2 posts of a callback, the process ends once, by a kill or by a SIGTERM that may abort handlers; fair | `TypeOK`, `CallbacksTrue`, `DuplicatesExplained`, `GivenUpLast`, `PostsBounded`, `WorkerFreed`, `NoLeak`, `NotifyEnds` |
| `window` | 4 requests, 2 API keys, limit 2, a second of 3 ticks, delay 1, 8 ticks, one Redis failure | `TypeOK`, `WindowLimited`, `RefusedForCause` |
| `boot` | 2 processes, 2 migrations, 2 starts of each, 2 environments, 8-bit durations in seconds, one fault of each kind; fair | `TypeOK`, `RunningIsReady`, `MigrationsWhole`, `AppliedOnce`, `LosersCanRestart`, `DelaysRight`, `BootEnds` |

Runs that TLC finds violated, each by what the code does (section 4): `crash`,
`lost_update`, `orphan`, `per_user`, `placeholders`.

Bounds. Two workers are enough for any pair of handlers to overlap; the
properties relate at most two. Notifications share nothing but the workers, so
one is enough; no property is about fairness between notifications. That what
befalls one does not touch the others is part of the theorems (section 5).
MAX_RETRIES 2 gives three attempts: a first, a middle and a last one;
MAX_RETRIES 1, where there are more actors or faults, a first and a last one.
One fault of each kind gives every single failure at every point, and every
combination of different ones. `core` has no crash, which would make it five
times as large: to a row a crash does what an error does whose statement had no
effect, it ends the operation; the theorem about `ImplementsLifecycle` has it,
and `dlq` and `races` do. Two manual retries give the race of one with another;
a letter per failure gives them several letters to choose from. Three requests
with one key give a winner and two losers, of which one may be answered before
and one after the result. The window of three ticks lets four requests fall into
it, onto its edge and out of it, and eight ticks outlast the expiry. Two
handlers are one that is followed by another and one that makes the last
attempt, or the same attempt after an abort; two posts, likewise. Two processes
that boot together, with two migrations, race at each statement, and one that
lost can be started again; one environment has a missing and a malformed value
in each place, the other has delays whose products pass the 8 bits. Symmetry is
used in runs without temporal properties only. Where a theorem covers a
property, it holds beyond these bounds (section 5).

`CHECK_DEADLOCK FALSE` stands in every run but `placeholders`: those systems
come to rest when all requests are served, all notifications settled (or
stranded), all boots ended or the clock is at its bound.

Fairness. `Delivery`: workers take steps, as goroutines do; asynq forwards due
jobs and hands over pending ones, for each notification, since its queue is a
list served in order; requests in progress go on. Nothing is assumed of
clients, of faults, or of leases. `Idempotency`: a request's goroutine runs
until its handler chain returns. `Provider`: goroutines run and timers fire;
nothing is assumed of the SMTP server or the endpoint. `Boot`: a process that
boots runs on, PostgreSQL granting locks that are free; nothing starts it
again. `EventuallySettled` and `EventuallyCompleted` excuse what a fault has
hit; without that excuse both fail, which is findings `crash` and `orphan`.
`EventuallySettled` and `EventuallyRetried` excuse a second request for the same
retry too (section 4).

## 4. What the runs show

Holds: whatever fails, "sent" is true of the provider; until an operator steps
in or a shutdown aborts a handler, handlers of one notification do not send at
the same time and do not send again what was accepted, even though nothing locks
the row, because a handler that schedules the next attempt makes none itself and
asynq refuses an id it keeps; the sends stay within `max_attempts` plus one per
manual retry; the dead letter is there before the row, log and callback say
"failed"; the idempotency table runs a key once, replays one result, keeps one
notification per key, and its 202 means a queued job; a callback that arrives is
true of its attempt, however late; two mails go out for a notification only when
`Send` called the first an error, or a shutdown aborted its handler. Both do
happen: a time-out abandons the goroutine, not the mail, so a slow server
delivers twice, or delivers what ends as "failed"; a handler aborted after its
`Send` has returned nil is followed by another one. It is the price of retrying
and no document says otherwise, so it is no finding here. "failed" is told after
`max_attempts` attempts, all of which `Send` called errors but for the handlers
a shutdown aborted: an attempt cut off counts as made. A callback is given up
after all its posts, or silently before the first when the user's URL cannot be
requested; nothing checks it when it is stored (router.go:148-168). Of processes
that boot together one may fail, on the primary key of `schema_migrations` or on
a table the other has created, and `main` panics; nothing is left by halves, and
its next start gets past the point. Delays are right as long as the exact
product fits 64 bits; beyond, they may be negative or zero. By hand, for a base
of two seconds: 2 * 10^9 * 2^(k-1) nanoseconds are below 2^63 for k up to 33, so
with MAX_RETRIES of 34 and more the delay after attempt 34 is wrong, and nothing
caps MAX_RETRIES.

A retry that an operator asks for once the row says "failed" gets its attempt
(`EventuallyRetried`). The letter exists a statement earlier, though, and a
request between the two (service.go:170-212, 262) is lost: the handler writes
"failed" over its "pending", and the job it brings finds the notification
settled. Hence the premise about the row; with "has a letter" in its place the
property is false without any fault.

Two manual retries of one letter are not told apart by `retried_at`, which
nothing consults. Both reset the row. If the first one's job has been taken and
counted before the second reads the row, the second gets the next id, and two
handlers may send at the same time; `NoOverlappingSends` excuses notifications
with a manual retry, and `SendBudget` and `NoResend` count it.

Does not hold:

- `crash`: a job that was active when the process died is archived, because of
  `MaxRetry(0)` (asynq.go:65), and its notification stays pending for ever.
- `lost_update`: without any fault. The retry is enqueued (service.go:193)
  before its attempt is recorded (service.go:212). If it is delivered in
  between, "sent" is overwritten with "retrying" and no job is left.
- `orphan`: `MarkCompleted` runs with the request's context (middleware.go:124).
  When the client has hung up it fails, after the handler has accepted the
  request: the key stays "in progress" for ever, and the
  client's repetition, which the key is for, is refused with 409. The same is so
  when `CreateOrGet` gets an error for an INSERT that took effect
  (middleware.go:89-103): the handler does not run, and never will for that key.
- `per_user`: the limiter's key is the API key (middleware.go:134), while
  README.md:27 says per user; changing API_KEY and restarting gives the
  bootstrap user a second key, and a second window (`CommitKey` of `Boot` adds
  the key and keeps the old one).
- `placeholders`: no column takes the data of a request (repository.go:28), so
  the worker, which reads the row, replaces nothing and mails the placeholders;
  README.md:84 makes its first request with two of them.

The same invariant `NoneStranded` is also violated by one Redis error (the retry
cannot be scheduled and the handler returns, service.go:196-198) and, without
faults, by two retry requests for one letter (the second resets the row to
pending and is refused the job, service.go:262-268; hence `AskedOnce`, per
notification, in `FaultlessNoneStranded` and `EventuallySettled`): set
`MaxFaults` or `Retriers` in `MCDelivery_crash.cfg` accordingly. A database
error at service.go:171 loses the dead letter, which is why `ExhaustedHasLetter`
excuses database errors. After a SIGTERM that aborts a handler, a job and its
own retry may both be in the queue: `NoOverlappingSends` and `SendBudget`
exclude notifications with an aborted job, and fail without that clause.
`WindowLimited` speaks of a window shortened by the delay: with windows of a
full second and a delay of one tick it is violated, because a later stamp drops
members that an earlier one, arriving late, should have counted.

Seen while translating, and no run's business: MAX_RETRIES=n gives n+1 attempts
(service.go:104), while `.env.example:19` calls it the maximum number of
delivery attempts; the error of the template look-up is dropped
(service.go:110), so that a request which names a template mails the template's
*name* when the database fails or the template is missing.

## 5. What is proved

For every value of the constants, with no assumption but those named in the
modules: `DeliveryAssumption` (`MaxRetries` a natural number, `MaxFaults`
natural numbers, `LongBackoff` a Boolean), `IdempotencyAssumption` (`NoKey` and
`Nobody` are not a key and not a request, each request has a key or none, and a
body), the bounds of `Provider`, `RateLimitAssumption` (finitely many requests,
a second of at least one tick), `BootAssumption` and `BackoffAssumption` (what
`Load` returns has the types of `config.Config`). In particular for every number
of workers, notifications, manual retries, processes and faults. `TypeCorrect`
of each module is its type invariant. Two theorems take `LongBackoff` as a
hypothesis, as the regime in which they are promised: with short delays both are
false, which is finding `lost_update`.

`DeliveryProofs`:

- `TypeCorrect` proves `TypeOK` together with `References`, also stated alone
  as `ReferencesHolds`. Neither is inductive alone: the type of a handler's
  notification needs the job's, and that a job refers to a row needs every way
  a job comes about.
- `NoFalseDeliveryHolds` and `ExhaustedHasLetterHolds`, from the invariant
  `Evidence`: not only what is written (rows, logs, callbacks) but also what any
  handler *carries* towards them (`HandlersJustified`) is justified by an
  acceptance or a letter.
  Without the second part it is not inductive, since the write happens steps
  after the fact. A handler at "bury" is the one exception: it carries
  "failed" before the letter exists. Acceptances and letters never decrease, so
  what is justified stays so; stale copies cannot harm it.
- `LimitHolds`: a job above `max_attempts` exists only for a dead lettered
  notification, from `LimitInv`, which adds who may still
  enqueue one (`LimitKept`): a handler about to reschedule is below the limit, a
  request in
  progress has a letter.

`DeliveryCountProofs`: `NoResendHolds` and `NoOverlappingSendsHolds`. Nothing in
the code counts what they count, so the invariant `AllPaid` does: for each
notification, acceptances, plus delayed jobs, plus pending jobs, plus handlers
that have not sent or may still reschedule, plus one while `Submit` has not
enqueued, are at most one plus manual requeues plus aborts. `StepMoves` shows
that each of the steps makes one of eight moves (`Moves`), none of which spends
more than there is (`MovesArePaid`); cardinalities are those of
FiniteSetTheorems. Two sending handlers, or an acceptance and a second send, are
then two tokens, of which only the first came with the request.

`SendBudgetHolds` needs to know which attempt numbers are taken, `OrderInv`. Until
its dead letter a notification has one attempt at a time (`AllPaid`), whose job's
number exceeds that of all handlers and sends before it and whose id is the last
of `1..k` that are all taken (`Chain`): so a handler that works on an old copy of
the row computes an id that asynq refuses. At the dead letter the numbers up to
`max_attempts` are all taken by jobs that have ended, or will end, with an error,
and stay archived (`Closed`); hence every job after it was asked for, and counted,
by a request (`Budget`). `BuriedIsExhausted` makes the dead letter come only at
the limit. An aborted handler breaks the order, and with it the bound, since its
job comes back beside the retry it has scheduled: the property excuses it.

`DeliveryLifeProofs`:

- `RefinesLifecycle`: the row of every notification implements
  `NotificationLifecycle`. With long delays the one handler that `AllPaid` admits
  agrees with the row: `Cursor` says at each program counter what its copy is
  worth, `row.attempts + 1` before the count and `row.attempts` after it, and
  that the row is settled already when it is past its update with "sent" or
  "failed". A write then is a step of the life cycle, and `WithinLimit` (from
  `Chain`) keeps the count within `max_attempts`. The argument is about one
  notification and its own requests (`AsksStay`: a request that was made is never
  unmade); what operators ask for others, and a SIGTERM that aborts handlers of
  others, is immaterial.
- `JobsApart`: a task id is in one of asynq's four sets only and on one worker at
  most, by any of the ways the code, the forwarder, the recoverer and a shutdown
  move it.
- `FaultlessNoneStrandedHolds`, in two phases. Until a request asks for its retry
  (`Fresh`) a notification has `Cursor`, moreover its job numbers are exact: a
  delayed or pending job has the number `row.attempts + 1` and no id above it is
  known (`Exact`), so that `ScheduleRetry` is never refused; who ends leaves the
  row settled or the next job behind (`Continued`). From the request on
  (`Second`), every handler's attempt exhausts the limit and none reschedules, so
  that whoever ends settles the row, and the job `max_attempts + 1`, which nobody
  has used before the request (`HighOnly`), is there from the end of the request
  until a handler of it has settled the row. A second request for the same retry
  breaks the second phase, as it does the program (section 4).

`IdempotencyProofs`, all from the invariant `IInv`: `TypeCorrect`,
`OwnerRunsHolds`, `AtMostOnceHolds`, `OneNotificationHolds`,
`AcceptedIsQueuedHolds`, `SameResultHolds`, `MatchingBodyHolds` and
`RefinesOncePerKey`. The argument: while a request is in the handler or about
to store its result, the row of its key is the one it inserted, in progress
(`OwnerHolds`); who has run owns the row for ever (`RunnersOwn`); a completed
row and every result a client got are `Final`, the recorded response of an
owner that has ended (`RecordsTrue`, `AnswersTrue`), and what has ended does
not change (`FinalStays`).

`ProviderProofs`, for every `max_attempts` and `WEBHOOK_MAX_RETRIES` and any
number of handlers and shutdowns: `TypeCorrect`, which needs where the loop of
`Notify` is; `InvHolds`, the inductive invariant. Its core counts jobs
(`JobsEarned`): the job of the request, and one for each aborted handler, are what
there is, and are in the queue or have been used up by a handler whose `Send` has
not returned an error or which made the last attempt; a handler about to schedule
another job still has its own. Beside it stand what the channel and `Send` say of
a mail (`ReportsTrue`) and that no number of an attempt is passed over
(`CountsMade`). `DuplicatesExplainedHolds` follows, since a mail without an error
uses a job up, and `CallbacksTrueHolds`, since the handler that says "failed" has
used one up itself (`FailedIsTrue`). `GivenUpLastHolds` and `PostsBoundedHolds`
come from `TriesTrue`: the posts that are on the wire or were received have
numbers up to the loop's counter, and a URL that can be requested; a callback with
such a URL ends unanswered only at the last try.

`RateLimitProofs`: the invariant `IInv` says what the sorted sets tell of the
requests (`MembersTrue`) and how much they may have forgotten: nothing that was
decided less than a second ago (`Remembered`), since a member is dropped only by
a stamp, or an expiry, a second later. A transaction that lets a request through
therefore counts every passed request of a window that ends with it, shortened
by the delay (`AllowedInWindow`); hence `WindowLimitedHolds`, for a limit that is
not negative. `RefusedForCauseHolds` is the converse: each member counted is a
request of that key and that second.

`BootProofs`, for any number of processes and migrations: `InvariantHolds` and
from it `TypeCorrect`, `RunningIsReadyHolds`, `MigrationsWholeHolds`,
`AppliedOnceHolds`, `LosersCanRestartHolds`. What each place of the boot knows of
the schema (`PlacesKnow`) is stable because the database only grows (`Grows`),
but for one fact: that a migration about to be committed has not been. That
needs `HoldersDiffer`, one transaction at most has the tables of a migration
that nobody has committed. `DelaysRightHolds`: both delays are what their doubling
says while the exact product fits the type. For each factor to fit, powers of two
must be natural and grow; that is known without an induction since `2^n` is the
number of subsets of `1..n`.

`ContentProofs`: `OneTextHolds`, all mails of a notification say the same,
although the row is read and written again by every attempt and the template
may be edited: rows, copies and mails are those of the notification as it was
built, and reading and storing it loses nothing that was not lost before
(`ColumnsOfScan`).

## 6. What is only model-checked

Liveness: `EventuallySettled`, `EventuallyRetried`, `EventuallyCompleted`,
`WorkerFreed`, `NoLeak`, `NotifyEnds` and `BootEnds`, with the fairness of
section 3, are beyond the prover. Their safety part is proved where they have
one: that something is there to go on with (`FaultlessNoneStranded`), that a
post is not the last too early (`GivenUpLast`). Every invariant and every
refinement of the passing runs is proved.

## 7. What is not modelled, and the plan

Not modelled: routing, rendering of responses, metrics, logging, read-only
queries, the column `webhook_url`, examples and deployment: they keep no state
that the rest depends on, or only read it. Of the configuration `Boot` has the
settings the models depend on; authentication is a look-up (`Authenticates`).
Left out of `Delivery` are addresses, templates, times and error texts; a read
that fails is an end of the operation. Left out of `Content` are the subject,
the address, and values that contain placeholders themselves: with those the
text depends on the order in which Go walks a map (provider.go:202-211).

Plan, most important first:

1. `Shutdown`: `main`, `App.Close` and asynq's own signal handler
   (asynq.go:130-141, main.go:37-46), refining `Stop`, `Abort`, `Exit`.
2. The look-up of the user's webhook URL in `Finish`, against its update through
   the API.
3. What a second request for the same retry may and may not do: with short
   delays, or with two requests, the second phase of `FaultlessNoneStranded` has
   no theorem of its own.
