# Fee Management System: formal models

TLA+ models of the Fee Management System (Azure Functions, Azure SQL, Durable
Functions, SendGrid), the TLC runs that check them on small instances, and
TLAPS proofs for every instance. Paths below are relative to
`src/fee_management/` unless they start with `sql/`, `README.md` or `host.json`.

## The system

| Component | Code | State | Operations |
|---|---|---|---|
| Fee rules | `domain/payment_status.py`, CASE and WHERE in `data/students_repository.py`, `sql/001_create_schema.sql` | none | status, due amount, days overdue, merge, bound, rounding |
| Fee update | `api/admin.py` `update_student_fee`, `StudentsRepository.update_fee` | `dbo.Students`, RowVersion, open transactions | `PUT /mgmt/students/{id}/fee` |
| Reads | `api/students.py`, `list_students_for_admin`, `auth/rbac.py` | none of their own; read `dbo.Students` | details, payment status, list |
| Retry and errors | `data/db.py`, `api/exception_mapping.py` | attempt of the current operation; connection pool | `with_db_retry`, `connection`, `map_exception_to_response` |
| Reminder run | `durable/orchestrators.py`, `durable/activities.py`, `durable/helpers.py` | Durable history | query, fan-out, fan-in, log |
| SendGrid client | `notifications/sendgrid_client.py` | tries of the current send | send with retry, mock mode |
| Audit log | `data/reminder_log_repository.py` | `dbo.ReminderLog` | insert_many |
| Starters | `durable/timer.py`, `durable/http_start.py` | Durable instance store | start_new |
| Pool and health | `get_engine`, `connection`, `ping` in `data/db.py`, `api/health.py` | cached engine, its pool | checkout, return, ping |
| Correlation ids | `telemetry/`, `api/errors.py`, `auth/jwt_validator.py`, `durable/` | context variable of each thread | bind, log, echo |
| Scripts | `sql/apply_azure_sql.py`, `sql/apply_006_drop_superadmin_role.py` and their SQL | the database's objects and rows | create, seed, verify, migrate |
| Others | administrator repository, templates, infrastructure | | see *Not modelled* |

How they interact: the HTTP handlers are stateless and run concurrently in
several threads and worker processes; they meet only in `dbo.Students`. An
update reads the row in the handler, reads it again in `update_fee`, changes it
conditionally, and re-reads it, the last three in one transaction that
`with_db_retry` runs up to three times. Reads take the row and compute the
status from it later with a clock of their own; the list lets the database
compute it with another clock. The reminder run reads `dbo.Students` once, then
works from that copy through activities that are delivered at least once. Its
starters share only the instance store: a date becomes an instance id first and
is used later. All handlers of a process share one engine and its pool, and
the threads they run on keep the correlation id of whoever ran there last.

What is hard here: two writers between any two database round trips; a commit
whose acknowledgement is lost and which is then retried; checks made twice on
different reads; an UPDATE whose trigger moves the RowVersion again; decimals
that the column rounds; two clocks; ownership decided on one read; activities
that run twice; a fan-in that must not fail for one bad address; an audit
written by a retried transaction; two starts of one day, one of them across
midnight; connections that die in the pool and threads that race to build it;
ids left over on a thread; scripts that break off between batches. `PROJECT.json` lists each hazard at its line.

## Modules

| Module | Models |
|---|---|
| `FeeRules` | the fee arithmetic as constant operators |
| `ApiErrors` | exception mapping (order of the `isinstance` tests), transient errors |
| `FeeRecord` | abstract: each row is a register with an atomic conditional update |
| `FeeUpdate` | the update handler, its transaction, retry and the database under it |
| `StudentReads` | details, status and list endpoints with RBAC, racing writes and midnight |
| `ReminderJob` | abstract: what one reminder run promises |
| `ReminderRun` | one orchestration run with its activities, SendGrid and ReminderLog |
| `ReminderDays` | the runs of several days: timer, HTTP starts, instance ids, fee updates meanwhile |
| `ConnectionPool` | threads over the engine cache, the pool, the retry and the health check |
| `Correlation` | the id every log line and answer carries |
| `DatabaseSetup` | the setup and migration scripts, run batch by batch |
| `...Proofs` | the theorems about the module they name, see *Proofs* |
| `MC...` | small instances of the module they name, for TLC |

`FeeUpdate`, `StudentReads` and `ReminderDays` share `FeeRules`, so one
definition of the bound, the merge and Overdue serves writers, readers and the
reminder query. `ApiErrors` is shared by `FeeUpdate`, `StudentReads` and
`ConnectionPool`.

Definitions marked *Mutant* are plausible wrong versions of the operator that
follows them. No specification uses them; they show that each property fails
when the code is wrong in that way.

### FeeUpdate

One action per database round trip; any other request can run in between.

| `pc` | Code | Actions |
|---|---|---|
| `idle` | request on its way, `require_role`, parsing (`admin.py:122-142`) | `Receive`, `Reject` |
| `lookup` | handler's `get_by_id`, 404, bound (`admin.py:144-151`) | `LookupMissing`, `LookupOutOfBound`, `LookupPasses` |
| `read` | SELECT, If-Match, bound (`students_repository.py:309-325`) | `ReadStale`, `ReadOutOfBound`, `ReadRow` |
| `write` | UPDATE, IntegrityError, rowcount (`:327-355`) | `WriteConflict`, `WriteOverflow`, `WriteViolatesCheck`, `WriteRow` |
| `commit` | re-read, commit, answer (`:357-362`, `db.py:74`) | `Commit`, `CommitAckLost` |

`LookupFails`, `ReadFails` and `TransactionFails` raise what the database or the
pool may raise at that point; `Raise` is `connection` (rollback), `with_db_retry`
and the mapping to an answer in one step. `Lost` is a worker that stops.

Assumed of SQL Server, as the code uses it: reads see committed rows (under Azure
SQL's row versioning without waiting, which allows every order a waiting read
allows); an UPDATE
takes an exclusive lock until the transaction ends, and waits for one (no query
timeout is set); the rowversion counter is global, moves twice per update (the
UPDATE and the trigger on `UpdatedAt`) and is not rolled back; `DECIMAL(10,2)`
rounds half-cents up and refuses what does not fit (`DataError`, a 500); a
deadlock victim gets the generic driver error (retried, then a 500) and a lost
connection an `OperationalError` (retried, then a 503); a pool `TimeoutError` is
not retried. The answer to a commit may be lost.

Abstractions: amounts are whole half-cents, so a request can carry one that
must be rounded; dates are day numbers; the status in the PUT answer is a
function of the row in it and is left to `StudentReads`. Two branches of
`update_fee` (row gone in `:311` and `:358`) are unreachable, since nothing
deletes students. A request arrives with the token of that moment or with none;
being overtaken afterwards is how a token gets stale.

`FeeRecord` is what a caller may rely on: an update is one atomic step on the
row as it is in that step, only against the held version, only into a legal row
with a larger version; an answered refusal changes nothing in *its* step.

### StudentReads

`query` (read and authorize) and `render` (compute with the process's date) are
separate steps, `count` and `page` are the two statements of the list. `Edit` is
a committed fee update, `Relink` an operator's script that links a row to
another account under the unique index. `Tick` moves a clock; `UtcToday` is the
server's date, `Today` the process's, `Offset` ticks apart. Tokens are claims:
roles and an object id, possibly missing.

### ReminderRun

`task[s]` is the send activity of student `s`: scheduled, running (with its
tries), answered, recorded in the history, or failed for good. `ActivityFails`
is an unexpected exception or a worker that exits (RetryOptions, three
executions in the code); `HostDies` is a lost host, whose message is delivered
again without counting as an execution. The host may also die after the result
of an execution reached the history and before its message was deleted
(`HostDiesLate`): the activity then runs again beside or after the orchestration,
even one that has completed, and mails again (`LateTry`), while its second result
is ignored. `late` counts the tries such executions may still make. `FanInFails`
models `task_all`, which fails with the first failed task while other sends still
run. The log activity
inserts row by row (`LogInsert`), commits (`LogCommit`), fails and is retried
(`LogFails`, `LogAckLost`), starts over on another host (`LogHostDies`) or runs
once more after its result was recorded (`LogHostDiesLate`, `logAgain`). The
replay of the orchestrator repeats no activity and is no step; `retry` in
`host.json` does not apply to orchestrations and activities.

`ReminderJob` is the promise without any of that: select once, mail only the
selected, and write the audit in one step for the whole batch with one verdict
per student, `Sent` only for somebody mailed. It promises nothing about when the
mails end: a job that has ended may still mail its selection and repeat its
audit with the same verdicts, since the queue may deliver what was done already
and the code does not recognise it. What does hold of a completed run is
`LateMailNeedsLostHost`. `JobState` maps a run to it; a lost acknowledgement of
the log transaction is an audit that leaves the run open and may be written
again, which is what the abstract `Audit` allows and what the code does.

### ReminderDays

A starter takes two steps, as in the code: compute the id (`TimerFires`,
`Receive`: `timer.py:30-31`, `http_start.py:33-35`), then `start_new`
(`TimerStarts`, `RequestStarts`). Midnight, another start, a lost host
(`TimerDies`: the invocation is made again, perhaps as past due) and a fee
update (`Settle`) may fall between any two steps. Instances are kept by id.
Assumed of Durable Functions: `start_new` refuses an id that is pending or
running and replaces one that has ended (its default, `host.json` sets nothing
else); sends of a replaced instance stay queued; `start_new` may raise for
another reason, with or without having created the instance. A run is a query (`Query`, `activities.py:33`), a fan-out over its answer once
that is back in the orchestration (`FanOut`, `orchestrators.py:25`, `:56-63`) and
one send per student of the answer. A student may settle between any two of
these and is then still mailed; `lapsed` holds the sends, queued or about to be
by an answer, whose student has settled since the query, and `SettledLeftAlone`
says that there are no others to anybody who is not overdue. The audit, retries
and repeated executions inside one run are `ReminderRun`'s: a send leaves the
queue here when it is executed. `lapsed`, `broken` and `dropped` are history.

### ConnectionPool

A thread's request goes through `engine` (the cache), `building` (a miss),
`checkout`, `work` and, on a transient error, `backoff`; every attempt asks for
the engine again, as `connection()` does. The engines are named by the thread
that built them. A pool counts idle connections, live and dead, and those out.
`CheckoutPinged` is `pool_pre_ping`; `Full` and `CheckoutTimesOut` are the limit
and the 30 s of `QueuePool`; `Release` is the end of the `with` block. The health
check uses the same pool, has one attempt and turns every exception into
`unhealthy`. An outage kills every open connection. `pool_recycle` replaces a
connection by a new one at checkout, which is what pre-ping does with a dead
one, and has no action of its own.

### Correlation

`bound` is the context variable of each thread of the worker's pool; a
synchronous function leaves there what it bound. Requests go through
`require_role` (`Wrapper`, `Accept` or `Deny`) into the handler, which binds
again; the health check goes straight to a handler. A line either names its id
or gets the bound one (`CorrelationIdFilter`). The starters are coroutines with a
context of their own. The model relies on the host running a synchronous
function on one thread from start to end. Which roles suffice and whether a
signature is good are inputs.

### DatabaseSetup

One step is one batch under autocommit, with the condition under which SQL
Server accepts it. Operators may start either script at any time, also while
another runs, and a connection may be lost before or after the batch took
effect (`Cut`). `alone` marks a run that no other has crossed. The database is
empty at first, or a legacy one with role SuperAdmin. PRINT batches do nothing
and are left out.

## Runs

| Run | Instance | Shows |
|---|---|---|
| `fee_pair` | 2 requests, 1 student and a missing id, 6 bodies, 2 attempts, fair threads | all safety properties, refinement, every request ends |
| `fee_stale` (violation) | 2 requests | stale token answered 400 |
| `fee_conflict` (violation) | 2 requests | 409 without another writer |
| `reads_day` | 2 readers, 2 students and a missing id, 2 days, 1 change, UTC process | ownership, anti-enumeration, consistent and agreeing answers, counts |
| `reads_zone` (violation) | the same, process one tick ahead | local date passed as UTC |
| `reminder_safety` | 2 students, 2 tries, 2 executions, 3 attempts, 1 crash, fair task hub | audit, mail bound, isolation, late mails, `ReminderJob` implemented, the run ends |
| `reminder_count` (violation) | 2 of each | returned count is not what was added |
| `days_safety` | 1 student, 1 HTTP request, 2 days, 1 lost host, failing starts, fair task hub | no query selects whoever has settled before it, no double send under an id, each day's run selects |
| `days_once` (violation) | the same | a completed day's run is replaced |
| `pool_faults` | 3 threads, pool 1 + 1, 2 attempts, 1 outage | no leak, no spurious 503 or `unhealthy`, what racing engines open |
| `corr_lines` | 2 requests, 1 starter, 2 runs with an activity each, 2 threads, local bypass possible | ids are neither borrowed nor mixed |
| `setup` | 2 operators, 2 lost connections | seeded once, migration can be re-run |

Bounds. A lost update needs two writers and a doubled one needs one writer, one
lost acknowledgement and one retry, so two requests and two attempts reach
both. Rows of different students meet only in the rowversion counter, so one
row is enough for TLC; the proofs are for any number of both, and of requests.
Bodies: total down and paid up are legal alone and illegal together; `OddBound`
passes the check in Python (18 <= 18 doubled half-cents) and fails the
constraint after rounding; `TooLarge` does not fit the column; `Resettle` makes a
retried `LowerTotal` illegal; `MoveDue` leaves the amounts alone. Two students
and an unmapped id of the reads distinguish own, foreign, unlinked and missing. Three ticks cross one midnight with a tick to spare on
either side. Two tries and two executions of a send are the fewest that repeat
both, and one lost host repeats a round before or after its result is recorded.
`MaxChanges`, `MaxTick`, `MaxCrashes`, `LastDay`,
`MaxOutages` and `MaxCuts` are bounds of the models and not of the code. Two days
are enough for an id computed before midnight and used after it, and for a run of
the first day that queries on the second; one request beside the timer gives one
id two starters, and with the re-invoked timer three. A pool of one with one
overflow connection has every state of `QueuePool` that three threads can tell
apart: idle, overflowing, full with a waiter. Two threads and two requests are
the fewest that can leave an id behind and find it. Two lost connections leave
a half-done script and break its re-run off as well. Symmetry is used on
readers, pool threads and the threads and requests of `Correlation`, in runs
without liveness.

Fairness. `FeeUpdate`: weak fairness of each request's own progress: a thread
that runs a handler is scheduled until it returns, and a lock that is free is
granted. Weak is enough because a holder ends its transaction and never takes a
second lock, and each waiter that gets its turn ends or retries a bounded number
of times. Arrivals, failures and dying workers are not fair. `ReminderRun`: the
task hub delivers every message until it is handled and a running activity goes
on; crashes, refusals and failures are not fair. `ReminderDays`: midnight comes,
the host invokes the timer until an invocation has ended, a started request
goes on and the task hub runs queries, sends and completions; arrivals, fee
updates, lost hosts and failing runs are not fair. Weak is enough, since no other
step takes a thread's or a run's next step away for ever. The other
modules state no liveness: a read waits for nothing, and a thread that waits for
the pool or backs off is released by time.

## Findings

* A stale `If-Match` may be answered 400 instead of 409 (`admin.py:150` runs
  before the comparison in `students_repository.py:314`; README.md:520, :433).
* A conditional update that was applied can be answered 409 "modified by another
  request" when its commit acknowledgement was lost (`db.py:121`,
  `exception_mapping.py:71`). It is never applied twice.
* The handlers pass the local date as today (`students.py:92`, `:163`,
  `admin.py:174`; `payment_status.py:33` asks for UTC). On a host in UTC the three
  computations of the status agree.
* `insert_many` reports the number of entries, which is not the number of rows it
  added after a retried commit (`reminder_log_repository.py:42`, `:63`).
* A second start of a day whose run has completed replaces the run and mails
  again (`timer.py:39`, `http_start.py:38`); `timer.py:53` counts on a duplicate
  being skipped. While the run is active the duplicate is refused.

Noticed while modelling, without a run of its own:

* An unpaid row before its due date is PartiallyPaid (`payment_status.py:48`
  against README.md:128; the docstring of the function agrees with the code).
* The timer takes any failure of `start_new` for a duplicate (`timer.py:52-53`):
  that day may have no run. `EachDaySelects` allows it for that reason alone.
* `ping` ignores `timeout_seconds` (`db.py:80-90`; `db.py:84` promises a window).
* With the local bypass and no inbound header, what is logged during validation
  carries another id than the answer (`jwt_validator.py:76`; README.md:510). In
  Azure nothing is logged between the two ids. `OneIdPerRequest` names this
  exception.
* The HTTP starter answers with the instance id, not the inbound id
  (`http_start.py:71`; README.md:510).

## Proofs

`FeeUpdateProofs` proves, for every set of requests, students and bodies, every
legal seed table and every number of attempts:

| Theorem | Statement |
|---|---|
| `Invariance` | `Spec => []Inv`, with `Inv == TypeOK /\ IInv` |
| `TypeCorrect` | `[]TypeOK` |
| `BoundAlwaysHolds` | `[]FeeBoundHolds` |
| `ConditionalAtMostOnce` | `[]AppliedAtMostOnce` |
| `AttemptsBoundCommits` | `[]AppliedAtMostPerAttempt` |
| `NothingLost` | `NoLostUpdate` |
| `EtagAlwaysCurrent` | `[]EtagIsCurrent` |
| `RefusalsChangeNothing` | `[]RefusalMeansUntouched` |
| `Refinement` | `ImplementsRecord` |

Assumptions are those named in `FeeRules` and `FeeUpdate`: `None` is no number,
row, request or order, bodies are valid, seed rows are legal and no newer than
the counter, at least one attempt. TLC evaluates them in every run.

The argument. None of the properties is inductive alone. A commit replaces a row
by a draft computed from a snapshot that may be several steps old, so the
invariant says what makes that safe: the lock of a row is held exactly by the
transaction in `commit` that changed it (`LockInv`); a snapshot whose version is
the row's *is* the row (`SnapInv`); and a draft was computed from the row it
will replace (`DraftInv`), which nobody can change while the lock is held. No
row is ahead of the counter (`VersionInv`), so a new version is larger than any
token, and a conditional request that was applied holds a token behind its row
(`TokenInv`): a retry finds it stale. `ArrivedInv` says what a request carries
where. The many failing actions have one common effect (`Failing`), and both
forms of commit another (`Committing`), so each step lemma has at most seven cases. The
ETag and the refusals need one more inductive conjunct each (`EtagInv`,
`RefusalInv`), proved on top of `Inv`. That unconditional requests, too, commit at
most once per attempt needs a count: a request that is still at work has
committed at most as often as it has attempts behind it (`CountInv`).

`FeeRulesProofs` proves that the three computations of the status agree, that
overdue rows stay overdue, that the fields of a details answer agree, and that on
whole cents the check in Python and the constraint accept the same rows.

The other proof modules are about one module each. Every safety invariant and
action property that a run checks is a theorem, for every value of the constants.

| Module | Theorem | Statement |
|---|---|---|
| `StudentReadsProofs` | `TypeCorrect` | `[]TypeOK` |
| | `OthersStayHidden` | `[]OnlyOwnRecord` |
| | `MissingStaysHidden` | `[]MissingLooksForeign` |
| | `DetailsAreConsistent` | `[]DetailsConsistent` |
| | `CountCovers` | `[]CountCoversPages` |
| | `OverdueIsFinal` | `[]StatusNeverGoesBack`, if `Offset = 0` |
| `ReminderRunProofs` | `TypeCorrect` | `[]TypeOK` |
| | `AuditIsComplete` | `[]AuditComplete` |
| | `AuditIsWhole` | `[]AuditAllOrNothing` |
| | `MailIsBounded` | `[]MailBounded` |
| | `SentIsDelivered` | `[]SentMeansDelivered` |
| | `FailureIsIsolated` | `[]FailureIsolated` |
| | `LateMailIsRedelivered` | `LateMailNeedsLostHost` |
| | `RunImplementsJob` | `ImplementsJob` |
| `ReminderDaysProofs` | `TypeCorrect` | `[]TypeOK` |
| | `OneReminderAtATime` | `[]NoDoubleSend` |
| | `SettledAreLeftAlone` | `[]SettledLeftAlone` |
| `ConnectionPoolProofs` | `TypeCorrect` | `[]TypeOK` |
| | `NoConnectionIsLeaked` | `[]NothingLeaked` |
| | `OnlyOutagesAreUnavailable` | `[]UnavailableNeedsOutage` |
| | `HealthIsNotFooled` | `[]NoFalseAlarm` |
| | `ConnectionsAreBounded` | `[]OpenBounded` |
| `CorrelationProofs` | `TypeCorrect` | `[]TypeOK` |
| | `RunLinesFollowTheRun` | `[]RunLinesCarryRun` |
| | `NoIdIsBorrowed` | `[]NoBorrowedId` |
| | `RequestsKeepOneId` | `[]OneIdPerRequest` |
| `DatabaseSetupProofs` | `TypeCorrect` | `[]TypeOK` |
| | `SeedsGoInOnce` | `[]SeededOnce` |
| | `RolesCanBeRerun` | `RolesRerunnable` |

Assumptions, besides that bounds are natural numbers and limits positive: the
table has finitely many students (`StudentsAssumption`) and the host finitely
many threads (`WorkersAssumption`), since the properties count them; seed rows
and edits are rows; `None` is none of the values it stands beside; an activity
belongs to a run and the kinds of invocation are disjoint (`Correlation`).
`OverdueIsFinal` alone has a hypothesis of its own, that the process's date is
the server's; without it the statement is false, which is what `reads_zone`
shows of the code.

The arguments:

* `StudentReads`. A request in flight knows what it has read: `render` holds a
  row that was linked to the caller when it was read, and `page` the count of the
  students that the same filter still selects (`Progressing`). The history of
  links names every row as it is (`LinksCurrent`), so a relink after the read
  takes nothing back. For `OverdueIsFinal` two requests that have read one version
  must have read one row, and a version answered Overdue must be overdue in the
  table and in every memory of it (`RowsKept`, `SeenKept`); that days do not go
  back while the clock runs is a lemma about division, and that the three
  computations agree is `StatusesAgree`.
* `ReminderRun`. Steps are of one activity, which leaves the orchestration and
  its log alone, or of the orchestration, which leaves the activities alone after
  it has scheduled them. A student's mails are bounded by the executions behind
  them (`Spent`: a lost host repeats one round, RetryOptions another, and what an
  execution delivered late may still send counts as spent); a row of
  the log says what became of a recorded send (`LogInv`), and once the stage is
  `log` all sends of the batch are recorded for good (`StageInv`), so a repeated
  transaction adds equally to every student. A completed run has no send under
  way, so its mails come from `late`, which is positive only for a student of the
  batch and after a host was lost (`TaskInv`). In the refinement each step maps to
  one step of `ReminderJob` or to none; the witness of `Audit`'s verdict is the
  result of each task.
* `ReminderDays`. Unless a run under an id has failed, everything queued for the
  id was queued by its latest start, and that run is still sending: an id can
  only be replaced when its run has ended, and a run ends well only with its
  sends (`IInv`). For `SettledLeftAlone` a run that has not fanned out yet has
  nothing of its start queued (`StartInv`), so executing a send of an earlier
  start does not forget one that is about to be queued.
* `ConnectionPool`. `TypeOK` is inductive only together with `NothingLeaked`: a
  pool is counted down by a thread that works, and such a thread is counted. A
  step of a thread changes that thread and one pool (`ThreadStep`), so the
  connections out change by the one thread that enters or leaves `work`.
  `OutageInv`: a thread that tries while the database is down, or holds a
  connection that died, knows of it. `EngineInv`: an engine being built is empty
  and nobody's; an engine that was not cached is used by its builder alone and
  found empty by it, so it opens one connection. The sum over all pools follows
  by counting.
* `Correlation`. Between binding and answering, the thread of a request holds the
  request's id, because no two invocations are on one thread (`Exclusive`); an
  activity binds its run's id before its first line.
* `DatabaseSetup`. Between creating a table and seeding it a run is the only one
  there, since the creation fails when the table exists (`SeedInv`). A run of 006
  that no other has crossed finds the table as its own batches left it
  (`AloneInv`).

Each inductive invariant was first checked by TLC on the instance of the module's
run. In the models a step that changes several fields of one record writes them in
one inner EXCEPT (`![i] = [@ EXCEPT ...]`), the form in which the prover's
translation of records is reliable.

Only model-checked: liveness (`EveryRequestAnswered`, `RunEnds`,
`EachDaySelects`), which is out of reach of the prover. The five disagreements of
*Findings* are counterexamples and stay with TLC.

## Not modelled

The administrator repository (read-only, no handler calls it), e-mail
templates, the JSON layout of answers, infrastructure and CI. Of JWT validation
the cryptography: whether a token is good is an input. Of telemetry the set-up
of handlers and exporters and OpenTelemetry baggage. Of the scripts 004, 005 and
007 with the starters of the first two, which set columns of named rows;
relinking is an action of `StudentReads`. The length of `ErrorDetail` (`NVARCHAR(500)`) against the
messages of SendGrid is not modelled, since the texts are outside the repository.
A request without If-Match has no at-most-once guarantee in the code; what is
claimed of it is `AppliedAtMostPerAttempt`.

## Plan

Modelling is complete as far as the code has state worth checking, and every
safety property of the runs is proved. What is left:

1. For each finding, the strongest statement that does hold, as a theorem: that a
   409 after a lost acknowledgement comes only from the request's own commit or
   another writer's, that `insert_many` reports no more rows than it added, and
   that a replaced run had ended.
2. The steps of the liveness arguments that are within reach: the measures that
   retries and executions decrease, as action properties.
3. `ReminderDays` as the composition of `ReminderJob`s: each instance's steps,
   between two starts of its id, as steps of one job.
