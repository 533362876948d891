# A TLA+ model of the event trigger platform

The platform stores triggers (webhook, one-time, cron), fires them, records each
firing in an event log and publishes it to the Kafka topic `trigger-events`.
This directory holds TLA+ modules that model that life, TLC configurations that
check it on small instances, and TLAPS proofs for every size. Paths below are
relative to the root of the repository.

    tlc -workers 2 -config single.cfg MCPlatform      # one run
    tlapm DeliveryProofs.tla                          # one proof module

## 1. The system

### Components

| part | state | operations | correct when |
|---|---|---|---|
| MySQL and `internal/storage` | tables `triggers`, `trigger_schedules`, `event_logs` | one statement or transaction per method; foreign keys cascade a delete | ids are unique; a delete takes the schedules along and keeps the events |
| `internal/events` | none of its own; a call under way is a local state | `FireTrigger`: insert the log entry as a success, publish, on an error update it to a failure | what the log calls a success is in Kafka once the call is over |
| `platform/events` and Kafka | the topic | `Publish`: ten seconds, three attempts, acks=all | an acknowledged message is stored |
| `internal/scheduler`, `cmd/scheduler` | the batch of the last poll, the row being processed | `Run`, `processSchedules`, `processSchedule`, `createNextSchedule` | a schedule completes only after its publish, fires a bounded number of times, and is settled in the end; a cron trigger keeps exactly one run ahead |
| `internal/triggers`, `internal/api/handlers/triggers.go` | a request under way | create, update (read, write, reschedule, read), delete | an update replaces the schedules; an answer says what happened |
| `internal/api/handlers/webhooks.go` | a request under way | check, fire, reply | 202 means the event is in Kafka |
| `internal/api/server.go`, `cmd/api` | serving, draining or stopped | start, graceful shutdown, exit | a graceful shutdown cuts no handler off half-way |
| event and trigger queries (`internal/storage/event_logs.go`, `triggers.go` and the services and handlers above them) | none | lookup by id; filtered, ordered pages with a total | a client that reads all pages has seen every row |
| retention (`db/migrations/004`) | `retention_status` and the rows themselves | two MySQL events: archive after 2 hours, delete after 48 | nothing goes early, and the archive is the older part |
| health, metrics, routing, configuration, logging, idempotency keys | - | output, constants | see "What the model leaves out" |

The scheduler process and the API process share nothing but the database and
Kafka. There is no lock between them and, outside two transactions, nothing is
atomic beyond one statement: the engine acts on a copy of rows that the API
changes meanwhile, the event service writes the log before it publishes, and an
update writes the trigger and its schedules in two steps.

### What is hard

Concurrency (engine and API, two engines, two updates), partial failure (every
statement and every publish may fail, or succeed and seem to fail), process
death and graceful shutdown in the middle of a firing, retry counting across
polls, a bounded batch, times that must move on, pages of a list that changes while
it is read, and rows that two timers age while calls are still writing them.
`PROJECT.json` lists these hazards line by line with the properties that would notice.

## 2. The modules

`Storage` <- `EventService` <- `Engine`, `WebhookHandler`; `Storage` <-
`TriggerService`; `ApiServer` extends the two API modules, and `Platform` all of
them. `ScheduleLifecycle` is the abstract specification. `Storage` <- `Queries` is a
system of its own: the history and its readers. `MCPlatform` and `MCQueries` give
constants their values. The theorems are in the chain `PlatformProofs` <-
`DeliveryProofs` <- `OutageProofs` <- `SchedulerProofs` <- `SingleProofs`, which
`LifecycleProofs` and `CronProofs` extend, and in `QueriesProofs`.

- **Storage** (`internal/storage`, `db/migrations/001`, `002`). A table is a
  function from ids to rows. An operator named after a Go method relates the
  table before and after, given the context `c` it is called under and `ok`,
  what the caller is told; `Runs` and `Refused` say what may become of a
  statement. MySQL reports *changed* rows, so an UPDATE that changes nothing is
  reported as "not found". Names, payloads, headers and endpoints
  are left out; a config is the set of instants its `run_at` or cron expression
  matches. A deleted row keeps its content under the status `deleted`, and an
  event remembers the schedule it was for: history that no action reads, only
  properties do.
- **EventService** (`internal/events/service.go`, `platform/events`). `call[c]` is
  the `FireTrigger` call of caller `c`; its steps are `LogEvent`, `PublishAcked` or
  `PublishFailed`, `MarkFailed`. A failed publish may have stored its message. The
  topic is a set: a resend inside the client library repeats the same event id.
- **Engine** (`internal/scheduler/engine.go`, `cmd/scheduler/main.go`). `Poll` reads
  a batch (`SnapshotType` is `ScheduleWithTrigger`), `MarkProcessing` takes its
  oldest row, then `RetryLater`, `CancelAfterMaxRetries` or `Complete`, and after
  `Complete` `DeactivateOneTime` or `ScheduleNextRun`. All of them use the copy in
  `item[p]`, not the tables. `Shutdown` cancels the context; what is under way goes
  on without database or Kafka; `Crash` drops it.
- **TriggerService** (`internal/triggers/service.go`). `Create` and `Delete` are one
  transaction; a PUT is `BeginUpdate`, `WriteTrigger`, `WriteSchedule`, `Respond`.
- **WebhookHandler** (`internal/api/handlers/webhooks.go`). `ReceiveWebhook`, the
  steps of `FireTrigger`, `Reply`.
- **ApiServer** (`internal/api/server.go`, `cmd/api/main.go`). `BeginShutdown` stops
  accepting, `EndShutdown` exits when no handler is running, `Kill` is a crash or the
  end of the 30 seconds, `StartServer` the restart. `Exit` drops what every handler was
  doing; the database keeps what its statements had done.
- **Platform**. `Next` interleaves the steps of all processes. All properties are
  stated here.
- **ScheduleLifecycle**. What a scheduled run goes through, with no tables,
  batches or faults: planned, claimed, delivered, completed; put back fewer than
  `MaxRetries` times, then given up. The refinement mapping reads the phase and
  the failures from the schedule's row and the delivery from the topic.
- **Queries** (list and lookup queries, `db/migrations/004`). The writers are the
  statements of `FireTrigger` (with the `fired_at` it takes before its INSERT), create,
  status update and delete of triggers, `ArchiveOldEvents` and `DeleteOldEvents`.
  `Pages` is what `ORDER BY ... LIMIT ... OFFSET` may return: rows of the same second
  come in any order. A client's walk is a COUNT and a SELECT for each page
  (`CountRows`, `ListRows`); it stops at a short page or at `total_pages`. `missing` is
  a history variable: the rows the client is owed. Everything here is a reader of the
  engine's tables or a timer, so it is checked apart from `Platform`, over the same
  `Storage`.

Operators under a comment "Mutant:" are plausible bugs. No specification uses
them; putting one in the place of the operator it follows shows that a property
can fail (the list is in `PROJECT.json`).

## 3. The runs

| run | instance | properties |
|---|---|---|
| `single` | 1 scheduler, 1 cron trigger, create/delete/pause, all faults of both processes | `TypeOK`, `CompletedWasPublished`, `OneLiveSchedule`, `OneRowPerOccurrence`, `AttemptsBounded`, `ImplementsLifecycle` |
| `updates` | 1 scheduler, 2 concurrent PUTs, one config never matches, Kafka failures, API shutdowns | `CronChainEndsOnlyAtRetryLimit`, `CompletedIsFinal` |
| `outage` | 1 scheduler, a cron and a one-time trigger (a `run_at` in the past too), batches of one row, Kafka failures, fairness | `FailedFiringIsReverted`, `LoggedSuccessWasPublished`, `CancelledWasTried`, `EveryDueScheduleSettles`, `PendingRunIsNotDropped` |
| `webhooks` | 2 webhook requests, pause and delete, all faults of the API and its clients | `AcceptedWasPublished` |
| `listing` | 2 triggers, 2 events, three lists (active events of a trigger, archived failures, active triggers), pages of one row | `WalkIsComplete`, `TotalPagesAreEnough`, `HistoryIsKept`, `ArchiveIsOlder`, `EventListsDoNotShift` |

Each property says what it needs. `CompletedWasPublished`, `AcceptedWasPublished`,
`HistoryIsKept` and `ArchiveIsOlder` need nothing. `AttemptsBounded` and
`CompletedIsFinal` hold with one scheduler; `OneLiveSchedule`, `OneRowPerOccurrence`
and `ImplementsLifecycle` with one scheduler and without config updates; nothing else
is assumed of the environment: there are database errors, Kafka failures, crashes and
shutdowns. They fail with a second scheduler (`duplicate_firing` shows how) and the
last three with config updates (`update_race`). `CancelledIsFinal` and
`PendingRunIsNotDropped` are what `update_race` and `reschedule_lost` refute; without a
PUT of the config, or of anything, one scheduler keeps them. `FailedFiringIsReverted` and
`LoggedSuccessWasPublished` hold when only Kafka fails. `CancelledWasTried` needs that,
one scheduler and no config updates: an update cancels rows that were never tried, and a
database error may keep a failure out of the log.
`CronChainEndsOnlyAtRetryLimit` holds with one scheduler and any updates when Kafka
fails and the API is shut down gracefully; a crash between `Complete` and
`ScheduleNextRun`, a database error there, or an API killed between the two statements
of a PUT, ends a chain as the code stands. A chain counts as ended by the retry limit
(`GivenUp`) only at a cancelled run of which the log shows `MaxRetries` failures: a run
that an update has cancelled is no excuse.

The properties about lists say what they exclude, and what they exclude does happen.
OFFSET pages shift when a row leaves ahead of one that stays: event lists never do
(`EventListsDoNotShift`), except a list of successes, which loses an event when its
publish fails; the list of triggers does, on every delete or pause. Rows of the same
second have no tie-breaker and may swap between two pages. A client that stops at
`total_pages` misses a row when another comes in between the COUNT and the SELECT. The
two MySQL events run every 5 and 10 minutes, so a row may stay listed that much longer
than its age allows; it never goes early.

Seven runs check what a document or comment says and the code does not do:

| run | property | the claim |
|---|---|---|
| `shutdown_orphan` | `FailedFiringIsReverted` | README.md:86, a failed schedule is reverted and retried. A shutdown cancels the context of the revert too; the row stays `processing`. |
| `outage_ends_cron` | `CronSurvivesOutage` | README.md:618, the scheduler retries once Kafka is back. After the last retry no next run exists and the active cron trigger is silent. |
| `update_race` | `CancelledIsFinal` | README.md:443, an update cancels the old schedules. An engine that read one before fires it, and goes on to plan a run from the old config. |
| `pause_race` | `PausedDoesNotFire` | internal/triggers/service.go:171, the status is checked before firing. It is checked by the poll. |
| `unchanged_update` | `NotFoundMeansAbsent` | internal/api/handlers/triggers.go:136, 404 is for a missing trigger. An update that changes nothing gets it too. |
| `reschedule_lost` | `PendingRunIsNotDropped` | README.md:14 and internal/api/handlers/triggers.go:128, a one-time trigger runs at its `run_at` and an update affects future firings. An engine that is firing the old run deactivates the trigger over the run a PUT has just inserted. |
| `duplicate_firing` | `NoDuplicateProcessing` | internal/storage/schedules.go:86, the UPDATE prevents duplicate processing. It does not look at the old status. |

### Bounds

- `TriggerIds`, `ScheduleIds`, `EventIds`: the supply of ids. One trigger is enough
  for what concerns the schedules of one trigger; `outage` has two, since they
  compete for the batch. Three schedules are a run, its successor and what an
  update inserts. Events allow every schedule to be fired up to the retry limit
  (6 in `single`, 8 in `outage`). When ids run out, the step that would draw one is
  not taken. In `outage` the supply suffices for every behaviour, so liveness is
  not cut short.
- `MaxTime`: the clock stops; the configs contain one instant more, so a cron still
  has a next time then.
- `MaxRetries = 2` for 5: a first failure that is retried and a last one that is
  not. `BatchLimit` is 1 or 2 for 100: a batch that leaves rows behind, and one with
  a row waiting while another is processed.
- `Grace` is 0, or 1 in `outage`, for a minute: with 1 a one-time trigger may be
  created for the instant before, and is due at once.
- `listing`: `ArchiveAge` 1 and `DeleteAge` 2 ticks for 2 and 48 hours, `PageSize` 1,
  `MaxTime` 3, so rows of every age meet in one list. A call is shorter than
  `ArchiveAge` (`ClockStep`; seconds against hours). `FireTrigger` starts only while an
  event id is left for it (`IdLeft`). A walk whose list has shifted under it is
  abandoned: nothing is claimed of it.
- Deadlock is not checked: with bounded ids and time every behaviour ends.

### Fairness

Only `outage` needs fairness. `FairSpec` assumes weak fairness of the clock and of every
scheduler's steps and event calls: a ticker every five seconds; a single goroutine that
always has its next statement to send; every publish returns within ten seconds. It
assumes nothing of clients and nothing of faults: Kafka may fail for ever, and
`EveryDueScheduleSettles` holds because of the retry limit. Crashes and database errors
are excluded from `outage`: a row they leave in `processing` is never settled (see
`shutdown_orphan`).

## 4. The proofs

All theorems are about `Spec` with the constants left open, under the named
assumptions `StorageAssumption`, `EngineAssumption`, `TriggerServiceAssumption` and,
for `Queries`, `QueriesAssumption`: any number of ids, schedulers, requests, webhook
requests, any limit, any page size, any set of faults. Where a theorem needs more, it
says so as an ASSUME: `OnlyKafkaFails` (the faults are among `kafka` and
`apishutdown`), `NothingFails` (at most `apishutdown`), `OneScheduler` (there is at most
one), `NoConfigUpdates` and `NoPauses` (no PUT of a config, or of a status), or
`MaxRetries > 1` (5 in the code). Each is a choice of constants with which the system runs; `single` and `outage` satisfy most.

| theorem | assumes | proves |
|---|---|---|
| `PlatformProofs!TypeCorrect` | - | `[]TypeOK` |
| `DeliveryProofs!CompletedPublished` | - | `[]CompletedWasPublished` |
| `DeliveryProofs!AcceptedPublished` | - | `[]AcceptedWasPublished` |
| `OutageProofs!LoggedSuccessPublished` | `OnlyKafkaFails` | `[]LoggedSuccessWasPublished` |
| `OutageProofs!FailedFiringReverted` | `OnlyKafkaFails` | `[]FailedFiringIsReverted` |
| `SchedulerProofs!CompletedStays` | `OneScheduler` | `CompletedIsFinal` |
| `SchedulerProofs!AttemptsAreBounded` | `OneScheduler` | `[]AttemptsBounded` |
| `SingleProofs!OneRunAhead` | `OneScheduler`, `NoConfigUpdates` | `[]OneLiveSchedule` |
| `SingleProofs!OccurrencesScheduledOnce` | `OneScheduler`, `NoConfigUpdates` | `[]OneRowPerOccurrence` |
| `SingleProofs!CancelledStays` | `OneScheduler`, `NoConfigUpdates` | `CancelledIsFinal` |
| `SingleProofs!PausedNeverFires` | `OneScheduler`, `NoConfigUpdates`, `NoPauses` | `PausedDoesNotFire` |
| `SingleProofs!PendingRunKept` | `OneScheduler`, `NoConfigUpdates`, `NoPauses` | `PendingRunIsNotDropped` |
| `CronProofs!CancelledAfterAllTries` | `OneScheduler`, `OnlyKafkaFails`, `NoConfigUpdates` | `[]CancelledWasTried` |
| `CronProofs!CronChainKept` | `OneScheduler`, `OnlyKafkaFails` | `[]CronChainEndsOnlyAtRetryLimit` |
| `CronProofs!CronNeverEnds` | `OneScheduler`, `NothingFails`, `MaxRetries > 1` | `[]CronGoesOn` |
| `CronProofs!CronSurvivesWhenNothingFails` | the same, `NoConfigUpdates` | `[]CronSurvivesOutage` |
| `CronProofs!FiresOnce` | `OneScheduler`, `NothingFails` | `[]FiredOnce` |
| `LifecycleProofs!LifecycleImplemented` | `OneScheduler`, `NoConfigUpdates` | `ImplementsLifecycle` |
| `QueriesProofs!TypeCorrect` | - | `[]TypeOK` of `Queries` |
| `QueriesProofs!HistoryKept` | - | `[]HistoryIsKept` |
| `QueriesProofs!ArchiveOlder` | - | `[]ArchiveIsOlder` |
| `QueriesProofs!WalkComplete` | - | `[]WalkIsComplete` |
| `QueriesProofs!TotalPagesSuffice` | - | `[]TotalPagesAreEnough` |
| `QueriesProofs!EventListsStay` | - | `EventListsDoNotShift` |

Four of these are about claims that a violation run refutes. They say what the
counterexample needs: `CancelledIsFinal` fails with two schedulers or an update,
`PausedDoesNotFire` and `PendingRunIsNotDropped` with two schedulers or a PUT, and
`CronSurvivesOutage` with a failure, an update of the config or a second scheduler. No crash, shutdown, lost answer or deletion is enough for the first three.

None of the properties is inductive. What is added, and why:

- `TypeInv` adds to the types what the actions rely on: the row a scheduler works on is
  not `Null` while it fires, a call past `LogEvent` has an event, a request under way
  has its trigger.
- `DeliveryInv`. That `Complete` may run says only that the call returned `ok`. The
  invariant follows the event of a call: while it is to be published it is logged as a
  success and belongs to this call alone (`CallsInv`); when the call has returned `ok`
  the event is also in the topic, and for a scheduler it is an event of the schedule
  being processed (`FiringInv`). Two calls never hold the same event, so nobody's
  `MarkFailed` touches an event that another relies on, which is why the result does
  not depend on the number of schedulers.
- `OutageInv`. Who is not firing has no call under way (`IdleInv`), so no step drops a
  call half-way; a schedule is `processing` only while some scheduler fires it
  (`ProcessingInv`), which is kept even when two fire the same one, because each moves
  the row on when it stops.
- `OneSchedulerInv`. The rows a scheduler has read still say what the table says, but
  for the status (`RowsInv`): no other process writes `fire_at` or `attempt_count`, and
  nobody but the scheduler itself completes one. The steps are first reduced to their
  effect on the table (`Moved`, `Polls`, `Marks`, `Settles`, `Plans`, `Aside`), which
  the later proofs share.
- `CountInv`. For a pending schedule, and a row of a batch, the events are at most as
  many as the attempts counted; while it is fired there may be one more; the count of a
  schedule that can be fired stays below the limit. A crash loses the row held in
  memory but leaves the schedule `processing`, which no poll reads, so it cannot be
  fired uncounted.
- `LiveInv`. A live schedule has an existing trigger, and the only one; the scheduler
  about to plan a run (`finish`) is at a trigger with no live schedule; every schedule
  of an existing trigger that is over has been due, so the run planned after `now` is
  new (`TablesInv`, `OneLiveInv`, `ClaimInv`). Without config updates nobody else
  inserts a schedule for a trigger that has had one.
- `ActiveInv`, with `LiveInv`: while no client pauses a trigger, the engine deactivates
  only a one-time trigger, and only when its one run is over. A row of a batch that can
  still fire is live, so its trigger is active.
- `TriedInv`. An attempt is counted only after the log shows its failure: the event of the
  call under way is a success of the schedule being fired, so `MarkFailed` adds one to
  its failures, and a call that has failed is one failure ahead of the count
  (`TriedCall`). It may fail without an event when its trigger is deleted meanwhile (a
  foreign key refuses the log entry); then the row is gone as well (`OwnedRows`). With
  `CountInv` the failures of a cancelled schedule are exactly `MaxRetries`, and no step
  takes one away (`KeepsTries`).
- `CronInv`. The chain of a recurring trigger hangs on a live run, on one given up after
  the last retry (`RetriesInv`: `AttemptsInv`, `OutageInv` and `TriedInv`), on an update that is about to insert one, or on the scheduler that is
  about to plan one (`ChainInv`). The last does so only if it works from the current
  config. If it does not, some update has changed the config since the poll; that update
  has inserted a run that is in no batch, or is about to (`StaleInv`), so the chain does
  not depend on what the scheduler does with the old row. An update that inserts no run
  writes a config that matches no more (`FirstRunInv`), and such a trigger does not recur.
  Two updates at a time need no case of their own: the one that writes the trigger last is
  the one whose run counts, and an insertion only adds a run. `OutageInv` is needed for
  the rows: nothing is left in `processing`.
- `CalmInv`. When nothing fails a call still fails if its trigger is deleted meanwhile.
  Then its rows are gone as well (`OwnedRows`,
  `CalmCalls`), so the scheduler finds nothing to put back or to give up and no attempt is
  ever counted (`NoRetries`). From `ChainInv` and `NoRetries` follows `CronGoesOn`;
  `FiredOnce` follows from `CountInv`, which allows one event more than was counted.
- `LifecycleInv` adds that the topic holds logged events only. Under the mapping each
  step of the scheduler is a `Plan`, `Claim`, `Complete`, `PutBack` or `GiveUp` of one
  run or changes nothing, a publish is a `Deliver`, a deletion a `Withdraw`. `GiveUp`
  asks for exactly `MaxRetries - 1` failures where the code tests `>=`: `CountInv`
  closes the gap.
- `HistoryInv` says how old a row is when it is archived or deleted, and that a call
  under way began less than `ArchiveAge` ago: an event with an old `fired_at` can come
  in, but not behind the archive. `WalkInv` says how many rows are ahead of one the
  client has not seen: at least `(page - 1) * PageSize`, so it is not skipped;
  `TotalPagesRoundsUp` is the arithmetic of both roundings.
- `EventListsDoNotShift` needs only `HistoryInv`: `LosesTheOldest` says it of a step, and
  the two MySQL events draw their line by age, a deletion takes the whole of a list or
  none, and a call adds an event or turns a success into a failure.

Only model-checked: liveness (`EveryDueScheduleSettles`), which this prover does not do,
and that an action which picks one of `Pages` or `GetDueSchedules` has one to pick. What the violation runs refute is of course not proved;
`NoDuplicateProcessing` and `NotFoundMeansAbsent` have no theorem that isolates the cause.

## 5. What the model leaves out

- One clock: no skew between the processes and MySQL. A tick is the grain at
  which cron expressions match.
- A message Kafka stores after the publisher gave up is stored at the moment of the
  failure. Nothing reads the topic.
- A statement in flight when its context is cancelled either ran or did not; it is
  the fault `db`.
- Refused requests (400, 404 before any write) and failed reads change nothing and
  are not actions. So are updates of the name alone. Failures to parse a stored
  config cannot happen: only normalised configs are stored.
- The foreign keys, the rejection of the zero time by MySQL and the cancelled
  contexts of net/http are modelled from how the code uses them.
- Lists: the filters on source and type select a fixed part of the rows and are left
  out, and so is the next run shown beside a trigger. Reads of one row change nothing;
  `GetEventLog` appears in `HistoryIsKept`. `fired_at` is taken from the Go process and
  compared with `NOW()` in MySQL: the model has one clock, so a difference of time zone
  or clock between them is not covered. `(page - 1) * limit` overflows for pages near
  2^63 / `limit` and beyond: MySQL refuses a negative product (500), a positive one is
  the offset of some other page. No state changes either way; pages that large are left
  out.
- Not modelled: routing, CORS, request ids, response formatting, configuration,
  logging and the generated API documentation have no state. Health and metrics answer
  constants; the manual test endpoint answers 501; `idempotency_keys`, its cleanup
  event and `IncrementScheduleAttempt` have no user.

## 6. What could follow

1. `Validation`: which status a refused request is answered with, including malformed
   configs that are answered 500 (internal/triggers/service.go:202, 222, 253, 275).
2. An abstract lifecycle that has the updates of a config too: what a scheduler with an
   old copy may do to the new runs.
3. Retention and the queries composed with `Platform`, for a client that looks up
   the event id of a 202.
