# Verification of vef-framework-go

TLA+ specifications of the parts of vef-framework-go that are protocols
between processes, goroutines, a database, an object store and a message broker;
the TLC runs that check them on small instances; and TLAPS proofs of their safety
properties for every instance.  The reference is the Go source under `src/`;
`PROJECT.json` maps every definition to the lines it models.

## The system and its parts

vef-framework-go is an application framework: a dependency-injection container
around an HTTP API, CRUD, security, storage, workflow, scheduling and events.
Most of it is request-local code over a database.  The parts in which several
actors share state, and can get it wrong together, are these.

| Part | Source | Modules | State of the work |
|---|---|---|---|
| Schedule arithmetic and the fire cursor | `cron/trigger.go`, `internal/cron/store/decision.go`, `manager.go` | `CronTrigger`, `CronCursor` | modelled, the successor function proved against its meaning |
| Durable cron store | `internal/cron/store/*` | `CronStore` | modelled, every safety property proved |
| Event outbox | `internal/event/transport/outbox` | `Outbox`, `OutboxLease`, `Forwarding` | modelled, every safety property and the refinement proved |
| Event inbox | `internal/event/inbox`, `internal/event/middleware/inbox.go` | `Inbox`, `InboxLease` | modelled, every safety property proved |
| Redis Streams transport | `internal/event/transport/redisstream` | `RedisStream`, `RedisTimely` | modelled for one stream, every safety property proved |
| Upload claims, claim sweeper, delete worker, CRUD file references | `internal/storage`, `storage`, `crud` | `Storage` | modelled, every safety property proved |

How they interact: a business transaction publishes through the bus into the
*outbox* table; the relay job forwards rows to a sink transport, such as *Redis
Streams*; a subscription of that transport calls a handler behind the *inbox*
middleware, which makes repeated deliveries harmless.  The relay, the claim sweeper,
the delete worker and the cleaners are jobs of the scheduler.  The durable *cron
store* is independent of the event path but announces its runs on the bus.
*Storage* announces deletions and dead letters on the bus, from its own tables.

## Modules

### CronTrigger, CronCursor

`CronTrigger` holds the pure part: trigger validation and successor
(`TriggerNext`), the window (`nextFire`), the counting loop (`Occurrences`), the
misfire decision (`decide`) and the manager's cursor refresh.  The clock is finer
than the persisted milliseconds (`Milli`), because truncation at that border is
where off-by-one errors hide.  A parsed cron expression is the set of instants at
which it matches; the parser library is external.  The descriptor `@every d`, which
`trigger.go` also accepts, has no such set (its next fire is `d` after whatever instant
is asked about) and is not modelled.  `Occurs` says without any
stepping at which milliseconds a schedule is to run; everything that steps is
compared with it.

`CronCursor` puts one schedule row under `Claim`, `Pause`, `Resume` and `Update`
and compares what it fires and misses with `Occurs`.  `EachOccurrenceOnce` says that
the cursor is an occurrence that is owed and that every one behind it was fired or
journalled as missed, exactly once; only the newest of a gap longer than `missedCap`
pass uncounted.

### CronStore

Several nodes over the tables of schedules, runs and fire requests.  An action is
a database transaction or a step of a goroutine between two transactions: claim,
skip, dispatch, start, outcome, lost outcome report, heartbeat, sweep, pruning,
stop, crash and restart, and the manager's create, update, pause, resume, trigger
and delete.  What holds inside a transaction follows from the row locks the code
takes; everything between transactions interleaves.  Clocks of nodes may be skewed.

Abstractions: run events are announced with the transaction that causes them (the
in-process queue may drop them); the pruner's LIMIT deletes any eligible subset;
the instant a sweep reads before its transaction is the transaction's own;
renaming a schedule and a stop budget that expires inside a tick are left out; of what
`materialize` checks, the job, the trigger and the window are modelled (`validSpec`),
the name, the timeout and the parameters are not data of the model; of requests with
the same logical time manual ones come first, where the code goes by creation.

### Outbox, OutboxLease, Forwarding

`Outbox` is publish, claim under a lease, sequential dispatch, dead-letter
forward, the marks and cleanup, for any number of overlapping relay workers.
`OutboxLease` adds the history of whether some batch outlived its lease (`late`) and
the properties that hold until then.  `Forwarding` is what an outbox promises: an
accepted event waits until it was delivered or parked, and only then is retired.
The property `Forwards` states that `Outbox` implements it.

### Inbox, InboxLease

The consume middleware and its repository, statement by statement: the insert,
the read after a conflict, the conditional takeover, the handler, the completion
and the release are separate steps, and a delivery may die between any two.
`InboxLease` adds the history of whether a handler outlived its lease or a row was
cleaned up.

### RedisStream, RedisTimely

Processes that share one group of one stream: the consumer loop, delivery and
XACK, the reaper (XPENDING, XCLAIM, sequential delivery) and the sweeper (XINFO
GROUPS, XINFO CONSUMERS, XGROUP DESTROY).  One Redis command is one step.  A
failing command may have taken effect.  A process has one subscription at a time
with one worker; the stream is not trimmed; a group starts at the beginning.
The reaper's snapshot of subscriptions is taken with its XPENDING and the
sweeper's with its XINFO GROUPS.  `RedisTimely` is the same system when handlers,
reapers and sweepers are faster than the idle thresholds, as the configuration
intends: time passes only if nobody would be late.

### Storage

One upload from `init_upload` to deletion, for any number of keys: the requests of
the chunked upload (init, part, complete, abort), each cut at its storage calls and
transactions; the claim sweeper; the delete worker with lease, back-off and dead
letter; and the CRUD create, update and delete that adopt and release the file
references of a business row.  The object store is external: an object is absent,
a multipart session with parts, or whole, and a call may fail before or after it
took effect.  Read-only operations (`list_parts`, downloads) are left out.

## Bounds and time

Instants in the event and storage modules are relative: ticks still to go, or an age
capped where the code stops distinguishing.  That keeps the state space finite
without a clock variable.  `MaxFaults` bounds errors of Redis, the database, the
object store, sinks and handlers together with process deaths; one to three are
enough for a fault during the recovery from another.  Two workers (or processes,
nodes) and two events reach every race between a holder and a usurper, three
deliveries of one key a race between two usurpers.  Leases and thresholds are 1 or 2
ticks so that they expire in the middle of every operation.  `CronStore` is too
large for one exhaustive run; `MCCronStore` takes the part of its next-state relation
that a question needs: in `store_failures` the schedule is created at time 0 and
triggered by hand after it, a node has two slots, and the interesting batch holds a
request and an occurrence at once; in `store_progress` the schedule has two
occurrences and the journal four rows, so that every recovery has a row left, also the
recovery of a recovery, and the node that fails does not return (restarts are in
`store_failures`).  `missedCap` is 2 in `cursor`, shorter than the longest gap.  The
`storage` run has one delete worker; two are covered by the proofs.  Symmetry is used only in runs without liveness properties.

Some properties hold only while deadlines are kept.  `OutboxLease` and `InboxLease`
record in a history variable whether one was missed, and the property says "as long
as it was not".  `RedisTimely` and `CronStore`'s `TimelyTick` leave the ticks out
that would miss one.

## Runs

| Run | Checks | Shows |
|---|---|---|
| `cursor` | `EachOccurrenceOnce`, `ClaimsGoForward` | claims, pauses and edits neither lose nor repeat an occurrence, up to the accounting cap |
| `store_failures` | `EventsMatchJournal`, `RequeuedOnce`, `RecoveryKept`, `SlotsBounded`, `ForbidNeverOverlaps`, `TerminalIsFinal` | two nodes failing in every way over one recoverable schedule |
| `store_manager` | `NoOrphanRequest`, `OccurrenceOnce`, `CursorIsOccurrence`, `LastFireJournaled`, `JournalInv` | every manager operation and the pruner against a working node; cursors that match the edited timing; the inductive invariant |
| `store_progress` | `HandlersExclusive`, `OwnedRunsNotTaken`, `OrphanTakenOver`, `RecoveryServed` | timely heartbeats are enough for exclusive handlers although clocks are skewed; a dead node's runs are taken over and every recovery request is claimed, whatever else came due |
| `outbox` | `NothingLost`, `NotStranded`, `BudgetHonoured`, `LeaseExcludes`, `OutboxInv`, `Forwards`, `RetriesKept`, `EverySettled` | faults, deaths and expired leases lose nothing, and everything is settled |
| `inbox` | `AckMeansHandled`, `HandlersExclusive`, `HandledOnce`, `InboxInv`, `LockRespected`, `EventuallyHandled` | three concurrent deliveries of one event |
| `redis` | `OneHandler`, `SubscribersKept` | racing reapers, and a sweeper that spares the subscribers it has seen |
| `redis_live` | `NothingDropped`, `EveryHandled` | at-least-once delivery, and every entry handled while two processes serve |
| `storage` | `TypeOK`, `ReferencedKept`, `NothingLeaked`, `DeletedIsGone`, `ComesToRest` | requests, sweeper, worker and an editor race over one upload with a fault |

Runs that find a documented claim violated:

| Run | Claim | What happens |
|---|---|---|
| `outbox_overlap` | `relay.go:86`: the lease keeps overlapping invocations from dispatching a record twice | a batch outlives its one lease |
| `redis_solo` | `delivery.go:32`: the reaper re-claims a nacked message | the reaper skips entries of its own consumer |
| `storage_edits` | `storage/files.go:18`: references are kept in sync with the backend | two overlapping updates diff against rows read before their transactions; the row keeps a file the other has queued for deletion |

One disagreement shows in a passing run.  `storage/events.go:23` says that a
dead-lettered deletion's "row is parked, not removed", `events.go:66` that it is left in
"sys_storage_pending_delete (parked) for manual investigation", and
`config/storage.go:87` and `delete_worker.go:31` say the same; `deadLetter` deletes the
row with the event (and its own comment says why).  `ComesToRest` of the run `storage`
holds because of that: nothing is left in the queue for ever, and only the event
remembers the object.

Further behaviours are in the models without a run of their own.

* A relay that dies between the dead-letter forward and `MarkFailed` forwards the
  record again.
* Own idle entries can fill the reaper's XPENDING window and hide those of a peer
  that never returns; the attempt number of a claimed entry is the count read before
  XCLAIM raised it; a subscriber that returns between the sweeper's check and
  XGROUP DESTROY loses its group.
* A worker whose lease ran out may announce a dead letter for a key another worker
  then deletes.  An
  init that dies between `InitMultipart` and `SetUploadID` leaves a multipart session
  no row names.  The cap on pending claims is read before the insert and may be
  exceeded by concurrent requests (`resource.go:356` says so).
* An edit on a node whose clock is behind can re-arm an instant that has fired, so
  `OccurrenceOnce` needs clocks that agree.  An edit from "allow" to "forbid" leaves
  the handlers that already overlap alone, so `HandlersExclusive` is about schedules
  that never allowed it.

Each property of a passing run has a mutant in `PROJECT.json`: a plausible bug in
one definition that makes the run fail.

## Fairness

Time passes (`WF(Tick)`).  A scheduled job is started again by the scheduler and a
goroutine that can run does (weak fairness of each worker's, node's or loop's
steps).  The transport redelivers what was not acked.  Handler success needs
strong fairness in `Inbox`: a handler that is run again and again succeeds at some
time.  In the other modules handler, sink and storage failures are bounded by
`MaxFaults`, so weak fairness suffices.  Nothing is assumed of processes outside
`Permanent` (RedisStream) or of the second node (CronStore): they may die for good.
In `redis_live` both processes are permanent, that is, they come back after a crash:
`redis_solo` shows that with one the claim is false.

## Proofs

All proofs hold for arbitrary constants under the ASSUMEs of the modules, which TLC
evaluates in every run.  A safety property is proved from an invariant that is
inductive; the invariants are definitions of the component's module, so TLC can check
them too.

### Cron (`CronClaimProofs`, `CronJournalProofs`, `CronStoreProofs`, `CronClockProofs`)

Each module extends the one before, but for `CronClockProofs`, which extends
`CronJournalProofs`.

`CronClaimProofs` has the arithmetic and the operations.  `NextFireIsFirst` says that
the cursor `nextFire` computes by stepping is the first occurrence after the queried
instant in the sense of `Occurs`, and that there is none exactly when no occurrence is
left: for a cron expression by the choice of the least match, for a fixed rate because
two instants in phase are a whole period apart, for both because truncation to
milliseconds keeps the order.  `DecisionGoesForward` puts the cursor of a decision past
the occurrence it took.  The rest of the module says what a manager operation and a
claim compute.  `CronJournalProofs` has the journal, `CronStoreProofs` the executor's
slots, the last fire, recovery and the cursors, and `CronClockProofs` what holds only on
clocks that agree or are close: occurrences fire once, heartbeats, overlap.

| Invariant | What it says beyond the property | Theorems |
|---|---|---|
| `JournalInv` | rows, requests, requeue markers, events, slots and the nodes' memory are linked: e.g. a request's id tells its source, a returned handler's outcome is known, a doomed row is terminal | `JournalCorrect`, `EventsAreTrue`, `RecoveredOnce`, `RequestsHaveSchedules`, `RowsAreFinal`, `OverlapForbidden`, `SlotsAreBounded`, `LastFireIsJournaled` |
| `OriginInv`, `RecoveryInv` | unused ids are blank, a row's schedule was created, a recovery request belongs to its source's schedule; claimed fires carry the schedule's recovery flag | `RecoveriesAreKept` |
| `CursorIsOccurrence` | inductive together with `JournalInv`: an edit that keeps the cursor keeps what it was computed from | `CursorsAreOccurrences` |
| `CursorInv` | what fired is over and the cursor is past it | `OccurrencesFireOnce`, if `ClocksAgree` |
| `OwnedInv` | an owned running row was renewed within `HeartbeatInterval`, and a handler that executes has a running row | `OwnedRunsAreKept`, if `ClocksClose`, for `TimelySpec` |
| `AloneInv` | a schedule has at most one running row | `HandlersNeverOverlap`, if also `NothingOverlaps` |

`ClocksClose` is the bound the code's default timings leave: clocks may differ by
`AbandonedAfter - HeartbeatInterval`.  `TimelySpec` is `Spec` with a clock that waits
for due heartbeats.  In every case the long part of the proof is the claim, one
transaction that takes over stale runs, consumes requests, advances cursors and
starts runs: `Lands` describes what it leaves in the tables, `RowBegins` and
`ClaimedSchedules` where a new row and a new cursor come from.

### Outbox (`OutboxProofs`)

`OutboxInv`: a row that is gone, completed or about to be marked was delivered or
parked, a counter never exceeds the sink failures behind it, and a snapshot's counter
never exceeds its row's budget.  `NoEventLost`, `NeverStranded`, `BudgetIsHonoured`
and the refinement `OutboxForwards` follow.  `LeaseInv` adds, until a batch is late,
that every row of a batch is leased to that batch alone, for exactly as long, and that
the batch's copy of it is current: `LeaseCorrect`, `LeaseIsExclusive`,
`RetriesAreKept`.

### Inbox (`InboxProofs`)

`InboxInv`: completed rows, and deliveries about to complete, have a success behind
them; lock and lease live exactly while the row is processing (`InboxCorrect`,
`AckedIsHandled`, `LocksRespected`).  `LockInv`: a delivery with a running lease has
its lock on the row (`HandlersAreExclusive`).  `OnceInv` counts: successes beyond
those a row stands for were each paid for by a fault (`HandledOnceButForFaults`).

### Redis Streams (`RedisStreamProofs`)

`StreamInv`: a loop reaches its XACK only with an entry that was handled or cannot be,
so no pending entry is removed early (`StreamCorrect`, `NoEntryDropped`).
`TimelyInv`, for the timely system: what the loops hold is pending under the
consumer that holds it and disjoint, because an entry in hand is younger than the idle
threshold; and consumer names a sweeper found idle are not in use (`TimelyCorrect`,
`HandlersAreAlone`, `SubscribersAreKept`).

### Storage (`StorageProofs`)

`LifeInv`: what is known of a key's object in each stage of its life, for every
request, sweeper, worker and editor in flight; it gives `StorageTyped` and
`StorageDeletedIsGone`.  `RefInv`, under `EditsSerialized`: a reference, a claim, a
pending delete and an edit in flight partition the responsibility for an object; it
gives `StorageReferencedKept` and `StorageNothingLeaked`.  The assumption is needed:
`storage_edits` is the counterexample without it.

### Only model-checked

* All liveness properties: the prover supports neither fairness nor ENABLED.
* `EachOccurrenceOnce` and `ClaimsGoForward` of `CronCursor`.  The first sums over the
  iterations of the counting loop (`Occurrences`), which needs induction over a
  recursive function.  The second is about one schedule alone; its counterpart for the
  store is the invariant `CursorInv` behind `OccurrencesFireOnce`, and its core are
  `DecisionGoesForward` and `NextFireIsFirst`.

## Not modelled

The cron engine's timers and wake-up channel only decide when a pass runs.  The
in-process scheduler wraps a library.  The memory transports, the bus, the async
publisher and the push hub live in one process and promise nothing across its death.
Locks, sequences, the cache, the data source registry, the migration lock and the
security stores are single atomic operations of a database, of Redis or under a
mutex.  The approval workflow is a system of its own, as large as everything here.
ORM, CRUD (but for its file references), API, middleware, integration, engines and
utilities are request-local, pure or generated code.
