# A TLA+ model of the account management service

This directory specifies the service and its runtime, checks small instances
with TLC and proves the safety properties with TLAPS. `PROJECT.json` maps every
definition to the lines of code it models and lists the hazards the properties
are about.

## The system

The repository has two crates.

`account-managements-service` registers user accounts. An `EmailReservation`
aggregate goes from reservation through verification of a code and acceptance of
a profile to completion; a `UserAccount` aggregate is created once. HTTP
operations run commands on the first; task handlers create the account and
record it on the reservation.

`cqrs-runtime` runs commands and tasks. A command loads its aggregate, decides,
and commits at most one event together with its tasks in one statement; a
conflict on the version makes it reload and decide again. Tasks are rows of
`transactional_outbox`: claimed under a lease, executed, settled under the
lease's token, recovered when the lease expires, requeued by an operator after
they failed. A supervisor claims tasks into a bounded channel that a pool of
workers empties. A host stops HTTP server and task runtime together.

| Part | Module |
|---|---|
| `EmailReservation`, `UserAccount` aggregates | `EmailReservation`, `UserAccount` |
| use cases, services, task handlers | `Registration`, promising `AccountOpening` |
| HTTP operations | `Http` |
| command executor, conflict retry, event repository, snapshots | `EventStore`, promising `AtomicCommands`; `Aggregate` |
| PostgreSQL task queue | `TaskQueue` |
| task executor, lease budget | `TaskExecutor` |
| dispatchers and their factory | `Dispatch` |
| supervisor, poller, workers | `WorkerPool` |
| start-up, host, shutdown | `Service` |
| settings | `Configuration` |

How they hang together: `Http` and `Registration` use the aggregates of
`EmailReservation` and `UserAccount`. `Registration` takes a command in two steps,
load and commit; `Http` takes it in one. That one step is what `AtomicCommands`
promises, and `EventStore` shows that the three round trips of the code keep the
promise. `Service` EXTENDS `WorkerPool`, which EXTENDS `Dispatch`, and
`Configuration`; `TaskExecutor` EXTENDS `Configuration`, whose lease inequality it
tests against time.

## The modules

**EmailReservation** and **UserAccount** are pure: one operator per command
handler, returning the event or the rejection, and `Apply` for events. A name is
a text with a flag for padding, so that trimming is a real conversion. Applying a
completion outside `CreatingAccount` gives `Panicked`.

**Registration** composes the aggregates with the outbox. A command takes two
steps. The first loads and decides and puts an execution into `executions`; the
second commits it against the version it loaded (`CommitReservation`,
`CommitAccount`), meets a `Conflict`, fails (`Fail`) or panics (`ApplyPanics`).
Anything may happen in between. An execution knows who waits for it: a request, a
confirmation that will return a token, the delivery of a row, or nobody. After
`TimeOut` or `RecoverExpired` nobody waits, and the statement may still commit.
Replies of commits and settlements may be lost. Each delivery reads the clock
anew, and no order is assumed of the readings. Ids are unique or, with
`UniqueIds = FALSE`, may repeat. Leases appear only as their effect: any
processing row may be recovered at any time. A row is identified by its task and
the sequence number of its event.

**AccountOpening** is the promise to the owner of an address, without commands, rows
or versions: the address is claimed under an id, each new claim under another than
the last; it is verified; a valid profile is accepted; one account is opened for that
id, address and profile, if the id has none; the opening is recorded as it was. The
refinement mapping forgets codes, digests and tokens: `Recorded` of a reservation
and `Opened` of an account.

**Http** is the service as clients see it. `Arrive` refuses a request in the order
of its handler or sends a command; `Execute` and `ExecuteFails` decide it;
`Answer` maps the outcome through the errors of use case, service and HTTP module
to a status; `AnswerIsLost` drops it. A command that was answered by `Unavailable`
may have been stored, or be stored by `LateCommit` at any later time until another
event of the stream is. An address is a spelling (upper case, padded, quoted,
broken) that `Parse` makes a key of. A user follows the answers and reads codes
from the mailbox; another client sends anything.

**Aggregate** is an aggregate seen from the event store. Events are known by the
command that wrote them, and a state is the sequence of events applied, so no two
histories look alike. Four rules stand for the kinds of handlers: always one
event, reject unless first, do nothing on a repeat, and two events, which the
repository refuses.

**AtomicCommands** is the promise of the command gateway: a command takes effect
at most once, at one instant, on the state of that instant, with its tasks. `Ok`
means it did or had nothing to do, a rejection or a conflict that it did not and
will not, `Unavailable` neither: the effect may come later.

**EventStore** is how the code does it: `Load` reads a snapshot row, `Handle` reads
the events after it, decides and plans the write, `PersistOne` is the statement,
all or nothing by the keys of the tables, `Retry` the bounded loop with its pauses.
`ReadFails` and `WriteFails` answer `Unavailable`; a statement already sent may
still be executed, or `Vanish`. cqrs-es and postgres-es are external: that a
snapshot is read before the tail, that the version written is the loaded one plus
one, and that any row of the aggregate may be the one read.

**TaskQueue** models the lease exactly. `now` is real time. A claim anchors its
local deadline when it starts, the database when its `UPDATE` runs, and it
commits later still. Settlements travel in `settling` and may be applied long
after they were sent. NULL lock columns are 0; of `finished_at` only whether it
is NULL is kept; `statement_timestamp()` of a settlement is the instant it is
applied. One number stands for the tokens of one batch, told apart by their row.

**TaskExecutor** follows the age of each lease through a claim, the channel and an
execution. `ExecutionPlan` is `execution_plan`; handler and settlement have their
deadlines. In a "healthy" pool timers fire when due and idle workers take what
waits; in a "slow" one claims and receives take any time; in a "stalled" one the
process may pause anywhere. Ages past the last value that is compared are not
told apart.

**Configuration** reads and validates the settings, in the order of the code, with
their defaults, and has the lease inequality. Durations are multiples of
`Millisecond`; the largest values of the types are constants.

**Dispatch** builds dispatchers from adapters, compares their formats with the
first one's, and routes. An adapter is its format, a payload is not decoded.

**WorkerPool** models `run`, `run_prepared`, `Poller::claim`, `run_task_worker` and
`WorkerPool::drain`. A task is its format. The steps are the points between two
awaits, so cancellation, receives, panics and claims interleave there; `biased`
selects are guards. `next_format_start` wraps at `CounterSize`. A factory may fail,
give other formats at a restart, or panic: then the supervisor unwinds, the token
is cancelled and the workers are aborted without being awaited. A drain that takes
too long aborts them as well (`DrainTimesOut`), and then waits for them without a
timer: an aborted worker is gone (`Aborted`) once its handler reaches an await.

**Service** adds start-up (`LoadConfig`, `InstallLogger`, `ConnectPool`,
`PrepareTaskRuntime`, `Bind`), the signal, the HTTP server, the host's `run` and
the closing of the connection pool. Host and runtime are tasks of a
multi-threaded runtime, so `Observe` polls one branch of the select per step: a
runtime that fails cancels the token and ends between two of them, and the host
may see either first.

Operators introduced by "Wrong variant" are plausible mistakes. No specification
uses them; they show that each property can fail.

## The runs

Times are of two TLC workers on an otherwise idle machine.

| Run | Module, configuration | Checks | Distinct states |
|---|---|---|---|
| Verification | `MCRegistration`, `MCVerification.cfg` | `GrantedTokenIsCurrent`, `AcceptanceIsFinal`, `SupersededIdNeverReturns` | 416,768 (35 s) |
| Continuation | `MCRegistration`, `MCContinuation.cfg` | `TypeOK`, `AccountFollowsAcceptance`, `CompletionMatchesAccount`, `OpenRegistrationHasWork`, `CompletionTaskNeverMismatches`, `CreationTaskNeverMismatches`, `WorkJustified`, refinement `AccountsAreOpenedOnce` | 137,974 (30 s) |
| Snapshot | `MCRegistration`, `MCSnapshot.cfg` | `SnapshotReapplicationTolerated`, **violated** | a few hundred |
| Resolves | `MCRegistration`, `MCResolves.cfg` | `AcceptedProfileResolves` under fairness | 7,935 (9 s) |
| Queue | `TaskQueue`, `MCTaskQueue.cfg` | `TypeOK`, `LiveLeaseOwnsRow`, `LeasesFenced`, `OutcomeIsOfCurrentAttempt` | 500,551 (33 s) |
| Pool | `WorkerPool`, `MCWorkerPool.cfg` | `TypeOK`, `BatchFits`, `RoomIsSignalled`, `NothingRunsAfterReturn`, `ClaimedTasksAreRouted`, `NothingStartsAfterStop`; `StopCompletes`, `WorkersAreReplaced` under fairness | 142,372 (66 s) |
| PoolServed | `WorkerPool`, `MCWorkerPoolServed.cfg` | `HealthyFormatsServed` under fairness | 2,598 (3 s) |
| ServiceStop | `MCService`, `MCService.cfg` | `PoolOutlivesWork`, `CleanStopOnlyOnSignal`; `ServiceStops`, `FailedStartReleases` under fairness | 42,558 (15 s) |
| EventStore | `MCEventStore`, `MCEventStore.cfg` | `TypeOK`, `SnapshotsAreThePast`, `PausesAreBounded`, refinement `CommandsAreAtomic`; `CommandsAreAnswered` under fairness | 236,403 (2 min) |
| EventStoreWedge | `MCEventStore`, `MCEventStoreWedge.cfg` | `ConflictMeansConcurrentChange`, **violated** | about 9,800 |
| TaskExecutor | `MCTaskExecutor`, `MCTaskExecutor.cfg` | `HealthyPoolRuns`, `RunsCanSettle` | 895,324 (15 s) |
| Http | `MCHttp`, `MCHttp.cfg` | `NeverInternal`, `ConfirmedOnce`, `AcceptedSubmissionStands`; `UserGetsThrough` under fairness | 118,512 (60 s) |

### What the violations show

**Snapshot.** The snapshot store of cqrs-es applies an accepted event a second time
when its sequence number is a multiple of the snapshot interval, and
`command_factory.rs:59` requires that "Aggregate event application must tolerate
that repeat". `EmailReservation::apply` does not: on `AccountCreationCompleted` it
panics unless the phase is `CreatingAccount`, and after the first application it
is `AccountCreated`. With the default interval of 25 a reservation with 21
further code requests completes at event 25. The panic precedes the write, so
every redelivery repeats it until the row fails. The run takes interval 4, where
the shortest registration shows it; at 25 the state space is out of reach. The
behaviour of cqrs-es is taken from `doc/known_issues/cqrs_snapshot_event_reapplication.md`.

**EventStoreWedge.** `command.rs:32` calls a conflict "domain command conflicted with
a concurrent change". The snapshot and the events after it are read in two
statements. When another command stores the first snapshot in between, the reader
has no snapshot and newer events; if its own event falls on the interval it inserts
a second row of version 1, since `last_sequence` is part of the key. Every later
`UPDATE ... WHERE current_snapshot = 1` gives two rows one key, is refused with
`snapshots_pkey`, and is reported as a conflict although nothing else runs: no
command whose event falls on the interval is accepted any more. The run has interval
1, which `PostgresCommandConfig::new` accepts. At 25 the reader must be overtaken by
the 24 events between two multiples. States stay right all the same, as
`SnapshotsAreThePast` and `CommandsAreAtomic` show: what is lost is progress.

### Bounds

* `MaxInFlight = 2`: two commands in flight are enough for every race on one
  stream, since a commit only compares its own version.
* `MaxEvents` stops new code requests, not the rest of the workflow, so every
  registration can still be completed.
* Two account ids in `MCVerification` let one supersede the other; two instants of
  different days in `MCContinuation` make redelivery read another time and date.
* `MaxAttempts` is 1 or 2: the last attempt and one before it.
* `MaxTime`, `MaxTokens`, `MaxClaimers` in the queue: three claims of one row,
  two at a time, with room for expiry, backoff and a late settlement. Two rows with
  these bounds are out of TLC's reach; the proofs hold for any number.
* Three invocations in `EventStore`: one that is stale, one that overtakes it and one
  that follows. A command with 5957 tasks fits one statement only without a snapshot.
* A channel of three and two workers: full, partly full and empty channels with
  batches that fill it in part, and a last wave that is not full.
* `Broken = {1}` of three formats with room for one task: a failing format between
  two healthy ones. `CounterSize = 4` is no multiple of three, as 2^64 is none, so
  the wrap asks one format twice.
* Leases of 9 and 12 in `TaskExecutor` are the least accepted for their settings; 7
  and 11 are refused.
* `MaxOthers = 1` in `Http`: one request of any kind by another client, at any time,
  beside a user with two spellings of the address. One statement of each client may
  be under way after its caller was told `Unavailable`.

Deadlock is checked for the queue and the executor. It is not for `Registration`,
`EventStore` and `Http`, where nothing is left to do once no request comes, nor for
`WorkerPool` and `Service`, which end.

### Fairness

* `Registration!FairSpec`: a running command finishes and recovery keeps running
  (weak: `retry` is bounded and the supervisor's interval ticks); rows of each
  kind are delivered (strong: other rows come in between, but claims take the
  oldest first). No fairness for requests, failures or the operator.
* `EventStore!FairSpec`: a round trip ends, with an answer or an error, and so does
  the pause before a retry, for as long as a caller waits. Nothing is assumed of
  its outcome.
* `WorkerPool!FairSpec`: the supervisor goes on, as its waits have timers, all but the
  last one: `shutdown().await` (`worker_pool.rs:86`) waits for aborted workers as long
  as they take. A worker without a task goes on. A finished worker is not passed over
  for ever by the `JoinSet`; that is an assumption about Tokio. Nothing is assumed of
  handlers: they may run for ever, and one that blocks its thread does not even yield
  to an abort. `StopCompletes` therefore says that the runtime returns or waits for
  such an aborted handler, and nothing else; with cooperative async handlers, which
  the repository's README asks for, it returns.
* `WorkerPool!ServedSpec`: in addition handlers end and yield, since `execute_and_settle`
  is bounded by the lease's deadlines, and a healthy format asked again and again
  at times has a task.
* `Service!ServiceSpec`: the host and the supervisor go on, and `pool.close().await`,
  which has no deadline either, returns: when it is called no request is left that
  could keep a connection, nor a worker, unless the supervisor panicked. Graceful HTTP shutdown is
  not assumed to end: no deadline is set, as `doc/known_issues/http_shutdown.md` says,
  and a request in flight can hold the process for ever. `ServiceStops` has this in
  its formula: the pool is closed, or the token is cancelled and all that is still
  waited for is a request in flight or an aborted handler. Its left side stays true
  once it is, so the pool has to be closed after all when these end.
* `Http!FairSpec`: requests are executed and answered, the user goes on, and an
  operation that is tried again and again, and that the registration would accept,
  does not fail every time (strong).

## The proofs

All theorems hold for every value of the constants that satisfies the named
assumptions. `ConstantsAssumption`, `QueueAssumption`, `PoolAssumption`,
`ServiceAssumption`, `StoreAssumption`, `ConfigurationAssumption` and
`ExecutorAssumption` give sorts, and say that limits which the code requires to be
positive are. `HttpAssumption` says that generated codes have the format that is
asked of typed ones, and that a fresh id and token can be found; `UserAssumption`
that the user has an address and a valid profile. Every invariant and action
property of a passing run is a theorem.

**Registration.** `AccountFollowsAcceptance` is not inductive: an account comes
from an execution, which came from a row, which came from an acceptance.
`WorkJustified` says this of everything in flight. A row's registration was
accepted as the row says, and the effect of a completed row is in the aggregates.
An execution that no event overtook would be decided the same way now. Every
acceptance published its creation task and every account its completion task.
`RegistrationTypeProofs` proves types. `RegistrationCommitProofs` shows that steps
which leave the aggregates alone preserve `WorkJustified`, and that the two commits
do; `RegistrationProofs` concludes: `WorkIsJustified`,
`AccountsFollowAcceptance`, `CompletionsMatchAccounts`,
`OpenRegistrationsHaveWork`, `CompletionTasksNeverMismatch`, `AcceptancesAreFinal`.
None of them assumes that ids are unique: two emails with one id are covered.

`RegistrationOpensAccounts` shows `Spec => AccountsAreOpenedOnce`, for repeated ids as
well. Only the two commits move the mapped state (`AggregateSteps`). A commit to a
reservation is `Claim`, `Verify`, `Accept` or `Record`; that a recorded opening is the
one that happened is `CompletionMatchesAccount` after the step. A commit to an account
is `Open`: by `WorkJustified` the id had no account, its registration accepted that
profile, and it was not complete yet, since a completed one has its account.

`GrantedTokensAreCurrent`, `CreationTasksNeverMismatch` and `SupersededIdsNeverReturn`
assume `UniqueIds`. They rest on `IdsUsedOnce`: one execution brings an id in, and
reservations, rows and tokens know the id only once that execution has committed,
each reservation its own. So an id that was given up has no execution left that
could bring it back, and an account with a task's id is that task's account.

**TaskQueue.** `LeasesFenced` strengthens `LiveLeaseOwnsRow`: tokens in rows,
leases and settlements have been minted; a held token that is still in its row
belongs to the row's current attempt; no token of a row is held twice, or both by
a worker and by a settlement. The last is what a settlement needs in order not to
end another worker's lease. `TaskQueueProofs` proves `TypeCorrect` (with the
table's CHECK constraints), `TokensFence`, `LiveLeasesOwnRows` and
`OutcomesAreOfCurrentAttempts`.

**WorkerPool.** `PoolInv` adds to the properties that the channel never exceeds its
capacity, that nothing exists before the pool is spawned, that a drain follows a
cancellation, and that every serving worker has the dispatcher whose formats the
poller claims. `ServiceProofs`, its first part: `TypeCorrect`, `BatchesFit`,
`RoomIsAlwaysSignalled`, `NoneRunAfterReturn`, `RunningTasksAreRouted`,
`NoneStartAfterStop`.

**Service.** `ServiceInv` adds to `PoolInv` that, while the host has seen no reason
to stop, only a failure of the runtime can have cancelled the token, and that such a
failure is never replaced by `Ok`. `ServiceProofs`, its second part:
`PoolsOutliveWork`, `CleanStopsAreSignalled`.

**EventStore.** `StoreInv`: what an execution loaded and what a snapshot holds is the
state after some prefix of the events; a statement under way was decided in that
state; an event is stored only by an execution that was written, and until then its
caller was told nothing but `Unavailable`. `ExecutionIsAtomic` shows that under it
every step is a step of `AtomicCommands` or a stutter: `PersistOne` commits, since a
free sequence number means that the loaded prefix is the whole log, and every
answer is justified by the prefix it was decided on.

`PausesAreAlwaysBounded` needs no induction: the pauses are those of `Backoff`, whose
factor `Multiplier` caps at the largest value of its type, as `checked_pow` and
`unwrap_or` do.

**TaskExecutor.** `validate_for_storage_timeout` allows a task one claim, a full
channel in waves of `concurrency`, and one delivery. Time in the channel is not a
sum over waves of equal length, though: workers are busy for different times, finish
early and take the next task at once. `HealthyInv` therefore says, of each position k
of the channel, that in the time left to its lease workers become free at least k
times (`EnoughTurns`): the time left holds q whole deliveries and s more, each worker
is free q times, and once more if it is free within s. A `Tick` takes one from s, and
one from each worker's remaining time; when s is used up it takes one from q. A
receive moves every position up by one and takes one turn. The lemmas `Turns...` prove
this of any number of workers by counting (`FiniteSetTheorems`); `Budget` that the
accepted lease gives a task that enters the channel enough turns, and `TurnsTakeTime`
that one at the head of the channel still has a whole delivery left.
`TaskExecutorProofs`: `ExecutorInvariant`, `HealthyPoolAlwaysRuns`,
`RunsCanAlwaysSettle`, for every configuration that the code accepts.

**Http.** `HttpInv`: the outcome of a request under way is one of those its operation
can meet (`Rejections`), and a submission that succeeded stands, before its answer and
after. The first needs the phases the aggregate can be in and that the handler
already trimmed a profile; the second that no command is accepted in
`CreatingAccount`, nor any late one. `HttpProofs`: `HttpInvariant`, `NoInternalError`,
`SubmissionStands`. `OnlyOneConfirmed` needs `OnceInv` besides: where a reservation or a
submission was confirmed, or has succeeded and is not answered yet, the registration
has left the phases in which another could be accepted, which no commit takes it back
to, and no other request for that key has succeeded. As `Parse` gives every spelling of
a mailbox one key, that holds of mailboxes.

**Only model-checked**: the liveness properties `AcceptedProfileResolves`,
`StopCompletes`, `WorkersAreReplaced`, `HealthyFormatsServed`, `ServiceStops`,
`FailedStartReleases`, `CommandsAreAnswered` and `UserGetsThrough`. Fairness is out of the
prover's reach.

## Not modelled

* Size and range checks of task data (`task/data`), metadata, the accessors of
  settlement requests and recovery reports: plain data without a protocol.
* JSON encoding and decoding. A payload that cannot be decoded would be one more
  permanent failure of a delivery.
* Logging, diagnostics, console output and the wording of errors.
* Dropping the futures of supervisor or host from outside, which no code of the
  service does.
* The internals of cqrs-es, postgres-es, sqlx, Tokio and axum, beyond what is
  marked external.
* Connections of the pool as a limited resource: a wait for one shows as a slow or
  failed statement.

What would come next is `TaskExecutor` over the rows of `TaskQueue`, and `Http` over the
two-step commands of `Registration`.
