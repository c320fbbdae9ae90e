---- MODULE Configuration ----
(***************************************************************************)
(* The settings of the process: how each is read, with its default, which  *)
(* values are refused, and with which error when several are wrong.        *)
(*                                                                         *)
(* A setting is a record: its kind ("absent", "nonUnicode", "number", or   *)
(* what a parser thinks of other text) and its value.  Durations are       *)
(* integers of one unit.  The largest representable values are constants.  *)
(***************************************************************************)
EXTENDS Integers, Sequences

CONSTANTS
    Second,             \* a second and a millisecond in units of duration
    Millisecond,
    LeaseSafetyMargin,
    MaxStored,          \* i64::MAX milliseconds
    MaxStatement,       \* i32::MAX milliseconds
    MaxDuration,        \* Duration::MAX
    MaxQueueCapacity    \* usize::MAX >> 3

ASSUME ConfigurationAssumption ==
    /\ LeaseSafetyMargin \in Nat \ {0} /\ Second \in Nat \ {0} /\ Millisecond \in Nat
    /\ MaxStored \in Nat /\ MaxStatement \in Nat /\ MaxDuration \in Nat /\ MaxQueueCapacity \in Nat

Absent == [kind |-> "absent", value |-> 0]

Number(n) == [kind |-> "number", value |-> n]

Other(kind) == [kind |-> kind, value |-> 0]

(* The error of the first check that fails. *)
FirstError(checks) ==
    LET failed == {i \in 1..Len(checks) : checks[i][1]}
    IN  IF failed = {} THEN "Ok" ELSE checks[CHOOSE i \in failed : \A j \in failed : i <= j][2]

(* read_u64: a missing setting has its default, other text is an error. *)
Unreadable(setting) == setting.kind \notin {"absent", "number"}

ReadU64(setting, default) == IF setting.kind = "absent" THEN default ELSE setting.value

----------------------------------------------------------------------------
(* Worker pool and storage. *)

CeilDiv(a, b) == (a + b - 1) \div b

TaskWorkerPoolConfigNew(w) ==
    FirstError(<<
        <<w.concurrency = 0, "InvalidConcurrency">>,
        <<w.queue_capacity = 0 \/ w.queue_capacity > MaxQueueCapacity, "InvalidQueueCapacity">>,
        <<w.poll_interval = 0 \/ w.poll_interval > MaxStored, "InvalidPollInterval">>,
        <<w.lease_duration = 0 \/ w.lease_duration > MaxStored, "InvalidLeaseDuration">>,
        <<w.handler_timeout = 0 \/ w.handler_timeout >= w.lease_duration, "InvalidHandlerTimeout">> >>)

Invocation(w, storage) == w.handler_timeout + storage

(* Wrong variant: a last, incomplete wave is not counted.                  *)
QueuedByFullWaves(w, storage) == (w.queue_capacity \div w.concurrency) * Invocation(w, storage)

(* How long the last task of a full channel waits for a worker. *)
Queued(w, storage) == CeilDiv(w.queue_capacity, w.concurrency) * Invocation(w, storage)

Required(w, storage) ==
    2 * storage + w.handler_timeout + LeaseSafetyMargin + Queued(w, storage)

(* Every sum and product is checked for overflow. *)
ValidateForStorageTimeout(w, storage) ==
    FirstError(<<
        <<storage = 0, "InvalidStorageTimeout">>,
        <<Invocation(w, storage) > MaxDuration, "LeaseBudgetOverflow">>,
        <<Queued(w, storage) > MaxDuration, "LeaseBudgetOverflow">>,
        <<Required(w, storage) > MaxDuration, "LeaseBudgetOverflow">>,
        <<w.lease_duration <= Required(w, storage), "LeaseTooShort">> >>)

----------------------------------------------------------------------------
(* What the process environment says.                                      *)

StorageTimeout(env) == Millisecond * ReadU64(env.OUTBOX_STORAGE_TIMEOUT_MS, 6000)

StorageConfig(env) ==
    FirstError(<<
        <<Unreadable(env.OUTBOX_STORAGE_TIMEOUT_MS), "InvalidEnvironmentValue">>,
        <<StorageTimeout(env) = 0 \/ StorageTimeout(env) > MaxStored, "InvalidStorageTimeout">> >>)

WorkerPoolSettings(env) ==
    [concurrency |-> ReadU64(env.OUTBOX_WORKER_CONCURRENCY, 128),
     queue_capacity |-> ReadU64(env.OUTBOX_QUEUE_CAPACITY, 128),
     poll_interval |-> Millisecond * ReadU64(env.OUTBOX_POLL_INTERVAL_MS, 1000),
     handler_timeout |-> Second * ReadU64(env.OUTBOX_HANDLER_TIMEOUT_SECS, 15),
     lease_duration |-> Second * ReadU64(env.OUTBOX_LEASE_SECS, 60)]

WorkerPoolConfig(env) ==
    IF \E name \in {"OUTBOX_WORKER_CONCURRENCY", "OUTBOX_QUEUE_CAPACITY", "OUTBOX_POLL_INTERVAL_MS",
                    "OUTBOX_HANDLER_TIMEOUT_SECS", "OUTBOX_LEASE_SECS"} : Unreadable(env[name])
    THEN "InvalidEnvironmentValue"
    ELSE TaskWorkerPoolConfigNew(WorkerPoolSettings(env))

(* Storage first, then the pool, then both together. *)
TaskRuntimeConfig(env) ==
    IF StorageConfig(env) # "Ok" THEN StorageConfig(env)
    ELSE IF WorkerPoolConfig(env) # "Ok" THEN WorkerPoolConfig(env)
    ELSE ValidateForStorageTimeout(WorkerPoolSettings(env), StorageTimeout(env))

StatementTimeout(env) == Millisecond * ReadU64(env.OUTBOX_POSTGRES_STATEMENT_TIMEOUT_MS, 4000)

TaskQueueConfig(env) ==
    FirstError(<<
        <<Unreadable(env.OUTBOX_POSTGRES_STATEMENT_TIMEOUT_MS), "InvalidEnvironmentValue">>,
        <<StatementTimeout(env) = 0 \/ StatementTimeout(env) > MaxStatement, "InvalidStatementTimeout">> >>)

LoggingConfig(env) == IF env.RUST_LOG.kind \in {"absent", "valid"} THEN "Ok" ELSE "ParseLevelFilter"

(* All settings are read before any is judged; then in this order. *)
ServiceConfig(env) ==
    FirstError(<<
        <<\E name \in DOMAIN env : env[name].kind = "nonUnicode", "NonUnicode">>,
        <<env.DATABASE_URL.kind = "absent", "Missing">>,
        <<env.DATABASE_URL.kind = "otherScheme", "DatabaseScheme">>,
        <<env.DATABASE_URL.kind # "valid", "Database">>,
        <<env.BIND_ADDRESS.kind = "absent", "Missing">>,
        <<env.BIND_ADDRESS.kind # "valid", "Bind">>,
        <<LoggingConfig(env) # "Ok", "Logging">>,
        <<TaskRuntimeConfig(env) # "Ok", "Tasks">>,
        <<TaskQueueConfig(env) # "Ok", "PostgresQueue">> >>)
====
