---- MODULE Service ----
(***************************************************************************)
(* The service from start to end: its settings, the logger, the connection *)
(* pool, the preparation of the task runtime and the listener; then the    *)
(* task runtime of WorkerPool, the HTTP server, the signal listener and    *)
(* the host that stops them together and closes the connection pool last.  *)
(*                                                                         *)
(* The host and the runtime are tasks of a multi-threaded Tokio runtime,   *)
(* so the host's select looks at one branch after another while they run.  *)
(***************************************************************************)
EXTENDS WorkerPool, Configuration

CONSTANT Environments  \* process environments, dotenv included

VARIABLES
    environment,  \* the settings of this process
    startup,      \* the stage of start-up, "running", or "failed"
    signal,       \* the signal future: "waiting", or how it resolved
    inbound,      \* the HTTP server: "closed", "serving", or how it ended
    branch,       \* the branch the host's select polls next
    reason,       \* the host's StopReason
    outcome,      \* what main returns
    connections   \* the PostgreSQL pool: "none", "open" or "closed"

hostVars == <<environment, startup, signal, inbound, branch, reason, outcome, connections>>

serviceVars == <<vars, hostVars>>

ASSUME ServiceAssumption ==
    \A env \in Environments : ServiceConfig(env) = "Ok" =>
        /\ WorkerPoolSettings(env).concurrency = Concurrency
        /\ WorkerPoolSettings(env).queue_capacity = QueueCapacity

----------------------------------------------------------------------------
(* Start-up. *)

Proceed(stage) == startup' = stage /\ UNCHANGED outcome

Refuse(error) == startup' = "failed" /\ outcome' = error

(* load_dotenv, where only a missing file is tolerated, then the settings. *)
LoadConfig ==
    /\ startup = "configuration"
    /\ \/ Refuse("Dotenv")
       \/ IF ServiceConfig(environment) = "Ok" THEN Proceed("logging") ELSE Refuse("Configuration")
    /\ UNCHANGED <<vars, environment, signal, inbound, branch, reason, connections>>

InstallLogger ==
    /\ startup = "logging"
    /\ Proceed("database") \/ Refuse("Logging")
    /\ UNCHANGED <<vars, environment, signal, inbound, branch, reason, connections>>

ConnectPool ==
    /\ startup = "database"
    /\ \/ Proceed("preparation") /\ connections' = "open"
       \/ Refuse("Database") /\ UNCHANGED connections
    /\ UNCHANGED <<vars, environment, signal, inbound, branch, reason>>

(* Every worker's dispatcher is built before the listener is opened. *)
PrepareTaskRuntime ==
    /\ startup = "preparation"
    /\ \E built \in [Workers -> FactoryResults] :
          /\ built[0].error = "Ok" => built[0].formats = FormatList
          /\ \/ /\ Prepare(built, 0) = "Ok" /\ Proceed("binding")
                /\ dispatcher' = [i \in Workers |-> built[i].formats]
             \/ Prepare(built, 0) # "Ok" /\ Refuse("TaskPreparation") /\ UNCHANGED dispatcher
    /\ UNCHANGED <<shutdown, supervisor, result, poll, channel, permit, worker>>
    /\ UNCHANGED <<environment, signal, inbound, branch, reason, connections>>

(* The listener is opened; run polls the host, which spawns the runtime. *)
Bind ==
    /\ startup = "binding"
    /\ \/ Proceed("running") /\ inbound' = "serving" /\ supervisor' = "starting"
       \/ Refuse("Bind") /\ UNCHANGED <<inbound, supervisor>>
    /\ UNCHANGED <<shutdown, result, poll, channel, permit, worker, dispatcher>>
    /\ UNCHANGED <<environment, signal, branch, reason, connections>>

----------------------------------------------------------------------------
(* The running service. *)

(* Ctrl-C or SIGTERM, or the listener fails. *)
SignalResolves ==
    /\ startup = "running" /\ signal = "waiting" /\ signal' \in {"ok", "failed"}
    /\ UNCHANGED <<vars, environment, startup, inbound, branch, reason, outcome, connections>>

(* axum's server ends: gracefully once the token is cancelled and its      *)
(* requests are answered, or by itself at any time.                        *)
InboundEnds ==
    /\ inbound = "serving" /\ inbound' \in {"ok", "failed"}
    /\ UNCHANGED <<vars, environment, startup, signal, branch, reason, outcome, connections>>

Branches == <<"signal", "requested", "inbound", "runtime">>

RuntimeEnded == supervisor \in {"returned", "panicked"}

Ready(b) ==
    CASE b = "signal" -> signal # "waiting"
      [] b = "requested" -> shutdown
      [] b = "inbound" -> inbound # "serving"
      [] b = "runtime" -> RuntimeEnded

(* Wrong variant: the token is not cancelled when a reason is observed.    *)
ObserveWithoutCancel ==
    /\ startup = "running" /\ reason = "none"
    /\ \/ Ready(Branches[branch]) /\ reason' = Branches[branch] /\ UNCHANGED branch
       \/ ~Ready(Branches[branch]) /\ branch' = (branch % 4) + 1 /\ UNCHANGED reason
    /\ UNCHANGED <<vars, environment, startup, signal, inbound, outcome, connections>>

(* The biased select polls its branches in order; the first that is ready  *)
(* when it is polled is the reason, and the shared token is cancelled.     *)
Observe ==
    /\ startup = "running" /\ reason = "none"
    /\ \/ Ready(Branches[branch]) /\ reason' = Branches[branch] /\ shutdown' = TRUE /\ UNCHANGED branch
       \/ ~Ready(Branches[branch]) /\ branch' = (branch % 4) + 1 /\ UNCHANGED <<reason, shutdown>>
    /\ UNCHANGED <<supervisor, result, poll, channel, permit, worker, dispatcher>>
    /\ UNCHANGED <<environment, startup, signal, inbound, outcome, connections>>

PreservePrimaryFailure(primary, secondary) == IF primary = "Ok" THEN secondary ELSE primary

ExpectedInboundExit == IF inbound = "failed" THEN "Inbound" ELSE "Ok"

(* Wrong variant: the runtime's error is taken for a normal exit.          *)
RuntimeExitIgnored == "Ok"

ExpectedRuntimeExit ==
    CASE result = "Ok" -> "Ok" [] result = "WorkerSetup" -> "TaskRuntime" [] result = "Panicked" -> "TaskRuntimeJoin"

UnexpectedRuntimeExit == IF result = "Ok" THEN "TaskRuntimeStopped" ELSE ExpectedRuntimeExit

SignalFailure == IF signal = "failed" THEN "ShutdownSignal" ELSE "Ok"

Primary ==
    CASE reason = "signal" -> SignalFailure
      [] reason = "requested" -> "Ok"
      [] reason = "inbound" -> IF inbound = "failed" THEN "Inbound" ELSE "InboundStopped"
      [] reason = "runtime" -> UnexpectedRuntimeExit

(* Wrong variant: the host does not wait for the task runtime.             *)
HostReturnsEarly ==
    /\ reason # "none" /\ outcome = "none" /\ inbound # "serving"
    /\ outcome' = PreservePrimaryFailure(Primary, ExpectedInboundExit)
    /\ UNCHANGED <<vars, environment, startup, signal, inbound, branch, reason, connections>>

(* Both components are joined and their results combined. *)
HostReturns ==
    /\ reason # "none" /\ outcome = "none" /\ inbound # "serving" /\ RuntimeEnded
    /\ outcome' = PreservePrimaryFailure(Primary,
                      PreservePrimaryFailure(ExpectedRuntimeExit, ExpectedInboundExit))
    /\ UNCHANGED <<vars, environment, startup, signal, inbound, branch, reason, connections>>

(* Wrong variant: a preparation that failed leaves the pool open.          *)
ClosePoolAfterRun ==
    /\ startup = "running" /\ outcome # "none" /\ connections = "open" /\ connections' = "closed"
    /\ UNCHANGED <<vars, environment, startup, signal, inbound, branch, reason, outcome>>

(* After run, and after a preparation that failed once connected. *)
ClosePool ==
    /\ outcome # "none" /\ connections = "open" /\ connections' = "closed"
    /\ UNCHANGED <<vars, environment, startup, signal, inbound, branch, reason, outcome>>

----------------------------------------------------------------------------
ServiceInit ==
    /\ Init
    /\ environment \in Environments /\ startup = "configuration"
    /\ signal = "waiting" /\ inbound = "closed" /\ branch = 1 /\ reason = "none"
    /\ outcome = "none" /\ connections = "none"

(* The task runtime's own steps; only the host cancels from outside. *)
RuntimeStep(A) == A /\ UNCHANGED hostVars

Startup == LoadConfig \/ InstallLogger \/ ConnectPool \/ PrepareTaskRuntime \/ Bind

Host == Observe \/ HostReturns \/ ClosePool

ServiceNext ==
    \/ Startup
    \/ RuntimeStep(Supervise)
    \/ \E i \in Workers : RuntimeStep(Advance(i) \/ HandlerEnds(i))
    \/ SignalResolves \/ InboundEnds \/ Host

(* Fairness: the host and the supervisor run, and the connection pool      *)
(* (external), once told to close, does.  Nothing is assumed of handlers,  *)
(* nor of requests in flight: axum's graceful shutdown waits for them and  *)
(* the host sets it no deadline.                                           *)
ServiceSpec ==
    /\ ServiceInit /\ [][ServiceNext]_serviceVars
    /\ WF_serviceVars(Host)
    /\ WF_serviceVars(RuntimeStep(Supervise))

----------------------------------------------------------------------------
(* The connection pool is closed only when no worker could still settle a  *)
(* task and no request could still run a command, in whatever order the    *)
(* components stop.  Only workers that a panic of the supervisor aborted   *)
(* may not be gone yet.                                                    *)
PoolOutlivesWork ==
    connections = "closed" =>
        /\ inbound # "serving"
        /\ \A i \in Workers : worker[i] = Joined \/ (worker[i] = Aborting /\ supervisor = "panicked")

(* The service reports a clean stop only for a received signal after which *)
(* both components ended well: a fatal error or a panic of the task        *)
(* runtime, whichever branch of the select it reaches the host by, is      *)
(* never taken for one.                                                    *)
CleanStopOnlyOnSignal ==
    outcome = "Ok" => reason = "signal" /\ signal = "ok" /\ inbound = "ok" /\ result = "Ok"

(* A fatal error of the task runtime stops the whole service, and so do a  *)
(* signal and the end of the HTTP server, whichever comes first: in the    *)
(* end the pool is closed, unless requests in flight or an aborted handler *)
(* never end.  These have no deadline and are all that can hold it: the    *)
(* token is cancelled, and each component has ended or waits for them.     *)
ServiceStops ==
    signal # "waiting" \/ inbound \in {"ok", "failed"} \/ result \in {"WorkerSetup", "Panicked"} ~>
        \/ connections = "closed"
        \/ /\ shutdown /\ (RuntimeEnded \/ HandlerLingers)
           /\ inbound = "serving" \/ HandlerLingers

(* Whichever stage of start-up fails, no connection is left open.          *)
FailedStartReleases == startup = "failed" ~> connections # "open"
====
