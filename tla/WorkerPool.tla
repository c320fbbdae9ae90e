---- MODULE WorkerPool ----
(***************************************************************************)
(* The task runtime of one process: the supervisor's loop, the poller that *)
(* claims one format after another, the bounded channel, and the workers   *)
(* that receive, execute and settle one task at a time, until the shutdown *)
(* token is cancelled and the pool is drained.                             *)
(*                                                                         *)
(* A task is known here by its format only.  Formats are the indices       *)
(* 0..FormatCount-1 of the list the first dispatcher has.                  *)
(***************************************************************************)
EXTENDS Dispatch

CONSTANTS
    Concurrency,     \* C, permanent workers
    QueueCapacity,   \* Q, capacity of the channel
    FormatCount,     \* formats of the dispatchers
    CounterSize,     \* values of next_format_start, 2^64 for a usize
    Broken           \* formats whose claims always fail

VARIABLES
    shutdown,    \* the cancellation token
    supervisor,  \* what the supervisor awaits
    result,      \* what run_prepared will return
    limit,       \* free capacity when the loop last looked
    first,       \* where the current claim started in the formats
    offset,      \* how many formats it has asked
    claimed,     \* what it has got so far
    channel,     \* tasks waiting for a worker
    permit,      \* the stored permit of capacity_available
    worker,      \* state of each worker index
    dispatcher   \* the formats each worker's dispatcher routes

vars == <<shutdown, supervisor, result, limit, first, offset, claimed, channel, permit, worker,
          dispatcher>>

poll == <<limit, first, offset, claimed>>

ASSUME PoolAssumption ==
    /\ Concurrency \in Nat \ {0} /\ QueueCapacity \in Nat \ {0}
    /\ FormatCount \in Nat \ {0} /\ CounterSize \in Nat \ {0} /\ Broken \subseteq 0..FormatCount - 1

Workers == 0..Concurrency - 1

Formats == 0..FormatCount - 1

Idle == [state |-> "idle"]

Received(f) == [state |-> "received", task |-> f]

Running(f) == [state |-> "running", task |-> f]

Exited == [state |-> "exited"]

(* Taken from the JoinSet, its replacement not yet spawned. *)
Replaced == [state |-> "replaced"]

(* Its abort was requested; it ends at its next await, or never. *)
Aborting == [state |-> "aborting"]

(* No such Tokio task. *)
Joined == [state |-> "joined"]

WorkerStates ==
    {Idle, Exited, Replaced, Aborting, Joined} \cup {Received(f) : f \in Formats}
        \cup {Running(f) : f \in Formats}

----------------------------------------------------------------------------
(* The supervisor. *)

(* Wrong variants: the free capacity ignores what waits in the channel;    *)
(* every claim starts with the same format; the counter does not wrap.     *)
LookForRoomIgnoringChannel ==
    /\ limit' = QueueCapacity
    /\ supervisor' = "claiming" /\ first' = (first + 1) % CounterSize
    /\ offset' = 0 /\ claimed' = <<>>

LookForRoomWithoutRotation ==
    /\ limit' = QueueCapacity - Len(channel)
    /\ IF limit' = 0
       THEN supervisor' = "selecting" /\ UNCHANGED <<first, offset, claimed>>
       ELSE supervisor' = "claiming" /\ first' = 0 /\ offset' = 0 /\ claimed' = <<>>

LookForRoomUnreduced ==
    /\ limit' = QueueCapacity - Len(channel)
    /\ IF limit' = 0
       THEN supervisor' = "selecting" /\ UNCHANGED <<first, offset, claimed>>
       ELSE supervisor' = "claiming" /\ first' = first + 1 /\ offset' = 0 /\ claimed' = <<>>

(* The end of every iteration: look at the free capacity and call claim,   *)
(* which advances next_format_start whatever comes of it.                  *)
LookForRoom ==
    /\ limit' = QueueCapacity - Len(channel)
    /\ IF limit' = 0
       THEN supervisor' = "selecting" /\ UNCHANGED <<first, offset, claimed>>
       ELSE supervisor' = "claiming" /\ first' = (first + 1) % CounterSize
            /\ offset' = 0 /\ claimed' = <<>>

FormatList == [k \in 1..FormatCount |-> k - 1]

(* The factory may fail, or give other adapters than it did the first time. *)
FactoryResults ==
    {TaskAdapters(formats) : formats \in {FormatList, <<>>, FormatList \o FormatList, Tail(FormatList),
                                          <<FormatCount>>, <<-1>>}}

(* run builds a dispatcher for each worker; a failure cancels the token.   *)
Build ==
    /\ supervisor = "building"
    /\ \/ /\ shutdown /\ supervisor' = "returned" /\ result' = "Ok"
          /\ UNCHANGED <<shutdown, dispatcher>>
       \/ /\ ~shutdown /\ \E built \in [Workers -> FactoryResults] :
              /\ built[0].error = "Ok" => built[0].formats = FormatList
              /\ IF Prepare(built, 0) = "Ok"
                 THEN /\ supervisor' = "starting" /\ UNCHANGED <<shutdown, result>>
                      /\ dispatcher' = [i \in Workers |-> built[i].formats]
                 ELSE /\ supervisor' = "returned" /\ shutdown' = TRUE /\ result' = "WorkerSetup"
                      /\ UNCHANGED dispatcher
    /\ UNCHANGED <<poll, channel, permit, worker>>

(* The token may be cancelled before run is first polled: nothing starts. *)
Begin ==
    /\ supervisor = "starting"
    /\ \/ /\ shutdown /\ supervisor' = "returned" /\ result' = "Ok" /\ UNCHANGED worker
       \/ /\ ~shutdown /\ supervisor' = "selecting" /\ UNCHANGED result
          /\ worker' = [i \in Workers |-> Idle]
    /\ UNCHANGED <<shutdown, poll, channel, permit, dispatcher>>

(* next_exit: a worker's exit is seen before a tick or a permit. *)
TakeExit(i) ==
    /\ supervisor = "selecting" /\ ~shutdown /\ worker[i] = Exited
    /\ worker' = [worker EXCEPT ![i] = Replaced]
    /\ supervisor' = "rebuilding"
    /\ UNCHANGED <<shutdown, result, poll, channel, permit, dispatcher>>

(* Wrong variant: the worker is not spawned again.                         *)
RebuildForgets(i, built) ==
    /\ supervisor = "rebuilding" /\ worker[i] = Replaced
    /\ worker' = [worker EXCEPT ![i] = Joined] /\ LookForRoom
    /\ UNCHANGED <<shutdown, result, channel, permit, dispatcher>>

(* The replacement gets a new dispatcher.  An error building it ends the   *)
(* runtime; so does a cancellation meanwhile.                              *)
Rebuild(i, built) ==
    /\ supervisor = "rebuilding" /\ worker[i] = Replaced
    /\ \/ /\ BuildCheckedDispatcher(built, FormatList) = "Ok" /\ ~shutdown
          /\ worker' = [worker EXCEPT ![i] = Idle]
          /\ dispatcher' = [dispatcher EXCEPT ![i] = built.formats]
          /\ LookForRoom /\ UNCHANGED <<shutdown, result>>
       \/ /\ BuildCheckedDispatcher(built, FormatList) = "Ok" /\ shutdown
          /\ worker' = [worker EXCEPT ![i] = Joined]
          /\ supervisor' = "draining" /\ result' = "Ok" /\ UNCHANGED <<shutdown, poll, dispatcher>>
       \/ /\ BuildCheckedDispatcher(built, FormatList) # "Ok"
          /\ worker' = [worker EXCEPT ![i] = Joined]
          /\ supervisor' = "draining" /\ shutdown' = TRUE /\ result' = "WorkerSetup"
          /\ UNCHANGED <<poll, dispatcher>>
    /\ UNCHANGED <<channel, permit>>

(* Every worker that is left is told to abort. *)
AbortAll == [i \in Workers |-> IF worker[i] \in {Exited, Replaced, Joined} THEN Joined ELSE Aborting]

(* The factory panics and the supervisor unwinds: its guard cancels the    *)
(* token, and the dropped JoinSet aborts the workers without awaiting them. *)
FactoryPanics(i) ==
    /\ supervisor = "rebuilding" /\ worker[i] = Replaced
    /\ supervisor' = "panicked" /\ shutdown' = TRUE /\ result' = "Panicked"
    /\ worker' = AbortAll
    /\ UNCHANGED <<poll, channel, permit, dispatcher>>

NoExit == \A i \in Workers : worker[i] # Exited

Tick ==
    /\ supervisor = "selecting" /\ ~shutdown /\ NoExit
    /\ supervisor' = "recovering"
    /\ UNCHANGED <<shutdown, result, poll, channel, permit, worker, dispatcher>>

(* recover_expired returned, failed or timed out. *)
Recovered ==
    /\ supervisor = "recovering" /\ ~shutdown
    /\ LookForRoom
    /\ UNCHANGED <<shutdown, result, channel, permit, worker, dispatcher>>

Notified ==
    /\ supervisor = "selecting" /\ ~shutdown /\ NoExit /\ permit
    /\ permit' = FALSE
    /\ LookForRoom
    /\ UNCHANGED <<shutdown, result, channel, worker, dispatcher>>

Asking == supervisor = "claiming" /\ ~shutdown /\ offset < FormatCount /\ Len(claimed) < limit

Asked == ((first + offset) % CounterSize) % FormatCount

(* The queue answers with n tasks of the format asked. *)
ClaimFormat(n) ==
    /\ Asking /\ Asked \notin Broken /\ n <= limit - Len(claimed)
    /\ claimed' = claimed \o [k \in 1..n |-> Asked]
    /\ offset' = offset + 1
    /\ UNCHANGED <<shutdown, supervisor, result, limit, first, channel, permit, worker, dispatcher>>

(* The claim fails or its time is up: what was claimed before is kept. *)
ClaimFails ==
    /\ Asking
    /\ channel' = channel \o claimed
    /\ supervisor' = "selecting"
    /\ UNCHANGED <<shutdown, result, poll, permit, worker, dispatcher>>

(* Every format was asked or the batch is full: the tasks are sent. *)
ClaimEnds ==
    /\ supervisor = "claiming" /\ ~shutdown
    /\ offset = FormatCount \/ Len(claimed) = limit
    /\ channel' = channel \o claimed
    /\ supervisor' = "selecting"
    /\ UNCHANGED <<shutdown, result, poll, permit, worker, dispatcher>>

(* Cancellation is checked first wherever the loop waits; tasks of a claim *)
(* under way are left to their leases.                                     *)
SeeShutdown ==
    /\ shutdown /\ supervisor \in {"selecting", "recovering", "claiming"}
    /\ supervisor' = "draining" /\ result' = "Ok"
    /\ UNCHANGED <<shutdown, poll, channel, permit, worker, dispatcher>>

(* drain: workers are joined as they exit. *)
Join(i) ==
    /\ supervisor = "draining" /\ worker[i] = Exited
    /\ worker' = [worker EXCEPT ![i] = Joined]
    /\ UNCHANGED <<shutdown, supervisor, result, poll, channel, permit, dispatcher>>

(* Wrong variant: the pool is drained without a time limit.                *)
DrainUnlimited ==
    /\ supervisor = "draining" /\ \A i \in Workers : worker[i] = Joined
    /\ supervisor' = "aborting"
    /\ UNCHANGED <<shutdown, result, poll, channel, permit, worker, dispatcher>>

(* handler_timeout + storage_timeout have passed: the rest are aborted.    *)
DrainTimesOut ==
    /\ supervisor = "draining" /\ \E i \in Workers : worker[i] # Joined
    /\ worker' = AbortAll
    /\ supervisor' = "aborting"
    /\ UNCHANGED <<shutdown, result, poll, channel, permit, dispatcher>>

(* Wrong variant: the aborted workers are not awaited.                     *)
DrainEndsWithoutJoin ==
    /\ supervisor \in {"draining", "aborting"}
    /\ supervisor = "draining" => \A i \in Workers : worker[i] = Joined
    /\ supervisor' = "returned"
    /\ UNCHANGED <<shutdown, result, poll, channel, permit, worker, dispatcher>>

(* All have exited in time, or the last aborted one is gone; the wait for  *)
(* the aborted ones has no timer.                                          *)
DrainEnds ==
    /\ supervisor \in {"draining", "aborting"} /\ \A i \in Workers : worker[i] = Joined
    /\ supervisor' = "returned"
    /\ UNCHANGED <<shutdown, result, poll, channel, permit, worker, dispatcher>>

----------------------------------------------------------------------------
(* A worker. *)

Receive(i) ==
    /\ worker[i] = Idle /\ ~shutdown /\ channel # <<>>
    /\ worker' = [worker EXCEPT ![i] = Received(Head(channel))]
    /\ channel' = Tail(channel)
    /\ UNCHANGED <<shutdown, supervisor, result, poll, permit, dispatcher>>

(* Wrong variants: no permit is stored; the token is not checked again.    *)
StartWithoutNotify(i) ==
    /\ worker[i].state = "received"
    /\ worker' = [worker EXCEPT ![i] = IF shutdown THEN Exited ELSE Running(@.task)]
    /\ UNCHANGED <<shutdown, supervisor, result, poll, channel, permit, dispatcher>>

StartUnchecked(i) ==
    /\ worker[i].state = "received"
    /\ permit' = TRUE
    /\ worker' = [worker EXCEPT ![i] = Running(@.task)]
    /\ UNCHANGED <<shutdown, supervisor, result, poll, channel, dispatcher>>

(* notify_one, then the token is checked again before the task starts.     *)
Start(i) ==
    /\ worker[i].state = "received"
    /\ permit' = TRUE
    /\ worker' = [worker EXCEPT ![i] = IF shutdown THEN Exited ELSE Running(@.task)]
    /\ UNCHANGED <<shutdown, supervisor, result, poll, channel, dispatcher>>

(* execute_and_settle returned, with whatever result. *)
Complete(i) ==
    /\ worker[i].state = "running"
    /\ worker' = [worker EXCEPT ![i] = Idle]
    /\ UNCHANGED <<shutdown, supervisor, result, poll, channel, permit, dispatcher>>

Panic(i) ==
    /\ worker[i].state = "running"
    /\ worker' = [worker EXCEPT ![i] = Exited]
    /\ UNCHANGED <<shutdown, supervisor, result, poll, channel, permit, dispatcher>>

Stop(i) ==
    /\ worker[i] = Idle /\ shutdown
    /\ worker' = [worker EXCEPT ![i] = Exited]
    /\ UNCHANGED <<shutdown, supervisor, result, poll, channel, permit, dispatcher>>

(* The aborted future is dropped at an await of its handler. *)
Aborted(i) ==
    /\ worker[i] = Aborting
    /\ worker' = [worker EXCEPT ![i] = Joined]
    /\ UNCHANGED <<shutdown, supervisor, result, poll, channel, permit, dispatcher>>

(* The host cancels the token. *)
Cancel ==
    /\ ~shutdown /\ shutdown' = TRUE
    /\ UNCHANGED <<supervisor, result, poll, channel, permit, worker, dispatcher>>

----------------------------------------------------------------------------
Init ==
    /\ shutdown = FALSE /\ supervisor = "building" /\ result = "none"
    /\ limit = QueueCapacity /\ first = CounterSize - 1 /\ offset = 0 /\ claimed = <<>>
    /\ channel = <<>> /\ permit = FALSE /\ worker = [i \in Workers |-> Joined]
    /\ dispatcher = [i \in Workers |-> <<>>]

Supervise ==
    \/ Begin
    \/ \E i \in Workers : TakeExit(i) \/ FactoryPanics(i) \/ Join(i)
    \/ \E i \in Workers, built \in FactoryResults : Rebuild(i, built)
    \/ Tick \/ Recovered \/ Notified
    \/ \E n \in 0..QueueCapacity : ClaimFormat(n)
    \/ ClaimFails \/ ClaimEnds \/ SeeShutdown \/ DrainTimesOut \/ DrainEnds

Advance(i) == Receive(i) \/ Start(i) \/ Stop(i)

HandlerEnds(i) == Complete(i) \/ Panic(i) \/ Aborted(i)

Next ==
    \/ Build \/ Supervise
    \/ \E i \in Workers : Advance(i) \/ HandlerEnds(i)
    \/ Cancel

Spec == Init /\ [][Next]_vars

(* The supervisor goes on: its waits have timers, but for the last one,    *)
(* that for aborted workers.  A worker without a task goes on, and the     *)
(* JoinSet (external) does not pass over a finished one forever.  Nothing  *)
(* is assumed of a handler: it may neither end nor yield to an abort.      *)
FairSpec ==
    /\ Spec /\ WF_vars(Build \/ Supervise)
    /\ \A i \in Workers : WF_vars(Advance(i)) /\ SF_vars(TakeExit(i))

(* In addition handlers come to an end (execute_and_settle is bounded by   *)
(* the lease's deadlines), and a healthy format that is asked again and    *)
(* again at times has a task and a working connection.                     *)
ClaimSome(f) == Asked = f /\ \E n \in 1..QueueCapacity : ClaimFormat(n)

ServedSpec ==
    /\ FairSpec
    /\ \A i \in Workers : WF_vars(HandlerEnds(i))
    /\ \A f \in Formats : SF_vars(ClaimSome(f))

----------------------------------------------------------------------------
TypeOK ==
    /\ shutdown \in BOOLEAN /\ permit \in BOOLEAN /\ result \in {"none", "Ok", "WorkerSetup", "Panicked"}
    /\ supervisor \in {"building", "starting", "selecting", "rebuilding", "recovering",
                       "claiming", "draining", "aborting", "returned", "panicked"}
    /\ limit \in 0..QueueCapacity /\ first \in 0..CounterSize - 1 /\ offset \in 0..FormatCount
    /\ claimed \in Seq(Formats) /\ channel \in Seq(Formats)
    /\ worker \in [Workers -> WorkerStates] /\ dispatcher \in [Workers -> Seq(0..FormatCount)]

(* The batch a claim returns fits the channel although the room for it was *)
(* measured before the claim was awaited: the two assertions of the        *)
(* supervisor's loop hold whatever the workers do meanwhile.               *)
BatchFits ==
    supervisor = "claiming" => Len(claimed) <= limit /\ Len(channel) + limit <= QueueCapacity

(* A supervisor that last found the channel full and waits is woken as     *)
(* soon as there is room: the permit is stored, or the worker that made    *)
(* the room is about to store it.                                          *)
RoomIsSignalled ==
    supervisor = "selecting" /\ limit = 0 /\ Len(channel) < QueueCapacity =>
        permit \/ \E i \in Workers : worker[i].state = "received"

(* When the runtime has returned no worker is left: none that could still  *)
(* run or settle a task after the host closes the connection pool.  After  *)
(* a panic of the supervisor none is left but those being aborted.         *)
NothingRunsAfterReturn ==
    /\ supervisor = "returned" => shutdown /\ \A i \in Workers : worker[i] = Joined
    /\ supervisor = "panicked" => shutdown /\ \A i \in Workers : worker[i] \in {Aborting, Joined}

(* Every task a worker runs has a format its own dispatcher routes,        *)
(* although the poller claims by the first dispatcher's formats and the    *)
(* factory may build another one for a replacement: no task is failed      *)
(* permanently as "unsupported task format".                               *)
ClaimedTasksAreRouted ==
    \A i \in Workers : worker[i].state = "running" => Dispatched(dispatcher[i], worker[i].task) = "handled"

(* No task starts once the token is cancelled, even one that a worker had  *)
(* received before: only started invocations are drained.                  *)
NothingStartsAfterStop ==
    [][shutdown => \A i \in Workers :
          worker'[i].state = "running" => worker[i].state = "running"]_vars

HandlerLingers == supervisor = "aborting" /\ \E i \in Workers : worker[i] = Aborting

(* A cancelled runtime returns, although a handler may run on forever:     *)
(* only one that was aborted and still does not yield can hold it, since   *)
(* the wait for aborted workers has no timer.                              *)
StopCompletes == shutdown ~> supervisor \in {"returned", "panicked"} \/ HandlerLingers

(* A worker that panicked is replaced unless the runtime stops.            *)
WorkersAreReplaced ==
    \A i \in Workers : worker[i] = Exited ~> worker[i] = Idle \/ shutdown

(* While the runtime is up, every healthy format is served again and       *)
(* again: neither a format whose claims always fail, nor busy formats      *)
(* before it in the order, nor panics starve it.                           *)
HealthyFormatsServed ==
    \A f \in Formats \ Broken :
        []<>(shutdown \/ \E i \in Workers : worker[i] = Running(f))
====
