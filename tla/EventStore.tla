---- MODULE EventStore ----
(***************************************************************************)
(* The commands of one aggregate on PostgreSQL.  An execution reads a      *)
(* snapshot, then the events after it, decides, and writes its event, its  *)
(* tasks and, at every snapshot_interval-th event, a snapshot, in one      *)
(* statement.  A conflict makes it start again, max_attempts times in all.  *)
(* Executions interleave between the three round trips; each may be lost,  *)
(* and a statement whose caller was told so may still be executed.         *)
(*                                                                         *)
(* A row of snapshots has the key (aggregate, last_sequence).  cqrs-es     *)
(* (external) gives a new snapshot the version of the one it loaded plus   *)
(* one, and its reader takes any row of the aggregate.                     *)
(***************************************************************************)
EXTENDS Aggregate, FiniteSets

CONSTANTS
    Invocations,  \* calls of CommandExecutor::execute
    Commands,     \* what may be asked
    Intervals,    \* snapshot intervals the service may be configured with
    Policy,       \* AggregateConflictRetryPolicy: max_attempts, initial_backoff,
                  \* max_backoff in milliseconds, jitter in percent
    MaxBackoff,   \* i64::MAX milliseconds
    MaxFactor     \* u32::MAX

VARIABLES
    interval,   \* PostgresCommandConfig::snapshot_interval
    events,     \* rows of events, by sequence
    snapshots,  \* rows of snapshots
    outbox,     \* invocations whose tasks are rows of transactional_outbox
    request,    \* the command of each invocation, or NotAsked
    since,      \* history: the number of events when it was asked
    stage,      \* how far its execution has come
    attempt,    \* of the conflict retry
    context,    \* the loaded aggregate: state, last sequence, snapshot version
    answer      \* what its caller was told, "none" before

vars == <<interval, events, snapshots, outbox, request, since, stage, attempt, context, answer>>

tables == <<interval, events, snapshots, outbox>>

NotAsked == [rule |-> "none", tasks |-> 0]

Empty == [state |-> <<>>, sequence |-> 0, version |-> 0]

----------------------------------------------------------------------------
(* The retry policy. *)

RetryPolicyNew(p) ==
    IF p.max_attempts = 0 THEN "InvalidAttemptLimit"
    ELSE IF p.initial_backoff > p.max_backoff \/ p.max_backoff > MaxBackoff THEN "InvalidBackoff"
    ELSE IF p.jitter \notin 0..100 THEN "InvalidJitter" ELSE "Ok"

Least(a, b) == IF a < b THEN a ELSE b

Greatest(a, b) == IF a < b THEN b ELSE a

(* checked_pow: a power of two that does not fit the type is its maximum. *)
Multiplier(retry) == IF 2 ^ (retry - 1) \in 0..MaxFactor THEN 2 ^ (retry - 1) ELSE MaxFactor

(* The pause doubles up to its maximum. *)
Backoff(retry) == Least(Policy.initial_backoff * Multiplier(retry), Policy.max_backoff)

(* Wrong variant: the jitter is not capped.                                *)
BackoffBoundsUncapped(retry) ==
    [lower |-> (Backoff(retry) * (100 - Policy.jitter)) \div 100,
     upper |-> (Backoff(retry) * (100 + Policy.jitter)) \div 100]

BackoffBounds(retry) ==
    [lower |-> Least((Backoff(retry) * (100 - Policy.jitter)) \div 100, Backoff(retry)),
     upper |-> Greatest(Least((Backoff(retry) * (100 + Policy.jitter)) \div 100, Policy.max_backoff),
                        Backoff(retry))]

ASSUME StoreAssumption ==
    /\ Policy \in [max_attempts : Nat, initial_backoff : Nat, max_backoff : Nat, jitter : Nat]
    /\ MaxBackoff \in Nat /\ MaxFactor \in Nat \ {0} /\ RetryPolicyNew(Policy) = "Ok"
    /\ Intervals \subseteq Nat \ {0} /\ Commands \subseteq [rule : Rules, tasks : Nat]

----------------------------------------------------------------------------
(* The write plan. *)

(* A snapshot is due at every interval-th event; the first one is inserted. *)
SnapshotWrite(loaded) ==
    IF (loaded.sequence + 1) % interval # 0 THEN "None"
    ELSE IF loaded.version + 1 = 1 THEN "Insert" ELSE "Update"

BindCount(snapshot) == CASE snapshot = "None" -> 0 [] snapshot = "Insert" -> 5 [] snapshot = "Update" -> 6

MaxBinds == 65535

BindsFit(tasks, snapshot) == 11 * tasks + 7 + BindCount(snapshot) < MaxBinds

(* No event: nothing to do unless there are tasks.  At most one event, and *)
(* all of its parameters must fit one statement.                           *)
WritePlan(decision, tasks, snapshot) ==
    CASE decision = "none" -> IF tasks = 0 THEN "NoOp" ELSE "Invalid"
      [] decision = "one" -> IF BindsFit(tasks, snapshot) THEN "OneEvent" ELSE "Invalid"
      [] decision = "many" -> "Invalid"

----------------------------------------------------------------------------
(* The statement of persist_one, executed for c. *)

Sequence(c) == context[c].sequence + 1

(* The event is applied once by the sink and again for the snapshot. *)
SnapshotState(c) == Apply(Apply(context[c].state, c), c)

Row(c) ==
    [last_sequence |-> Sequence(c), version |-> context[c].version + 1, state |-> SnapshotState(c)]

(* Rows that UPDATE ... WHERE current_snapshot = version - 1 changes. *)
Updated(c) == {s \in snapshots : s.version = context[c].version}

(* Wrong variant: the key of an inserted row is its version.               *)
AppendSnapshotByVersion(c) ==
    CASE SnapshotWrite(context[c]) = "None" -> snapshots
      [] SnapshotWrite(context[c]) = "Insert" -> snapshots \cup {[Row(c) EXCEPT !.last_sequence = context[c].version + 1]}
      [] SnapshotWrite(context[c]) = "Update" -> (snapshots \ Updated(c)) \cup {Row(c)}

AppendSnapshot(c) ==
    CASE SnapshotWrite(context[c]) = "None" -> snapshots
      [] SnapshotWrite(context[c]) = "Insert" -> snapshots \cup {Row(c)}
      [] SnapshotWrite(context[c]) = "Update" -> (snapshots \ Updated(c)) \cup {Row(c)}

(* One row comes back from written_snapshot and no other row has its key.  *)
SnapshotFits(c) ==
    CASE SnapshotWrite(context[c]) = "None" -> TRUE
      [] SnapshotWrite(context[c]) = "Insert" -> \A s \in snapshots : s.last_sequence # Sequence(c)
      [] SnapshotWrite(context[c]) = "Update" ->
             /\ Cardinality(Updated(c)) = 1
             /\ \A s \in snapshots \ Updated(c) : s.last_sequence # Sequence(c)

(* Wrong variant: a sequence number that is taken is no conflict.          *)
EventFitsAlways(c) == TRUE

(* The key of events: the sequence number is free. *)
EventFits(c) == Len(events) < Sequence(c)

Stored(c) ==
    /\ events' = Append(events, c)
    /\ snapshots' = AppendSnapshot(c)
    /\ outbox' = IF request[c].tasks > 0 THEN outbox \cup {c} ELSE outbox

----------------------------------------------------------------------------
(* An execution. *)

Waiting(c) == answer[c] = "none"

(* The execution is over and its locals are gone. *)
Finished(c) ==
    /\ stage' = [stage EXCEPT ![c] = "done"]
    /\ context' = [context EXCEPT ![c] = Empty]
    /\ attempt' = [attempt EXCEPT ![c] = 1]

Return(c, a) == answer' = [answer EXCEPT ![c] = a] /\ Finished(c)

(* get_snapshot: any row, if there is one. *)
Load(c) ==
    /\ \/ snapshots = {} /\ context' = [context EXCEPT ![c] = Empty]
       \/ \E s \in snapshots : context' = [context EXCEPT ![c] =
              [state |-> s.state, sequence |-> s.last_sequence, version |-> s.version]]
    /\ stage' = [stage EXCEPT ![c] = "loaded"]

(* A call, up to its first read. *)
Invoke(c, command) ==
    /\ request[c] = NotAsked
    /\ request' = [request EXCEPT ![c] = command]
    /\ since' = [since EXCEPT ![c] = Len(events)]
    /\ Load(c)
    /\ UNCHANGED <<tables, attempt, answer>>

(* get_last_events: what is stored after the snapshot by now. *)
Replayed(c) ==
    [context[c] EXCEPT !.state = @ \o SubSeq(events, context[c].sequence + 1, Len(events)),
                       !.sequence = Len(events)]

(* Then the aggregate handles the command and the write is planned. *)
Handle(c) ==
    LET loaded == Replayed(c)
        decision == Decision(request[c], loaded.state)
        plan == WritePlan(decision, request[c].tasks, SnapshotWrite(loaded))
    IN  /\ stage[c] = "loaded"
        /\ \/ decision = "reject" /\ Return(c, "Domain")
           \/ decision # "reject" /\ plan = "NoOp" /\ Return(c, "Ok")
           \/ decision # "reject" /\ plan = "Invalid" /\ Return(c, "Unavailable")
           \/ /\ decision # "reject" /\ plan = "OneEvent"
              /\ stage' = [stage EXCEPT ![c] = "writing"]
              /\ context' = [context EXCEPT ![c] = loaded]
              /\ UNCHANGED <<attempt, answer>>
        /\ UNCHANGED <<tables, request, since>>

(* What a statement came to, if anybody still waits for it. *)
Proceed(c, outcome) ==
    IF Waiting(c) THEN stage' = [stage EXCEPT ![c] = outcome] /\ UNCHANGED <<attempt, context>>
    ELSE Finished(c)

(* PostgreSQL executes the statement, all or nothing: a duplicate key of   *)
(* events or snapshots, or no updated snapshot, is an optimistic conflict. *)
PersistOne(c) ==
    /\ stage[c] = "writing"
    /\ \/ EventFits(c) /\ SnapshotFits(c) /\ Stored(c) /\ Proceed(c, "written")
       \/ /\ ~(EventFits(c) /\ SnapshotFits(c))
          /\ UNCHANGED <<events, snapshots, outbox>> /\ Proceed(c, "conflicted")
    /\ UNCHANGED <<interval, request, since, answer>>

Acknowledge(c) ==
    /\ stage[c] = "written" /\ Return(c, "Ok")
    /\ UNCHANGED <<tables, request, since>>

(* Wrong variants: there is no limit; the first execution is not counted.  *)
RetryForever(c) ==
    /\ stage[c] = "conflicted" /\ Load(c)
    /\ UNCHANGED <<tables, request, since, attempt, answer>>

RetryOnceMore(c) ==
    /\ stage[c] = "conflicted"
    /\ \/ /\ attempt[c] <= Policy.max_attempts /\ Load(c)
          /\ attempt' = [attempt EXCEPT ![c] = @ + 1] /\ UNCHANGED answer
       \/ attempt[c] > Policy.max_attempts /\ Return(c, "Conflict")
    /\ UNCHANGED <<tables, request, since>>

(* retry_on_aggregate_conflict: after a pause, from the start. *)
Retry(c) ==
    /\ stage[c] = "conflicted"
    /\ \/ /\ attempt[c] < Policy.max_attempts /\ Load(c)
          /\ attempt' = [attempt EXCEPT ![c] = @ + 1] /\ UNCHANGED answer
       \/ attempt[c] >= Policy.max_attempts /\ Return(c, "Conflict")
    /\ UNCHANGED <<tables, request, since>>

(* A read fails, or the caller's future is dropped meanwhile: no retry. *)
ReadFails(c) ==
    /\ stage[c] = "loaded" /\ Return(c, "Unavailable")
    /\ UNCHANGED <<tables, request, since>>

(* The connection fails, or the caller's future is dropped, after the      *)
(* statement was sent: it is not recalled, and whether its reply was under *)
(* way makes no difference.                                                *)
WriteFails(c) ==
    /\ stage[c] = "writing" /\ Waiting(c)
    /\ answer' = [answer EXCEPT ![c] = "Unavailable"]
    /\ UNCHANGED <<tables, request, since, stage, attempt, context>>

(* A statement nobody waits for is never executed. *)
Vanish(c) ==
    /\ stage[c] = "writing" /\ ~Waiting(c) /\ Finished(c)
    /\ UNCHANGED <<tables, request, since, answer>>

----------------------------------------------------------------------------
Init ==
    /\ interval \in Intervals
    /\ events = <<>> /\ snapshots = {} /\ outbox = {}
    /\ request = [c \in Invocations |-> NotAsked]
    /\ since = [c \in Invocations |-> 0]
    /\ stage = [c \in Invocations |-> "new"]
    /\ attempt = [c \in Invocations |-> 1]
    /\ context = [c \in Invocations |-> Empty]
    /\ answer = [c \in Invocations |-> "none"]

Step(c) ==
    Handle(c) \/ PersistOne(c) \/ Acknowledge(c) \/ Retry(c) \/ ReadFails(c) \/ WriteFails(c)

Next ==
    \E c \in Invocations :
        \/ \E command \in Commands : Invoke(c, command)
        \/ Step(c) \/ Vanish(c)

Spec == Init /\ [][Next]_vars

(* A round trip ends, with an answer or an error, and so does the pause    *)
(* before a retry.                                                         *)
FairSpec == Spec /\ \A c \in Invocations : WF_vars(Waiting(c) /\ Step(c))

----------------------------------------------------------------------------
TypeOK ==
    /\ interval \in Intervals /\ events \in Seq(Invocations) /\ outbox \subseteq Invocations
    /\ snapshots \subseteq [last_sequence : Nat, version : Nat, state : Seq(Invocations)]
    /\ request \in [Invocations -> Commands \cup {NotAsked}] /\ since \in [Invocations -> Nat]
    /\ stage \in [Invocations -> {"new", "loaded", "writing", "written", "conflicted", "done"}]
    /\ attempt \in [Invocations -> 1..Policy.max_attempts]
    /\ context \in [Invocations -> [state : Seq(Invocations), sequence : Nat, version : Nat]]
    /\ answer \in [Invocations -> {"none", "Ok", "Domain", "Conflict", "Unavailable"}]

(* A snapshot is the state after the first last_sequence events, although  *)
(* it was computed from a snapshot and a tail read at different times, the *)
(* last event was applied twice, and several rows may exist.               *)
SnapshotsAreThePast ==
    \A s \in snapshots :
        s.last_sequence <= Len(events) /\ s.state = SubSeq(events, 1, s.last_sequence)

(* The range the pause before a retry is drawn from is never empty, which  *)
(* would panic, and never exceeds the configured maximum, at every attempt *)
(* that conflicts bring a command to.                                      *)
PausesAreBounded ==
    \A c \in Invocations : stage[c] = "conflicted" /\ attempt[c] < Policy.max_attempts =>
        /\ 0 <= BackoffBounds(attempt[c]).lower
        /\ BackoffBounds(attempt[c]).lower <= BackoffBounds(attempt[c]).upper
        /\ BackoffBounds(attempt[c]).upper <= Policy.max_backoff

Atomic == INSTANCE AtomicCommands WITH log <- events

(* The three round trips with their retries, lost replies and late         *)
(* statements implement the command that takes effect at one instant.      *)
CommandsAreAtomic == Atomic!Spec

(* Every command is answered: no sequence of conflicts keeps it forever.   *)
CommandsAreAnswered ==
    \A c \in Invocations : request[c] # NotAsked ~> answer[c] # "none"

(* "domain command conflicted with a concurrent change": a command that is *)
(* answered with a conflict was overtaken by another one's event.          *)
ConflictMeansConcurrentChange ==
    [][\A c \in Invocations :
          answer[c] = "none" /\ answer'[c] = "Conflict" => Len(events) > since[c]]_vars
====
