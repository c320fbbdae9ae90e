---- MODULE TaskExecutor ----
(***************************************************************************)
(* Leases against the clock: how old the lease of a delivery is when it is *)
(* claimed, waits in the channel, is executed and is settled, and what the *)
(* executor therefore decides to do.  Time is discrete.  Of a delivery     *)
(* only the age of its lease matters, counted from before the claim call   *)
(* that granted it.                                                        *)
(*                                                                         *)
(* Three regimes.  "healthy": timers fire when they are due and a worker   *)
(* that is idle takes what waits.  "slow": claims and receives may take    *)
(* any time, but the timers of an execution fire when due.  "stalled":     *)
(* the process may pause anywhere.                                         *)
(***************************************************************************)
EXTENDS Configuration

CONSTANTS
    Cases   \* pairs of worker pool settings, with storage_timeout, and a regime

VARIABLES
    config,   \* the settings of this process
    regime,
    claim,    \* the poller's claim: time since it began, since its present
              \* call, and ages of the leases it has got
    channel,  \* ages of the leases that wait
    worker    \* what each worker does

vars == <<config, regime, claim, channel, worker>>

Settings ==
    [concurrency : Nat, queue_capacity : Nat, poll_interval : Nat, handler_timeout : Nat,
     storage_timeout : Nat, lease_duration : Nat]

ASSUME ExecutorAssumption == Cases \subseteq Settings \X {"healthy", "slow", "stalled"}

Workers == 1..config.concurrency

NoClaim == [active |-> FALSE, elapsed |-> 0, asking |-> 0, got |-> <<>>]

Idle == [phase |-> "idle", age |-> 0, spent |-> 0]

(* Age at which the lease is left to recovery: the settlement deadline. *)
SettlementAge == config.lease_duration - LeaseSafetyMargin

(* Times are not told apart beyond the last value that is compared. *)
Older(age) == IF age >= SettlementAge THEN age ELSE age + 1

Longer(time) ==
    IF time >= config.handler_timeout /\ time >= config.storage_timeout THEN time ELSE time + 1

----------------------------------------------------------------------------
(* The poller. *)

(* The loop found room; claim() is called for the first format. *)
StartClaim ==
    /\ ~claim.active /\ Len(channel) < config.queue_capacity
    /\ claim' = [NoClaim EXCEPT !.active = TRUE]
    /\ UNCHANGED <<config, regime, channel, worker>>

(* A call returns n leases, anchored when it began, and the next begins. *)
ClaimReturns(n) ==
    /\ claim.active /\ n <= config.queue_capacity - Len(channel) - Len(claim.got)
    /\ claim' = [claim EXCEPT !.asking = 0, !.got = @ \o [k \in 1..n |-> claim.asking]]
    /\ UNCHANGED <<config, regime, channel, worker>>

(* All formats were asked, or the batch is full, or storage_timeout is up. *)
EndClaim ==
    /\ claim.active
    /\ claim' = NoClaim /\ channel' = channel \o claim.got
    /\ UNCHANGED <<config, regime, worker>>

----------------------------------------------------------------------------
(* A worker and its executor. *)

(* Wrong variant: the settlement's own time is not reserved.               *)
ExecutionPlanWithoutSettlement(age) ==
    CASE SettlementAge <= age -> "RecoverOnly"
      [] SettlementAge > age /\ SettlementAge - age < config.handler_timeout -> "RetryOnly"
      [] SettlementAge > age /\ SettlementAge - age >= config.handler_timeout -> "Run"

ExecutionPlan(age) ==
    CASE SettlementAge <= age -> "RecoverOnly"
      [] SettlementAge > age /\ SettlementAge - age < config.handler_timeout + config.storage_timeout
             -> "RetryOnly"
      [] SettlementAge - age >= config.handler_timeout + config.storage_timeout -> "Run"

(* The worker receives a delivery and the executor plans it: the handler   *)
(* runs, or a retry is settled at once, or nothing is done.                *)
Receive(w) ==
    /\ worker[w] = Idle /\ channel # <<>>
    /\ worker' = [worker EXCEPT ![w] =
          [phase |-> CASE ExecutionPlan(Head(channel)) = "Run" -> "handling"
                       [] ExecutionPlan(Head(channel)) = "RetryOnly" -> "retrying"
                       [] ExecutionPlan(Head(channel)) = "RecoverOnly" -> "exhausted",
           age |-> Head(channel), spent |-> 0]]
    /\ channel' = Tail(channel)
    /\ UNCHANGED <<config, regime, claim>>

(* The handler returned, or its deadline fired; then settle_before.        *)
HandlerEnds(w) ==
    /\ worker[w].phase = "handling"
    /\ worker' = [worker EXCEPT ![w].phase = IF worker[w].age < SettlementAge THEN "settling" ELSE "overrun",
                                ![w].spent = 0]
    /\ UNCHANGED <<config, regime, claim, channel>>

(* The settlement is answered, or its deadline fires, or none was sent. *)
Settled(w) ==
    /\ worker[w].phase \in {"retrying", "settling", "exhausted", "overrun"}
    /\ worker' = [worker EXCEPT ![w] = Idle]
    /\ UNCHANGED <<config, regime, claim, channel>>

----------------------------------------------------------------------------
(* Time. *)

(* A timer of the execution is due. *)
Due(w) ==
    \/ worker[w].phase = "handling" /\ worker[w].spent >= config.handler_timeout
    \/ worker[w].phase \in {"retrying", "settling"}
       /\ (worker[w].spent >= config.storage_timeout \/ worker[w].age >= SettlementAge)
    \/ worker[w].phase \in {"exhausted", "overrun"}

MayPass ==
    /\ regime # "stalled" => \A w \in Workers : ~Due(w)
    /\ regime = "healthy" =>
           /\ claim.active => claim.elapsed < config.storage_timeout
           /\ channel # <<>> => \A w \in Workers : worker[w] # Idle

Tick ==
    /\ MayPass
    /\ claim' = IF claim.active
                THEN [claim EXCEPT !.elapsed = Longer(@), !.asking = Older(@),
                                   !.got = [k \in 1..Len(@) |-> Older(@[k])]]
                ELSE claim
    /\ channel' = [k \in 1..Len(channel) |-> Older(channel[k])]
    /\ worker' = [w \in Workers |-> IF worker[w] = Idle THEN Idle
                                    ELSE [worker[w] EXCEPT !.age = Older(@), !.spent = Longer(@)]]
    /\ UNCHANGED <<config, regime>>

----------------------------------------------------------------------------
(* run refuses a configuration whose lease is too short. *)
Accepted(c) ==
    TaskWorkerPoolConfigNew(c) = "Ok" /\ ValidateForStorageTimeout(c, c.storage_timeout) = "Ok"

Init ==
    /\ \E case \in Cases : Accepted(case[1]) /\ config = case[1] /\ regime = case[2]
    /\ claim = NoClaim /\ channel = <<>> /\ worker = [w \in Workers |-> Idle]

Next ==
    \/ StartClaim \/ EndClaim \/ Tick
    \/ \E n \in 1..config.queue_capacity : ClaimReturns(n)
    \/ \E w \in Workers : Receive(w) \/ HandlerEnds(w) \/ Settled(w)

Spec == Init /\ [][Next]_vars

----------------------------------------------------------------------------
(* In a healthy pool every claimed delivery is run: however full the       *)
(* channel was and however long the handlers before it took, an accepted   *)
(* configuration leaves enough of the lease, and no attempt of a task is   *)
(* spent without running its handler.                                      *)
HealthyPoolRuns ==
    regime = "healthy" => \A w \in Workers : worker[w].phase \notin {"retrying", "exhausted"}

(* A handler that was started is settled with its whole storage budget and *)
(* the safety margin left, although its lease waited in the channel for    *)
(* any time: no effect is repeated just because its result came too late.  *)
RunsCanSettle ==
    regime # "stalled" => \A w \in Workers :
        /\ worker[w].phase # "overrun"
        /\ worker[w].phase = "settling" =>
               worker[w].age + config.storage_timeout - worker[w].spent <= SettlementAge
====
