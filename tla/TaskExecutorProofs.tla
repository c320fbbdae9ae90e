---- MODULE TaskExecutorProofs ----
(***************************************************************************)
(* Why an accepted configuration leaves every delivery enough of its       *)
(* lease.  Tasks wait in a channel that several workers empty; the bound   *)
(* on their wait is an invariant that counts, for each position of the     *)
(* channel, how many times a worker will take a task in the time left.     *)
(***************************************************************************)
EXTENDS TaskExecutor, FiniteSets, FiniteSetTheorems, TLAPS

(* The longest a worker is kept by one delivery. *)
ServiceTime == config.handler_timeout + config.storage_timeout

(* How long each worker may still be busy, at most. *)
Remaining ==
    [w \in Workers |->
        CASE worker[w].phase = "handling" -> ServiceTime - worker[w].spent
          [] worker[w].phase = "settling" -> config.storage_timeout - worker[w].spent
          [] OTHER -> 0]

(* The age to which a task may wait in the channel. *)
WaitLimit == config.storage_timeout + CeilDiv(config.queue_capacity, config.concurrency) * ServiceTime

(* Workers that are free within s. *)
FreeWithin(remaining, s) == {w \in DOMAIN remaining : remaining[w] <= s}

(* In the time that is left, q whole services of length d and s more,      *)
(* workers become free at least k times: each of them q times, and once    *)
(* more if it is free within s.                                            *)
EnoughTurns(left, k, d, remaining) ==
    \E q \in Nat, s \in Nat :
        /\ s < d /\ q * d + s <= left
        /\ k <= q * Cardinality(DOMAIN remaining) + Cardinality(FreeWithin(remaining, s))

Phases == {"idle", "handling", "settling", "retrying", "exhausted", "overrun"}

TypeOK ==
    /\ config \in Settings /\ Accepted(config) /\ regime \in {"healthy", "slow", "stalled"}
    /\ claim \in [active : BOOLEAN, elapsed : Nat, asking : Nat, got : Seq(Nat)]
    /\ channel \in Seq(Nat)
    /\ worker \in [Workers -> [phase : Phases, age : Nat, spent : Nat]]
    /\ \A w \in Workers : worker[w].phase = "idle" => worker[w] = Idle

(* What a handler or a settlement that is due in time still needs of the   *)
(* lease, it has.                                                          *)
RunsInv ==
    regime # "stalled" => \A w \in Workers :
        /\ worker[w].phase # "overrun"
        /\ worker[w].phase = "handling" =>
              /\ worker[w].spent <= config.handler_timeout
              /\ worker[w].age + ServiceTime - worker[w].spent <= SettlementAge
        /\ worker[w].phase = "settling" =>
              /\ worker[w].spent <= config.storage_timeout
              /\ worker[w].age + config.storage_timeout - worker[w].spent <= SettlementAge

(* The leases of a claim are no older than the claim, and fit the channel. *)
ClaimInv ==
    claim.active =>
        /\ claim.elapsed <= config.storage_timeout /\ claim.asking <= claim.elapsed
        /\ \A k \in 1..Len(claim.got) : claim.got[k] <= claim.elapsed
        /\ Len(channel) + Len(claim.got) <= config.queue_capacity

(* In a healthy pool every task that waits will be taken in time. *)
HealthyInv ==
    regime = "healthy" =>
        /\ ClaimInv /\ Len(channel) <= config.queue_capacity
        /\ \A w \in Workers : worker[w].phase \notin {"retrying", "exhausted"}
        /\ \A k \in 1..Len(channel) : EnoughTurns(WaitLimit - channel[k], k, ServiceTime, Remaining)

ExecutorInv == TypeOK /\ RunsInv /\ HealthyInv

----------------------------------------------------------------------------
(* Accepted configurations. *)

(* A list of checks is passed only if each of them is. *)
LEMMA AllChecksPass ==
    ASSUME NEW checks, Len(checks) \in Nat, \A i \in 1..Len(checks) : checks[i][2] # "Ok",
           FirstError(checks) = "Ok"
    PROVE  \A i \in 1..Len(checks) : ~checks[i][1]
<1> DEFINE failed == {i \in 1..Len(checks) : checks[i][1]}
<1>1. SUFFICES ASSUME failed # {} PROVE FALSE
  BY Zenon
<1>2. PICK R : IsWellFoundedOn(R, Nat) /\ \A m, n \in Nat : m < n => <<m, n>> \in R
  <2>1. \A m, n \in Nat : m < n => <<m, n>> \in OpToRel(<, Nat)
    BY Zenon DEF OpToRel
  <2> QED
    BY <2>1, NatLessThanWellFounded, Zenon
<1>3. \E m \in failed : \A j \in failed : m <= j
  <2>0. IsWellFoundedOn(R, Nat)
    BY <1>2, Zenon
  <2>1. failed \subseteq Nat
    OBVIOUS
  <2> HIDE DEF failed
  <2>2. PICK i \in failed : \A j \in failed : ~(<<j, i>> \in R)
    BY <1>1, <2>0, <2>1, WFMin, Zenon
  <2>3. \A j \in failed : ~(j < i)
    BY <1>2, <2>1, <2>2, Zenon
  <2> QED
    BY <2>1, <2>3
<1>4. PICK m \in failed : FirstError(checks) = checks[m][2]
  BY <1>1, <1>3, Zenon DEF FirstError
<1> QED
  BY <1>4, Zenon

(* The lease covers a claim, a full channel, one delivery and the margin.  *)
LEMMA LeaseBudget ==
    ASSUME NEW c \in Settings, Accepted(c)
    PROVE  /\ c.concurrency > 0 /\ c.handler_timeout > 0 /\ c.storage_timeout > 0
           /\ c.lease_duration > Required(c, c.storage_timeout)
<1>1. c.concurrency # 0 /\ c.handler_timeout # 0
  <2> DEFINE checks == <<
        <<c.concurrency = 0, "InvalidConcurrency">>,
        <<c.queue_capacity = 0 \/ c.queue_capacity > MaxQueueCapacity, "InvalidQueueCapacity">>,
        <<c.poll_interval = 0 \/ c.poll_interval > MaxStored, "InvalidPollInterval">>,
        <<c.lease_duration = 0 \/ c.lease_duration > MaxStored, "InvalidLeaseDuration">>,
        <<c.handler_timeout = 0 \/ c.handler_timeout >= c.lease_duration, "InvalidHandlerTimeout">> >>
  <2>1. FirstError(checks) = "Ok"
    BY Zenon DEF Accepted, TaskWorkerPoolConfigNew
  <2>2. Len(checks) = 5 /\ \A i \in 1..Len(checks) : checks[i][2] # "Ok"
    OBVIOUS
  <2>3. \A i \in 1..5 : ~checks[i][1]
    <3> HIDE DEF checks
    <3> QED
      BY <2>1, <2>2, AllChecksPass
  <2>4. ~checks[1][1] /\ ~checks[5][1]
    BY <2>3
  <2> QED
    BY <2>4, Zenon
<1>2. c.storage_timeout # 0 /\ ~(c.lease_duration <= Required(c, c.storage_timeout))
  <2> DEFINE t == c.storage_timeout
             checks == <<
        <<t = 0, "InvalidStorageTimeout">>,
        <<Invocation(c, t) > MaxDuration, "LeaseBudgetOverflow">>,
        <<Queued(c, t) > MaxDuration, "LeaseBudgetOverflow">>,
        <<Required(c, t) > MaxDuration, "LeaseBudgetOverflow">>,
        <<c.lease_duration <= Required(c, t), "LeaseTooShort">> >>
  <2>1. FirstError(checks) = "Ok"
    BY Zenon DEF Accepted, ValidateForStorageTimeout
  <2>2. Len(checks) = 5 /\ \A i \in 1..Len(checks) : checks[i][2] # "Ok"
    OBVIOUS
  <2>3. \A i \in 1..5 : ~checks[i][1]
    <3> HIDE DEF checks
    <3> QED
      BY <2>1, <2>2, AllChecksPass
  <2>4. ~checks[1][1] /\ ~checks[5][1]
    BY <2>3
  <2> QED
    BY <2>4, Zenon
<1>3. CeilDiv(c.queue_capacity, c.concurrency) \in Int
  BY <1>1 DEF CeilDiv, Settings
<1>4. Required(c, c.storage_timeout) \in Int
  BY <1>3, ConfigurationAssumption DEF Required, Queued, Invocation, Settings
<1> QED
  BY <1>1, <1>2, <1>4 DEF Settings

----------------------------------------------------------------------------
(* Turns.  Busy times are given by a function r on a finite set of workers. *)

(* The turns grow with the time left, and as workers are free earlier. *)
LEMMA TurnsKeep ==
    ASSUME NEW D, IsFiniteSet(D), NEW r \in [D -> Int], NEW r2 \in [D -> Int],
           \A w \in D : r2[w] <= r[w],
           NEW left \in Int, NEW left2 \in Int, left <= left2, NEW d \in Nat, NEW k \in Int,
           EnoughTurns(left, k, d, r)
    PROVE  EnoughTurns(left2, k, d, r2)
<1>1. PICK q \in Nat, s \in Nat :
          /\ s < d /\ q * d + s <= left
          /\ k <= q * Cardinality(D) + Cardinality(FreeWithin(r, s))
  BY Zenon DEF EnoughTurns
<1>2. FreeWithin(r, s) \subseteq FreeWithin(r2, s) /\ FreeWithin(r2, s) \subseteq D
  BY DEF FreeWithin
<1>3. /\ Cardinality(D) \in Nat /\ Cardinality(FreeWithin(r, s)) \in Nat
      /\ Cardinality(FreeWithin(r2, s)) \in Nat
      /\ Cardinality(FreeWithin(r, s)) <= Cardinality(FreeWithin(r2, s))
  BY <1>2, FS_Subset, FS_CardinalityType, Zenon
<1>4. k <= q * Cardinality(D) + Cardinality(FreeWithin(r2, s))
  BY <1>1, <1>3
<1>5. q * d + s <= left2
  BY <1>1
<1> QED
  BY <1>1, <1>4, <1>5, Zenon DEF EnoughTurns

(* One unit of time: the task has less left, every worker is busy for less. *)
LEMMA TurnsOnTick ==
    ASSUME NEW D, IsFiniteSet(D), NEW r \in [D -> Int], NEW r2 \in [D -> Int],
           NEW d \in Nat, \A w \in D : 0 < r[w] /\ r[w] <= d /\ r2[w] < r[w],
           NEW left \in Int, NEW left2 \in Int, left - 1 <= left2,
           NEW k \in Nat, k > 0, EnoughTurns(left, k, d, r)
    PROVE  EnoughTurns(left2, k, d, r2)
<1>1. PICK q \in Nat, s \in Nat :
          /\ s < d /\ q * d + s <= left
          /\ k <= q * Cardinality(D) + Cardinality(FreeWithin(r, s))
  BY Zenon DEF EnoughTurns
<1>2. Cardinality(D) \in Nat
  BY FS_CardinalityType, Zenon
<1>3. CASE s > 0
  <2>1. FreeWithin(r, s) \subseteq FreeWithin(r2, s - 1) /\ FreeWithin(r2, s - 1) \subseteq D
    BY DEF FreeWithin
  <2>2. /\ Cardinality(FreeWithin(r, s)) \in Nat /\ Cardinality(FreeWithin(r2, s - 1)) \in Nat
        /\ Cardinality(FreeWithin(r, s)) <= Cardinality(FreeWithin(r2, s - 1))
    BY <2>1, FS_Subset, FS_CardinalityType, Zenon
  <2>3. k <= q * Cardinality(D) + Cardinality(FreeWithin(r2, s - 1))
    BY <1>1, <1>2, <2>2
  <2>4. s - 1 \in Nat /\ s - 1 < d /\ q * d + (s - 1) <= left2
    BY <1>1, <1>3
  <2> QED
    BY <2>3, <2>4, Zenon DEF EnoughTurns
<1>4. CASE s = 0
  <2>1. FreeWithin(r, s) = {} /\ FreeWithin(r2, d - 1) = D
    BY <1>4 DEF FreeWithin
  <2>2. k <= q * Cardinality(D)
    BY <1>1, <1>2, <2>1, FS_EmptySet
  <2>3. q > 0
    BY <1>2, <2>2
  <2>4. k <= (q - 1) * Cardinality(D) + Cardinality(FreeWithin(r2, d - 1))
    BY <1>2, <2>1, <2>2
  <2>5. q - 1 \in Nat /\ d - 1 \in Nat /\ d - 1 < d /\ (q - 1) * d + (d - 1) <= left2
    BY <1>1, <1>4, <2>3
  <2> QED
    BY <2>4, <2>5, Zenon DEF EnoughTurns
<1> QED
  BY <1>3, <1>4

(* A free worker takes the first task: the others move up by one. *)
LEMMA TurnsOnTake ==
    ASSUME NEW D, IsFiniteSet(D), NEW r \in [D -> Int], NEW r2 \in [D -> Int],
           NEW d \in Nat, NEW u \in D, r[u] = 0, \A w \in D : w # u => r2[w] = r[w],
           NEW left \in Int, NEW k \in Nat, EnoughTurns(left, k + 1, d, r)
    PROVE  EnoughTurns(left, k, d, r2)
<1>1. PICK q \in Nat, s \in Nat :
          /\ s < d /\ q * d + s <= left
          /\ k + 1 <= q * Cardinality(D) + Cardinality(FreeWithin(r, s))
  BY Zenon DEF EnoughTurns
<1>2. /\ u \in FreeWithin(r, s) /\ FreeWithin(r, s) \ {u} \subseteq FreeWithin(r2, s)
      /\ FreeWithin(r, s) \subseteq D /\ FreeWithin(r2, s) \subseteq D
  BY DEF FreeWithin
<1>3. /\ Cardinality(D) \in Nat /\ Cardinality(FreeWithin(r, s)) \in Nat
      /\ Cardinality(FreeWithin(r2, s)) \in Nat
      /\ Cardinality(FreeWithin(r, s)) - 1 <= Cardinality(FreeWithin(r2, s))
  <2>1. IsFiniteSet(FreeWithin(r, s)) /\ IsFiniteSet(FreeWithin(r2, s))
    BY <1>2, FS_Subset, Zenon
  <2>2. Cardinality(FreeWithin(r, s) \ {u}) = Cardinality(FreeWithin(r, s)) - 1
    BY <1>2, <2>1, FS_RemoveElement, Zenon
  <2>3. Cardinality(FreeWithin(r, s) \ {u}) <= Cardinality(FreeWithin(r2, s))
    BY <1>2, <2>1, FS_Subset, Zenon
  <2> QED
    BY <2>1, <2>2, <2>3, FS_CardinalityType, Zenon
<1>4. k <= q * Cardinality(D) + Cardinality(FreeWithin(r2, s))
  BY <1>1, <1>3
<1> QED
  BY <1>1, <1>4, Zenon DEF EnoughTurns

(* A task that enters a channel of capacity c has time for as many rounds  *)
(* of the workers as the channel has waves.                                *)
LEMMA TurnsOnEntry ==
    ASSUME NEW D, IsFiniteSet(D), NEW r \in [D -> Int], Cardinality(D) > 0,
           NEW d \in Nat, d > 0, NEW c \in Nat, NEW k \in Nat, k <= c,
           NEW left \in Int, CeilDiv(c, Cardinality(D)) * d <= left
    PROVE  EnoughTurns(left, k, d, r)
<1> DEFINE q == CeilDiv(c, Cardinality(D))
<1>1. Cardinality(D) \in Nat /\ Cardinality(FreeWithin(r, 0)) \in Nat
  <2>1. FreeWithin(r, 0) \subseteq D
    BY Zenon DEF FreeWithin
  <2> QED
    BY <2>1, FS_Subset, FS_CardinalityType, Zenon
<1>2. q \in Nat /\ c <= q * Cardinality(D)
  BY <1>1 DEF CeilDiv
<1> HIDE DEF q
<1>3. k <= q * Cardinality(D) + Cardinality(FreeWithin(r, 0))
  BY <1>1, <1>2
<1>4. 0 < d /\ q * d + 0 <= left
  BY <1>2 DEF q
<1> QED
  BY <1>2, <1>3, <1>4, Zenon DEF EnoughTurns

(* While there is a turn left there is time left. *)
LEMMA TurnsTakeTime ==
    ASSUME NEW D, NEW r \in [D -> Int], NEW d \in Nat, NEW left \in Int, NEW k,
           EnoughTurns(left, k, d, r)
    PROVE  left >= 0
<1>1. PICK q \in Nat, s \in Nat : s < d /\ q * d + s <= left
  BY Zenon DEF EnoughTurns
<1>2. q * d \in Nat
  OBVIOUS
<1> QED
  BY <1>1, <1>2

----------------------------------------------------------------------------
(* The times of an accepted configuration. *)

(* What LeaseBudget says of the configuration of the process: a task that  *)
(* waited to the limit still has more than one service of its lease.       *)
LEMMA Budget ==
    ASSUME TypeOK
    PROVE  /\ config.concurrency \in Nat /\ config.queue_capacity \in Nat
           /\ config.handler_timeout \in Nat /\ config.handler_timeout > 0
           /\ config.storage_timeout \in Nat /\ config.storage_timeout > 0
           /\ ServiceTime \in Nat /\ WaitLimit \in Int /\ SettlementAge \in Int
           /\ WaitLimit + ServiceTime < SettlementAge
           /\ IsFiniteSet(Workers) /\ Cardinality(Workers) = config.concurrency
           /\ Cardinality(Workers) > 0
<1>1. config \in Settings /\ Accepted(config)
  BY Zenon DEF TypeOK
<1>2. /\ config.concurrency > 0 /\ config.handler_timeout > 0 /\ config.storage_timeout > 0
      /\ config.lease_duration > Required(config, config.storage_timeout)
  BY <1>1, LeaseBudget, Zenon
<1>3. /\ config.concurrency \in Nat /\ config.queue_capacity \in Nat /\ config.handler_timeout \in Nat
      /\ config.storage_timeout \in Nat /\ config.lease_duration \in Nat
  BY <1>1, Zenon DEF Settings
<1>4. CeilDiv(config.queue_capacity, config.concurrency) \in Int
  BY <1>2, <1>3 DEF CeilDiv
<1>5. /\ ServiceTime \in Nat /\ WaitLimit \in Int /\ SettlementAge \in Int
      /\ WaitLimit + ServiceTime < SettlementAge
  BY <1>2, <1>3, <1>4, ConfigurationAssumption
     DEF ServiceTime, WaitLimit, SettlementAge, Required, Queued, Invocation
<1>6. IsFiniteSet(Workers) /\ Cardinality(Workers) = config.concurrency
  <2>1. /\ IsFiniteSet(1..config.concurrency)
        /\ Cardinality(1..config.concurrency) =
               IF 1 > config.concurrency THEN 0 ELSE config.concurrency - 1 + 1
    <3>1. 1 \in Int /\ config.concurrency \in Int
      BY <1>3
    <3> QED
      BY <3>1, FS_Interval, Zenon
  <2> QED
    BY <1>2, <1>3, <2>1 DEF Workers
<1> QED
  BY <1>2, <1>3, <1>5, <1>6, Zenon

(* One unit of time makes a lease older by at most one, ... *)
LEMMA OlderBounds ==
    ASSUME TypeOK, NEW age \in Nat
    PROVE  Older(age) \in Nat /\ age <= Older(age) /\ Older(age) <= age + 1
  BY Budget DEF Older

(* ... and a wait longer by one as long as a timer is to come. *)
LEMMA LongerBounds ==
    ASSUME TypeOK, NEW time \in Nat
    PROVE  /\ Longer(time) \in Nat /\ Longer(time) <= time + 1
           /\ time < config.handler_timeout \/ time < config.storage_timeout
                  => Longer(time) = time + 1
  BY Budget DEF Longer

(* What the executor plans, by the age of the lease. *)
LEMMA PlanCases ==
    ASSUME TypeOK, NEW age \in Nat
    PROVE  /\ ExecutionPlan(age) \in {"RecoverOnly", "RetryOnly", "Run"}
           /\ ExecutionPlan(age) = "Run" <=> age + ServiceTime <= SettlementAge
<1>1. /\ config.handler_timeout \in Nat /\ config.storage_timeout \in Nat
      /\ config.handler_timeout > 0 /\ SettlementAge \in Int
  BY Budget, Zenon
<1>2. CASE SettlementAge <= age
  BY <1>1, <1>2 DEF ExecutionPlan, ServiceTime
<1>3. CASE SettlementAge > age /\ SettlementAge - age < config.handler_timeout + config.storage_timeout
  BY <1>1, <1>3 DEF ExecutionPlan, ServiceTime
<1>4. CASE SettlementAge - age >= config.handler_timeout + config.storage_timeout
  BY <1>1, <1>4 DEF ExecutionPlan, ServiceTime
<1> QED
  BY <1>1, <1>2, <1>3, <1>4

(* Busy times are numbers. *)
LEMMA RemainingType ==
    ASSUME TypeOK
    PROVE  Remaining \in [Workers -> Int]
<1>1. \A w \in Workers : worker[w].spent \in Nat
  BY Zenon DEF TypeOK
<1> QED
  BY <1>1, Budget DEF Remaining

----------------------------------------------------------------------------
(* The invariant is inductive. *)

LEMMA TypeInit ==
    ASSUME Init
    PROVE  TypeOK
<1>1. PICK case \in Cases : Accepted(case[1]) /\ config = case[1] /\ regime = case[2]
  BY Zenon DEF Init
<1>2. config \in Settings /\ Accepted(config) /\ regime \in {"healthy", "slow", "stalled"}
  BY <1>1, ExecutorAssumption, Zenon
<1>3. claim \in [active : BOOLEAN, elapsed : Nat, asking : Nat, got : Seq(Nat)]
  BY DEF Init, NoClaim
<1>4. channel \in Seq(Nat)
  BY DEF Init
<1>5. /\ worker \in [Workers -> [phase : Phases, age : Nat, spent : Nat]]
      /\ \A w \in Workers : worker[w].phase = "idle" => worker[w] = Idle
  BY Zenon DEF Init, Idle, Phases
<1> QED
  BY <1>2, <1>3, <1>4, <1>5, Zenon DEF TypeOK

(* The settings never change, and with them the times. *)
LEMMA SameTimes ==
    ASSUME config' = config
    PROVE  /\ Workers' = Workers /\ ServiceTime' = ServiceTime /\ WaitLimit' = WaitLimit
           /\ SettlementAge' = SettlementAge
  BY Zenon DEF Workers, ServiceTime, WaitLimit, SettlementAge

LEMMA TypeStep ==
    ASSUME TypeOK, [Next]_vars
    PROVE  TypeOK'
<1> USE DEF TypeOK
<1>0. ASSUME config' = config, regime' = regime
      PROVE  /\ config' \in Settings /\ Accepted(config)' /\ Workers' = Workers
             /\ regime' \in {"healthy", "slow", "stalled"}
  BY <1>0, Zenon DEF Accepted, Workers
<1>1. CASE StartClaim
  <2>1. claim' \in [active : BOOLEAN, elapsed : Nat, asking : Nat, got : Seq(Nat)]
    <3>1. claim' = [active |-> TRUE, elapsed |-> 0, asking |-> 0, got |-> <<>>]
      BY <1>1, Zenon DEF StartClaim, NoClaim
    <3> QED
      BY <3>1
  <2> QED
    BY <1>0, <1>1, <2>1, Zenon DEF StartClaim, Idle
<1>2. CASE EndClaim
  <2>1. channel' \in Seq(Nat) /\ claim' \in [active : BOOLEAN, elapsed : Nat, asking : Nat, got : Seq(Nat)]
    BY <1>2 DEF EndClaim, NoClaim
  <2> QED
    BY <1>0, <1>2, <2>1, Zenon DEF EndClaim
<1>3. ASSUME NEW n \in 1..config.queue_capacity, ClaimReturns(n) PROVE TypeOK'
  <2>1. n \in Nat /\ claim.asking \in Nat
    BY <1>3, Budget
  <2>2. [k \in 1..n |-> claim.asking] \in Seq(Nat)
    BY <2>1
  <2>3. claim.got \o [k \in 1..n |-> claim.asking] \in Seq(Nat)
    BY <2>2
  <2>4. claim' \in [active : BOOLEAN, elapsed : Nat, asking : Nat, got : Seq(Nat)]
    BY <1>3, <2>3, Zenon DEF ClaimReturns
  <2> QED
    BY <1>0, <1>3, <2>4, Zenon DEF ClaimReturns
<1>4. ASSUME NEW w \in Workers, Receive(w) PROVE TypeOK'
  <2>1. channel' \in Seq(Nat) /\ Head(channel) \in Nat
    BY <1>4 DEF Receive
  <2>2. ExecutionPlan(Head(channel)) \in {"RecoverOnly", "RetryOnly", "Run"}
    BY <2>1, PlanCases, Zenon
  <2>3. PICK p \in {"handling", "retrying", "exhausted"} :
            worker' = [worker EXCEPT ![w] = [phase |-> p, age |-> Head(channel), spent |-> 0]]
    BY <1>4, <2>2, Zenon DEF Receive
  <2>4. /\ worker' \in [Workers -> [phase : Phases, age : Nat, spent : Nat]]
        /\ \A v \in Workers : worker'[v].phase = "idle" => worker'[v] = Idle
    BY <2>1, <2>3, Zenon DEF Phases
  <2> QED
    BY <1>0, <1>4, <2>1, <2>4, Zenon DEF Receive, Idle
<1>5. ASSUME NEW w \in Workers, HandlerEnds(w) PROVE TypeOK'
  <2>1. PICK p \in {"settling", "overrun"} :
            worker' = [worker EXCEPT ![w].phase = p, ![w].spent = 0]
    BY <1>5, Zenon DEF HandlerEnds
  <2>2. /\ worker' \in [Workers -> [phase : Phases, age : Nat, spent : Nat]]
        /\ \A v \in Workers : worker'[v].phase = "idle" => worker'[v] = Idle
    <3>1. worker[w] \in [phase : Phases, age : Nat, spent : Nat]
      BY Zenon
    <3>2. worker'[w] = [worker[w] EXCEPT !.phase = p, !.spent = 0]
      BY <2>1, Zenon
    <3>3. worker'[w] \in [phase : Phases, age : Nat, spent : Nat] /\ worker'[w].phase # "idle"
      BY <2>1, <3>1, <3>2, Zenon DEF Phases
    <3>4. \A v \in Workers : v # w => worker'[v] = worker[v]
      BY <2>1, Zenon
    <3>5. worker' = [v \in Workers |-> worker'[v]]
      BY <2>1, Zenon
    <3> QED
      BY <3>3, <3>4, <3>5, Zenon
  <2> QED
    BY <1>0, <1>5, <2>2, Zenon DEF HandlerEnds, Idle
<1>6. ASSUME NEW w \in Workers, Settled(w) PROVE TypeOK'
  <2>1. /\ worker' \in [Workers -> [phase : Phases, age : Nat, spent : Nat]]
        /\ \A v \in Workers : worker'[v].phase = "idle" => worker'[v] = Idle
    BY <1>6, Zenon DEF Settled, Idle, Phases
  <2> QED
    BY <1>0, <1>6, <2>1, Zenon DEF Settled, Idle
<1>7. CASE Tick
  <2>1. channel' \in Seq(Nat)
    <3>1. Len(channel) \in Nat /\ \A k \in 1..Len(channel) : channel[k] \in Nat
      OBVIOUS
    <3>2. \A k \in 1..Len(channel) : Older(channel[k]) \in Nat
      BY <3>1, OlderBounds, Zenon
    <3> QED
      <4>1. channel' = [k \in 1..Len(channel) |-> Older(channel[k])]
        BY <1>7, Zenon DEF Tick
      <4> QED
        BY <3>1, <3>2, <4>1
  <2>2. claim' \in [active : BOOLEAN, elapsed : Nat, asking : Nat, got : Seq(Nat)]
    <3>1. [k \in 1..Len(claim.got) |-> Older(claim.got[k])] \in Seq(Nat)
      <4>0. claim.got \in Seq(Nat)
        BY Zenon
      <4>1. Len(claim.got) \in Nat /\ \A k \in 1..Len(claim.got) : claim.got[k] \in Nat
        BY <4>0
      <4>2. \A k \in 1..Len(claim.got) : Older(claim.got[k]) \in Nat
        BY <4>1, OlderBounds, Zenon
      <4> QED
        BY <4>1, <4>2
    <3>2. Longer(claim.elapsed) \in Nat /\ Older(claim.asking) \in Nat
      BY OlderBounds, LongerBounds, Zenon
    <3> QED
      BY <1>7, <3>1, <3>2, Zenon DEF Tick
  <2>3. ASSUME NEW w \in Workers
        PROVE  /\ worker'[w] \in [phase : Phases, age : Nat, spent : Nat]
               /\ worker'[w].phase = "idle" => worker'[w] = Idle
    <3>1. Older(worker[w].age) \in Nat /\ Longer(worker[w].spent) \in Nat
      BY OlderBounds, LongerBounds, Zenon
    <3>2. CASE worker[w] = Idle
      BY <1>7, <3>2, Zenon DEF Tick, Idle, Phases
    <3>3. CASE worker[w] # Idle
      BY <1>7, <3>1, <3>3, Zenon DEF Tick
    <3> QED
      BY <3>2, <3>3, Zenon
  <2>4. worker' = [w \in Workers |-> worker'[w]]
    BY <1>7, Zenon DEF Tick
  <2>5. worker' \in [Workers -> [phase : Phases, age : Nat, spent : Nat]]
    BY <2>3, <2>4, Zenon
  <2> QED
    BY <1>0, <1>7, <2>1, <2>2, <2>3, <2>5, Zenon DEF Tick, Idle
<1>8. CASE UNCHANGED vars
  BY <1>0, <1>8, Zenon DEF vars, Idle
<1> QED
  BY <1>1, <1>2, <1>3, <1>4, <1>5, <1>6, <1>7, <1>8, Zenon DEF Next

----------------------------------------------------------------------------
(* What the steps do to a worker. *)

LEMMA WorkerOnReceive ==
    ASSUME TypeOK, NEW w \in Workers, Receive(w)
    PROVE  /\ Head(channel) \in Nat
           /\ worker'[w].phase = "handling" => Head(channel) + ServiceTime <= SettlementAge
           /\ worker'[w].phase \in {"handling", "retrying", "exhausted"}
           /\ Head(channel) + ServiceTime <= SettlementAge => worker'[w].phase = "handling"
           /\ worker'[w].age = Head(channel) /\ worker'[w].spent = 0
           /\ \A v \in Workers : v # w => worker'[v] = worker[v]
<1> DEFINE plan == ExecutionPlan(Head(channel))
<1>0. channel \in Seq(Nat) /\ channel # <<>> /\ DOMAIN worker = Workers
  BY Zenon DEF TypeOK, Receive
<1>1. Head(channel) \in Nat
  BY <1>0
<1>2. plan \in {"RecoverOnly", "RetryOnly", "Run"} /\ (plan = "Run" <=> Head(channel) + ServiceTime <= SettlementAge)
  BY <1>1, PlanCases, Zenon
<1>3. worker' = [worker EXCEPT ![w] =
          [phase |-> CASE plan = "Run" -> "handling"
                       [] plan = "RetryOnly" -> "retrying"
                       [] plan = "RecoverOnly" -> "exhausted",
           age |-> Head(channel), spent |-> 0]]
  BY Zenon DEF Receive
<1> HIDE DEF plan
<1>4. /\ worker'[w].age = Head(channel) /\ worker'[w].spent = 0
      /\ \A v \in Workers : v # w => worker'[v] = worker[v]
      /\ worker'[w].phase = CASE plan = "Run" -> "handling"
                       [] plan = "RetryOnly" -> "retrying"
                       [] plan = "RecoverOnly" -> "exhausted"
  BY <1>0, <1>3, Zenon
<1>5. CASE plan = "Run"
  BY <1>1, <1>2, <1>4, <1>5, Zenon
<1>6. CASE plan = "RetryOnly"
  BY <1>1, <1>2, <1>4, <1>6, Zenon
<1>7. CASE plan = "RecoverOnly"
  BY <1>1, <1>2, <1>4, <1>7, Zenon
<1> QED
  BY <1>2, <1>5, <1>6, <1>7, Zenon

LEMMA WorkerOnTick ==
    ASSUME TypeOK, Tick, NEW w \in Workers
    PROVE  /\ worker[w].phase = "idle" => worker'[w] = worker[w]
           /\ worker[w].phase # "idle" =>
                  /\ worker'[w].phase = worker[w].phase
                  /\ worker'[w].age = Older(worker[w].age)
                  /\ worker'[w].spent = Longer(worker[w].spent)
<1>1. worker[w] \in [phase : Phases, age : Nat, spent : Nat]
  BY Zenon DEF TypeOK
<1>2. worker[w].phase = "idle" <=> worker[w] = Idle
  BY DEF TypeOK, Idle
<1>3. CASE worker[w] = Idle
  BY <1>2, <1>3, Zenon DEF Tick
<1>4. CASE worker[w] # Idle
  BY <1>1, <1>2, <1>4, Zenon DEF Tick
<1> QED
  BY <1>3, <1>4, Zenon

LEMMA RunsStep ==
    ASSUME TypeOK, RunsInv, [Next]_vars
    PROVE  RunsInv'
<1> USE Budget DEF RunsInv
<1>0. /\ \A w \in Workers : worker[w] \in [phase : Phases, age : Nat, spent : Nat]
      /\ DOMAIN worker = Workers
  BY Zenon DEF TypeOK
<1>1. config' = config /\ regime' = regime
  BY Zenon DEF Next, vars, StartClaim, EndClaim, ClaimReturns, Tick, Receive, HandlerEnds, Settled
<1>2. /\ Workers' = Workers /\ ServiceTime' = ServiceTime /\ SettlementAge' = SettlementAge
  BY <1>1, SameTimes, Zenon
<1>3. CASE worker' = worker
  BY <1>1, <1>2, <1>3, Zenon
<1>4. ASSUME NEW w \in Workers, Receive(w) PROVE RunsInv'
  <2>1. \A v \in Workers : v # w => worker'[v] = worker[v]
    BY <1>4, WorkerOnReceive, Zenon
  <2>2. /\ worker'[w].phase \in {"handling", "retrying", "exhausted"} /\ worker'[w].spent = 0
        /\ worker'[w].age \in Nat
        /\ worker'[w].phase = "handling" => worker'[w].age + ServiceTime <= SettlementAge
    BY <1>4, WorkerOnReceive, Zenon
  <2> QED
    BY <1>1, <1>2, <2>1, <2>2
<1>5. ASSUME NEW w \in Workers, HandlerEnds(w), regime # "stalled" PROVE RunsInv'
  <2>1. worker[w].age < SettlementAge
    BY <1>0, <1>5 DEF HandlerEnds, ServiceTime
  <2>2. /\ \A v \in Workers : v # w => worker'[v] = worker[v]
        /\ worker'[w].phase = "settling" /\ worker'[w].age = worker[w].age /\ worker'[w].spent = 0
    BY <1>0, <1>5, <2>1, Zenon DEF HandlerEnds
  <2>3. worker[w].age + config.storage_timeout <= SettlementAge
    BY <1>0, <1>5 DEF HandlerEnds, ServiceTime
  <2> QED
    BY <1>0, <1>1, <1>2, <2>2, <2>3
<1>6. ASSUME NEW w \in Workers, Settled(w) PROVE RunsInv'
  <2>1. /\ \A v \in Workers : v # w => worker'[v] = worker[v]
        /\ worker'[w].phase = "idle"
    BY <1>0, <1>6, Zenon DEF Settled, Idle
  <2> QED
    BY <1>1, <1>2, <2>1, Zenon
<1>7. ASSUME Tick, regime # "stalled", NEW w \in Workers
      PROVE  /\ worker'[w].phase # "overrun"
             /\ worker'[w].phase = "handling" =>
                   /\ worker'[w].spent <= config.handler_timeout
                   /\ worker'[w].age + ServiceTime - worker'[w].spent <= SettlementAge
             /\ worker'[w].phase = "settling" =>
                   /\ worker'[w].spent <= config.storage_timeout
                   /\ worker'[w].age + config.storage_timeout - worker'[w].spent <= SettlementAge
  <2>1. ~Due(w)
    BY <1>7, Zenon DEF Tick, MayPass
  <2>2. worker[w].phase = "idle" => worker'[w] = worker[w]
    BY <1>7, WorkerOnTick, Zenon
  <2>3. worker[w].phase # "idle" => worker'[w].phase = worker[w].phase
    BY <1>7, WorkerOnTick, Zenon
  <2>4. ASSUME worker[w].phase \in {"handling", "settling"}
        PROVE  /\ worker'[w].age \in Nat /\ worker'[w].age <= worker[w].age + 1
               /\ worker'[w].spent = worker[w].spent + 1
    <3>1. worker'[w].age = Older(worker[w].age) /\ worker'[w].spent = Longer(worker[w].spent)
      BY <1>7, <2>4, WorkerOnTick, Zenon
    <3>2. worker[w].spent < config.handler_timeout \/ worker[w].spent < config.storage_timeout
      BY <1>0, <2>1, <2>4 DEF Due
    <3>3. worker[w].age \in Nat /\ worker[w].spent \in Nat
      BY <1>0, Zenon
    <3> QED
      BY <3>1, <3>2, <3>3, OlderBounds, LongerBounds, Zenon
  <2>5. CASE worker[w].phase = "handling"
    <3>1. worker[w].spent < config.handler_timeout
      BY <1>0, <2>1, <2>5 DEF Due
    <3> QED
      BY <1>0, <1>7, <2>3, <2>4, <2>5, <3>1
  <2>6. CASE worker[w].phase = "settling"
    <3>1. worker[w].spent < config.storage_timeout
      BY <1>0, <2>1, <2>6 DEF Due
    <3> QED
      BY <1>0, <1>7, <2>3, <2>4, <2>6, <3>1
  <2> QED
    BY <1>7, <2>2, <2>3, <2>5, <2>6, Zenon
<1>8. CASE Tick
  BY <1>1, <1>2, <1>7, <1>8, Zenon
<1>9. CASE regime = "stalled"
  BY <1>1, <1>9, Zenon
<1> QED
  BY <1>3, <1>4, <1>5, <1>6, <1>8, <1>9, Zenon DEF Next, vars, StartClaim, EndClaim, ClaimReturns

----------------------------------------------------------------------------
(* A healthy pool. *)

(* How busy a worker is, now and after a step. *)
LEMMA BusyTimes ==
    ASSUME TypeOK, NEW w \in Workers
    PROVE  /\ worker[w].phase = "handling" => Remaining[w] = ServiceTime - worker[w].spent
           /\ worker[w].phase = "settling" => Remaining[w] = config.storage_timeout - worker[w].spent
           /\ worker[w].phase \notin {"handling", "settling"} => Remaining[w] = 0
  BY Zenon DEF Remaining

LEMMA BusyTimesNext ==
    ASSUME TypeOK, TypeOK', config' = config
    PROVE  /\ Remaining' \in [Workers -> Int]
           /\ \A w \in Workers :
                /\ worker'[w].phase = "handling" => Remaining'[w] = ServiceTime - worker'[w].spent
                /\ worker'[w].phase = "settling" => Remaining'[w] = config.storage_timeout - worker'[w].spent
                /\ worker'[w].phase \notin {"handling", "settling"} => Remaining'[w] = 0
<1>1. Workers' = Workers /\ ServiceTime' = ServiceTime
  BY SameTimes, Zenon
<1>2. \A w \in Workers : worker'[w].spent \in Nat
  BY <1>1, Zenon DEF TypeOK
<1>3. Remaining' = [w \in Workers |->
        CASE worker'[w].phase = "handling" -> ServiceTime - worker'[w].spent
          [] worker'[w].phase = "settling" -> config.storage_timeout - worker'[w].spent
          [] OTHER -> 0]
  BY <1>1, Zenon DEF Remaining
<1>4. \A w \in Workers :
                /\ worker'[w].phase = "handling" => Remaining'[w] = ServiceTime - worker'[w].spent
                /\ worker'[w].phase = "settling" => Remaining'[w] = config.storage_timeout - worker'[w].spent
                /\ worker'[w].phase \notin {"handling", "settling"} => Remaining'[w] = 0
  BY <1>3, Zenon
<1>5. ServiceTime \in Nat /\ config.storage_timeout \in Nat
  BY Budget, Zenon
<1>6. \A w \in Workers : Remaining'[w] \in Int
  <2>1. TAKE w \in Workers
  <2>2. worker'[w].spent \in Nat
    BY <1>2, Zenon
  <2> QED
    BY <1>4, <1>5, <2>2
<1> QED
  BY <1>3, <1>4, <1>6, Zenon

(* The poller's part of the invariant. *)
LEMMA ClaimStep ==
    ASSUME TypeOK, HealthyInv, regime = "healthy", [Next]_vars
    PROVE  ClaimInv' /\ Len(channel') <= config.queue_capacity
<1>0. /\ ClaimInv /\ Len(channel) <= config.queue_capacity
      /\ claim \in [active : BOOLEAN, elapsed : Nat, asking : Nat, got : Seq(Nat)]
      /\ channel \in Seq(Nat) /\ Len(channel) \in Nat /\ Len(claim.got) \in Nat
      /\ config.queue_capacity \in Nat /\ config.storage_timeout \in Nat
  BY Budget DEF HealthyInv, TypeOK
<1>00. \A k \in 1..Len(claim.got) : claim.got[k] \in Nat
  BY <1>0
<1>1. config' = config
  BY Zenon DEF Next, vars, StartClaim, EndClaim, ClaimReturns, Tick, Receive, HandlerEnds, Settled
<1>2. CASE StartClaim
  <2>1. claim' = [active |-> TRUE, elapsed |-> 0, asking |-> 0, got |-> <<>>] /\ channel' = channel
    BY <1>2, Zenon DEF StartClaim, NoClaim
  <2>2. Len(<<>>) = 0
    BY Zenon
  <2> QED
    BY <1>0, <1>1, <2>1, <2>2 DEF ClaimInv
<1>3. CASE EndClaim
  <2>1. Len(channel') = Len(channel) + Len(claim.got) /\ ~claim'.active
    BY <1>0, <1>3 DEF EndClaim, NoClaim
  <2> QED
    BY <1>0, <1>3, <2>1, Zenon DEF ClaimInv, EndClaim
<1>4. ASSUME NEW n \in 1..config.queue_capacity, ClaimReturns(n)
      PROVE  ClaimInv' /\ Len(channel') <= config.queue_capacity
  <2> DEFINE more == [k \in 1..n |-> claim.asking]
  <2>1. more \in Seq(Nat) /\ Len(more) = n /\ \A k \in 1..n : more[k] = claim.asking
    BY <1>0, <1>4
  <2> HIDE DEF more
  <2>22. claim.got \in Seq(Nat)
    BY <1>0, Zenon
  <2>2. Len(claim.got \o more) = Len(claim.got) + n
    BY <2>1, <2>22
  <2>3. /\ claim'.active = claim.active /\ claim'.elapsed = claim.elapsed /\ claim'.asking = 0
        /\ claim'.got = claim.got \o more /\ claim.active /\ channel' = channel
        /\ n <= config.queue_capacity - Len(channel) - Len(claim.got)
    BY <1>0, <1>4, Zenon DEF ClaimReturns, more
  <2>4. ASSUME NEW k \in 1..Len(claim'.got) PROVE claim'.got[k] <= claim'.elapsed
    <3>1. k \in 1..(Len(claim.got) + n)
      BY <2>2, <2>3, Zenon
    <3>11. (claim.got \o more)[k] = IF k <= Len(claim.got) THEN claim.got[k] ELSE more[k - Len(claim.got)]
      BY <2>1, <2>22, <3>1
    <3>2. CASE k <= Len(claim.got)
      <4>1. k \in 1..Len(claim.got)
        BY <1>0, <3>1, <3>2
      <4> QED
        BY <1>0, <2>3, <3>2, <3>11, <4>1, Zenon DEF ClaimInv
    <3>3. CASE ~(k <= Len(claim.got))
      <4>1. k - Len(claim.got) \in 1..n
        BY <1>0, <3>1, <3>3
      <4>2. claim'.got[k] = claim.asking
        BY <2>1, <2>3, <3>3, <3>11, <4>1, Zenon
      <4> QED
        BY <1>0, <2>3, <4>2, Zenon DEF ClaimInv
    <3> QED
      BY <3>2, <3>3, Zenon
  <2>5. Len(channel') + Len(claim'.got) <= config.queue_capacity
    BY <1>0, <2>2, <2>3
  <2> QED
    <3>1. claim'.elapsed <= config.storage_timeout /\ claim'.asking <= claim'.elapsed
      BY <1>0, <2>3 DEF ClaimInv
    <3> QED
      BY <1>0, <1>1, <2>3, <2>4, <2>5, <3>1, Zenon DEF ClaimInv
<1>5. ASSUME NEW w \in Workers, Receive(w)
      PROVE  ClaimInv' /\ Len(channel') <= config.queue_capacity
  <2>1. Len(channel') = Len(channel) - 1 /\ claim' = claim
    BY <1>0, <1>5 DEF Receive
  <2>2. Len(channel') <= config.queue_capacity
    BY <1>0, <2>1
  <2>3. claim.active => Len(channel') + Len(claim.got) <= config.queue_capacity
    BY <1>0, <2>1 DEF ClaimInv
  <2> QED
    BY <1>0, <1>1, <2>1, <2>2, <2>3, Zenon DEF ClaimInv
<1>6. CASE Tick
  <2>1. Len(channel') = Len(channel)
    <3>1. channel' = [k \in 1..Len(channel) |-> Older(channel[k])]
      BY <1>6, Zenon DEF Tick
    <3> QED
      BY <1>0, <3>1
  <2>2. CASE ~claim.active
    BY <1>0, <1>6, <2>1, <2>2, Zenon DEF Tick, ClaimInv
  <2>3. CASE claim.active
    <3>1. claim.elapsed < config.storage_timeout
      BY <1>6, <2>3, Zenon DEF Tick, MayPass
    <3>2. /\ claim'.active /\ claim'.elapsed = Longer(claim.elapsed)
          /\ claim'.asking = Older(claim.asking)
          /\ claim'.got = [k \in 1..Len(claim.got) |-> Older(claim.got[k])]
      BY <1>0, <1>6, <2>3, Zenon DEF Tick
    <3>3. claim'.elapsed = claim.elapsed + 1
      BY <1>0, <3>1, <3>2, LongerBounds, Zenon
    <3>4. claim'.asking <= claim'.elapsed
      <4>1. claim.asking \in Nat /\ claim.elapsed \in Nat /\ claim.asking <= claim.elapsed
        BY <1>0, <2>3, Zenon DEF ClaimInv
      <4>2. Older(claim.asking) \in Nat /\ Older(claim.asking) <= claim.asking + 1
        BY <4>1, OlderBounds, Zenon
      <4> QED
        BY <3>2, <3>3, <4>1, <4>2
    <3>5. Len(claim'.got) = Len(claim.got)
      BY <1>0, <3>2
    <3>6. ASSUME NEW k \in 1..Len(claim'.got) PROVE claim'.got[k] <= claim'.elapsed
      <4>1. k \in 1..Len(claim.got) /\ claim'.got[k] = Older(claim.got[k])
        BY <3>2, <3>5, Zenon
      <4>2. claim.got[k] \in Nat /\ claim.got[k] <= claim.elapsed
        BY <1>0, <1>00, <2>3, <4>1, Zenon DEF ClaimInv
      <4>3. Older(claim.got[k]) \in Nat /\ Older(claim.got[k]) <= claim.got[k] + 1
        BY <4>2, OlderBounds, Zenon
      <4>4. claim.elapsed \in Nat
        BY <1>0, Zenon
      <4> QED
        BY <3>3, <4>1, <4>2, <4>3, <4>4
    <3> QED
      BY <1>0, <1>1, <2>1, <2>3, <3>1, <3>3, <3>4, <3>5, <3>6 DEF ClaimInv
  <2> QED
    BY <2>2, <2>3, Zenon
<1>7. CASE claim' = claim /\ channel' = channel
  BY <1>0, <1>1, <1>7, Zenon DEF ClaimInv
<1> QED
  BY <1>2, <1>3, <1>4, <1>5, <1>6, <1>7, Zenon DEF Next, vars, HandlerEnds, Settled

(* The channel's part: every task that waits keeps enough turns. *)
TurnsInv == \A k \in 1..Len(channel) : EnoughTurns(WaitLimit - channel[k], k, ServiceTime, Remaining)

(* The first task of the channel is taken in time to be run. *)
LEMMA HeadRuns ==
    ASSUME TypeOK, TurnsInv, channel # <<>>
    PROVE  Head(channel) + ServiceTime <= SettlementAge
<1>1. channel \in Seq(Nat)
  BY Zenon DEF TypeOK
<1>2. Len(channel) \in Nat /\ Len(channel) # 0 /\ Head(channel) = channel[1]
  BY <1>1
<1>3. 1 \in 1..Len(channel) /\ channel[1] \in Nat
  BY <1>1, <1>2
<1>4. EnoughTurns(WaitLimit - channel[1], 1, ServiceTime, Remaining)
  BY <1>3, Zenon DEF TurnsInv
<1>5. /\ ServiceTime \in Nat /\ WaitLimit \in Int /\ SettlementAge \in Int
      /\ WaitLimit + ServiceTime < SettlementAge
  BY Budget, Zenon
<1>6. WaitLimit - channel[1] \in Int
  BY <1>3, <1>5
<1>7. WaitLimit - channel[1] >= 0
  BY <1>4, <1>5, <1>6, RemainingType, TurnsTakeTime, Zenon
<1> QED
  BY <1>2, <1>3, <1>5, <1>7

(* No step makes a worker of a healthy pool busy for longer, except the    *)
(* one that takes a task.                                                  *)
LEMMA LessBusy ==
    ASSUME TypeOK, TypeOK', RunsInv, regime = "healthy", config' = config, NEW v \in Workers,
           \A w \in Workers : worker[w].phase \notin {"retrying", "exhausted"},
           NEW w \in Workers, HandlerEnds(w) \/ Settled(w)
    PROVE  Remaining'[v] <= Remaining[v]
<1>0. worker[v] \in [phase : Phases, age : Nat, spent : Nat] /\ DOMAIN worker = Workers
  BY Zenon DEF TypeOK
<1>1. Remaining \in [Workers -> Int] /\ Remaining' \in [Workers -> Int]
  BY RemainingType, BusyTimesNext, Zenon
<1>2. CASE v # w
  <2>1. worker'[v] = worker[v]
    BY <1>0, <1>2, Zenon DEF HandlerEnds, Settled
  <2>2. Remaining'[v] = Remaining[v]
    <3>1. CASE worker[v].phase = "handling"
      BY <2>1, <3>1, BusyTimes, BusyTimesNext, Zenon
    <3>2. CASE worker[v].phase = "settling"
      BY <2>1, <3>2, BusyTimes, BusyTimesNext, Zenon
    <3>3. CASE worker[v].phase \notin {"handling", "settling"}
      BY <2>1, <3>3, BusyTimes, BusyTimesNext, Zenon
    <3> QED
      BY <3>1, <3>2, <3>3, Zenon
  <2> QED
    BY <1>1, <2>2
<1>3. CASE v = w /\ HandlerEnds(w)
  <2>1. worker[v].phase = "handling" /\ worker[v].spent <= config.handler_timeout
    BY <1>3, Zenon DEF HandlerEnds, RunsInv
  <2>2. Remaining[v] = ServiceTime - worker[v].spent
    BY <2>1, BusyTimes, Zenon
  <2>3. Remaining'[v] <= config.storage_timeout
    <3>1. worker'[v].phase \in {"settling", "overrun"} /\ worker'[v].spent = 0
      BY <1>0, <1>3, Zenon DEF HandlerEnds
    <3>2. CASE worker'[v].phase = "settling"
      BY <3>1, <3>2, Budget, BusyTimesNext
    <3>3. CASE worker'[v].phase = "overrun"
      BY <3>3, Budget, BusyTimesNext
    <3> QED
      BY <3>1, <3>2, <3>3, Zenon
  <2> QED
    BY <1>0, <1>1, <2>1, <2>2, <2>3, Budget DEF ServiceTime
<1>4. CASE v = w /\ Settled(w)
  <2>1. worker[v].phase = "settling" /\ worker[v].spent <= config.storage_timeout
    BY <1>4, Zenon DEF Settled, RunsInv
  <2>2. Remaining[v] = config.storage_timeout - worker[v].spent
    BY <2>1, BusyTimes, Zenon
  <2>3. worker'[v].phase = "idle"
    BY <1>0, <1>4, Zenon DEF Settled, Idle
  <2>4. Remaining'[v] = 0
    BY <2>3, BusyTimesNext, Zenon
  <2> QED
    BY <1>0, <2>1, <2>2, <2>4, Budget
<1> QED
  BY <1>2, <1>3, <1>4, Zenon

(* While a task waits and time passes every worker is busy, and is so for  *)
(* one unit less.                                                          *)
LEMMA BusyOnTick ==
    ASSUME TypeOK, TypeOK', RunsInv, regime = "healthy", config' = config, channel # <<>>, Tick,
           \A w \in Workers : worker[w].phase \notin {"retrying", "exhausted"}, NEW v \in Workers
    PROVE  0 < Remaining[v] /\ Remaining[v] <= ServiceTime /\ Remaining'[v] < Remaining[v]
<1>0. /\ worker[v] \in [phase : Phases, age : Nat, spent : Nat]
      /\ config.storage_timeout \in Nat /\ config.handler_timeout \in Nat
      /\ config.storage_timeout > 0 /\ config.handler_timeout > 0
  BY Budget, Zenon DEF TypeOK
<1>1. ~Due(v) /\ worker[v] # Idle
  BY Zenon DEF Tick, MayPass
<1>2. worker[v].phase \in {"handling", "settling"}
  BY <1>0, <1>1, Zenon DEF TypeOK, Phases, RunsInv
<1>3. worker'[v].phase = worker[v].phase /\ worker'[v].spent = Longer(worker[v].spent)
  BY <1>2, WorkerOnTick, Zenon
<1>4. CASE worker[v].phase = "handling"
  <2>1. worker[v].spent < config.handler_timeout
    BY <1>0, <1>1, <1>4 DEF Due
  <2>2. worker'[v].spent = worker[v].spent + 1
    BY <1>0, <1>3, <2>1, LongerBounds, Zenon
  <2>3. Remaining[v] = ServiceTime - worker[v].spent /\ Remaining'[v] = ServiceTime - worker'[v].spent
    BY <1>3, <1>4, BusyTimes, BusyTimesNext, Zenon
  <2>4. worker[v].spent \in Nat
    BY <1>0, Zenon
  <2>5. /\ config.storage_timeout \in Nat /\ config.handler_timeout \in Nat
        /\ config.storage_timeout > 0 /\ config.handler_timeout > 0
    BY <1>0, Zenon
  <2> QED
    BY <2>1, <2>2, <2>3, <2>4, <2>5 DEF ServiceTime
<1>5. CASE worker[v].phase = "settling"
  <2>1. worker[v].spent < config.storage_timeout
    BY <1>0, <1>1, <1>5 DEF Due
  <2>2. worker'[v].spent = worker[v].spent + 1
    BY <1>0, <1>3, <2>1, LongerBounds, Zenon
  <2>3. /\ Remaining[v] = config.storage_timeout - worker[v].spent
        /\ Remaining'[v] = config.storage_timeout - worker'[v].spent
    BY <1>3, <1>5, BusyTimes, BusyTimesNext, Zenon
  <2>4. worker[v].spent \in Nat
    BY <1>0
  <2>5. /\ config.storage_timeout \in Nat /\ config.handler_timeout \in Nat
        /\ config.storage_timeout > 0 /\ config.handler_timeout > 0
    BY <1>0
  <2> QED
    BY <2>1, <2>2, <2>3, <2>4, <2>5 DEF ServiceTime
<1> QED
  BY <1>2, <1>4, <1>5, Zenon

LEMMA TurnsStep ==
    ASSUME TypeOK, TypeOK', RunsInv, HealthyInv, regime = "healthy", [Next]_vars,
           NEW k \in 1..Len(channel')
    PROVE  EnoughTurns(WaitLimit - channel'[k], k, ServiceTime, Remaining')
<1>0. /\ channel \in Seq(Nat) /\ Len(channel) \in Nat /\ channel' \in Seq(Nat) /\ Len(channel') \in Nat
      /\ ServiceTime \in Nat /\ WaitLimit \in Int /\ IsFiniteSet(Workers)
  <2>1. channel \in Seq(Nat) /\ channel' \in Seq(Nat)
    BY Zenon DEF TypeOK
  <2>2. ServiceTime \in Nat /\ WaitLimit \in Int /\ IsFiniteSet(Workers)
    BY Budget, Zenon
  <2> QED
    BY <2>1, <2>2
<1>1. config' = config
  BY Zenon DEF Next, vars, StartClaim, EndClaim, ClaimReturns, Tick, Receive, HandlerEnds, Settled
<1>2. Remaining \in [Workers -> Int] /\ Remaining' \in [Workers -> Int]
  BY <1>1, RemainingType, BusyTimesNext, Zenon
<1>3. /\ \A w \in Workers : worker[w].phase \notin {"retrying", "exhausted"}
      /\ \A j \in 1..Len(channel) : EnoughTurns(WaitLimit - channel[j], j, ServiceTime, Remaining)
  BY Zenon DEF HealthyInv
<1>4. /\ \A j \in 1..Len(channel) : channel[j] \in Nat
      /\ channel'[k] \in Nat /\ k \in Nat /\ k > 0
  BY <1>0
<1>5. ASSUME worker' = worker, k \in 1..Len(channel), channel'[k] = channel[k]
      PROVE  EnoughTurns(WaitLimit - channel'[k], k, ServiceTime, Remaining')
  <2>1. Remaining' = Remaining
    BY <1>1, <1>5, Zenon DEF Remaining, Workers, ServiceTime
  <2> QED
    BY <1>3, <1>5, <2>1, Zenon
<1>6. CASE EndClaim
  <2>1. claim.got \in Seq(Nat) /\ Len(claim.got) \in Nat
    BY DEF TypeOK
  <2>2. /\ Len(channel') = Len(channel) + Len(claim.got)
        /\ channel'[k] = IF k <= Len(channel) THEN channel[k] ELSE claim.got[k - Len(channel)]
    BY <1>0, <1>6, <2>1 DEF EndClaim
  <2>3. CASE k <= Len(channel)
    BY <1>0, <1>4, <1>5, <1>6, <2>2, <2>3 DEF EndClaim
  <2>4. CASE ~(k <= Len(channel))
    <3>1. k - Len(channel) \in 1..Len(claim.got)
      BY <1>0, <1>4, <2>1, <2>2, <2>4
    <3>2. claim.active /\ ClaimInv
      BY <1>6, Zenon DEF EndClaim, HealthyInv
    <3>3. claim.elapsed \in Nat /\ config.storage_timeout \in Nat /\ config.queue_capacity \in Nat
      BY Budget, Zenon DEF TypeOK
    <3>4. channel'[k] <= config.storage_timeout
      <4>1. channel'[k] = claim.got[k - Len(channel)]
        BY <2>2, <2>4, Zenon
      <4>2. claim.got[k - Len(channel)] <= claim.elapsed /\ claim.elapsed <= config.storage_timeout
        BY <3>1, <3>2, Zenon DEF ClaimInv
      <4>3. channel'[k] \in Nat
        BY <1>4, Zenon
      <4> QED
        BY <3>3, <4>1, <4>2, <4>3
    <3>5. k <= config.queue_capacity
      BY <1>0, <1>4, <2>1, <2>2, <3>2, <3>3 DEF ClaimInv
    <3>6. /\ Cardinality(Workers) > 0 /\ ServiceTime > 0
          /\ WaitLimit = config.storage_timeout + CeilDiv(config.queue_capacity, Cardinality(Workers)) * ServiceTime
      BY Budget DEF WaitLimit, ServiceTime
    <3>7. CeilDiv(config.queue_capacity, Cardinality(Workers)) * ServiceTime \in Int
      <4>1. config.concurrency \in Nat /\ config.concurrency > 0 /\ Cardinality(Workers) = config.concurrency
        BY Budget, Zenon
      <4> QED
        BY <1>0, <3>3, <4>1, SMTT(30) DEF CeilDiv
    <3>8. /\ CeilDiv(config.queue_capacity, Cardinality(Workers)) * ServiceTime <= WaitLimit - channel'[k]
          /\ WaitLimit - channel'[k] \in Int
      <4>1. channel'[k] \in Nat /\ WaitLimit \in Int
        BY <1>0, <1>4, Zenon
      <4>2. PICK m \in Int : m = CeilDiv(config.queue_capacity, Cardinality(Workers)) * ServiceTime
        BY <3>7, Zenon
      <4>3. WaitLimit = config.storage_timeout + m
        BY <3>6, <4>2, Zenon
      <4> QED
        BY <3>3, <3>4, <4>1, <4>2, <4>3
    <3> QED
      BY <1>0, <1>2, <1>4, <3>3, <3>5, <3>6, <3>8, TurnsOnEntry, Zenon
  <2> QED
    BY <2>3, <2>4, Zenon
<1>7. ASSUME NEW w \in Workers, Receive(w)
      PROVE  EnoughTurns(WaitLimit - channel'[k], k, ServiceTime, Remaining')
  <2>1. channel # <<>> /\ channel' = Tail(channel)
    BY <1>7, Zenon DEF Receive
  <2>2. Len(channel') = Len(channel) - 1 /\ channel'[k] = channel[k + 1] /\ k + 1 \in 1..Len(channel)
    BY <1>0, <2>1
  <2>3. EnoughTurns(WaitLimit - channel[k + 1], k + 1, ServiceTime, Remaining)
    BY <1>3, <2>2, Zenon
  <2>4. Remaining[w] = 0
    <3>1. worker[w].phase = "idle"
      BY <1>7 DEF Receive, Idle
    <3> QED
      BY <3>1, BusyTimes, Zenon
  <2>5. \A v \in Workers : v # w => Remaining'[v] = Remaining[v]
    <3>1. \A v \in Workers : v # w => worker'[v] = worker[v]
      BY <1>7, WorkerOnReceive, Zenon
    <3> QED
      BY <1>1, <3>1, BusyTimes, BusyTimesNext
  <2>6. WaitLimit - channel'[k] \in Int
    BY <1>0, <1>4
  <2> QED
    <3>1. EnoughTurns(WaitLimit - channel'[k], k + 1, ServiceTime, Remaining)
      BY <2>2, <2>3, Zenon
    <3>2. IsFiniteSet(Workers) /\ ServiceTime \in Nat /\ k \in Nat
      BY <1>0, <1>4, Zenon
    <3>3. PICK left \in Int : left = WaitLimit - channel'[k]
      BY <2>6, Zenon
    <3>4. EnoughTurns(left, k + 1, ServiceTime, Remaining)
      BY <3>1, <3>3, Zenon
    <3>5. EnoughTurns(left, k, ServiceTime, Remaining')
      BY <1>2, <2>4, <2>5, <3>2, <3>4, TurnsOnTake, Zenon
    <3> QED
      BY <3>3, <3>5, Zenon
<1>8. ASSUME NEW w \in Workers, HandlerEnds(w) \/ Settled(w)
      PROVE  EnoughTurns(WaitLimit - channel'[k], k, ServiceTime, Remaining')
  <2>1. channel' = channel
    BY <1>8, Zenon DEF HandlerEnds, Settled
  <2>2. EnoughTurns(WaitLimit - channel[k], k, ServiceTime, Remaining)
    BY <1>3, <2>1, Zenon
  <2>3. \A v \in Workers : Remaining'[v] <= Remaining[v]
    BY <1>1, <1>3, <1>8, LessBusy, Zenon
  <2>4. WaitLimit - channel'[k] \in Int /\ WaitLimit - channel[k] <= WaitLimit - channel'[k]
    BY <1>0, <1>4, <2>1
  <2> QED
    <3>1. EnoughTurns(WaitLimit - channel'[k], k, ServiceTime, Remaining)
      BY <2>1, <2>2, Zenon
    <3>2. IsFiniteSet(Workers) /\ ServiceTime \in Nat /\ k \in Int
      BY <1>0, <1>4
    <3>3. PICK left \in Int : left = WaitLimit - channel'[k]
      BY <2>4, Zenon
    <3>4. EnoughTurns(left, k, ServiceTime, Remaining) /\ left <= left
      BY <3>1, <3>3
    <3>5. EnoughTurns(left, k, ServiceTime, Remaining')
      BY <1>2, <2>3, <3>2, <3>4, TurnsKeep, Zenon
    <3> QED
      BY <3>3, <3>5
<1>9. CASE Tick
  <2>1. Len(channel') = Len(channel) /\ k \in 1..Len(channel) /\ channel'[k] = Older(channel[k])
    <3>1. channel' = [j \in 1..Len(channel) |-> Older(channel[j])]
      BY <1>9, Zenon DEF Tick
    <3>2. Len(channel') = Len(channel)
      BY <1>0, <3>1
    <3> QED
      BY <3>1, <3>2, Zenon
  <2>2. channel # <<>> /\ channel[k] \in Nat
    BY <1>0, <1>4, <2>1
  <2>3. EnoughTurns(WaitLimit - channel[k], k, ServiceTime, Remaining)
    BY <1>3, <2>1, Zenon
  <2>4. Older(channel[k]) <= channel[k] + 1
    BY <2>2, OlderBounds, Zenon
  <2>5. /\ WaitLimit - channel[k] \in Int /\ WaitLimit - channel'[k] \in Int
        /\ (WaitLimit - channel[k]) - 1 <= WaitLimit - channel'[k]
    <3>1. /\ channel'[k] \in Nat /\ channel[k] \in Nat /\ channel'[k] <= channel[k] + 1
          /\ WaitLimit \in Int
      BY <1>0, <1>4, <2>1, <2>2, <2>4, Zenon
    <3> QED
      BY <3>1, SMTT(30)
  <2>6. \A v \in Workers : 0 < Remaining[v] /\ Remaining[v] <= ServiceTime /\ Remaining'[v] < Remaining[v]
    BY <1>1, <1>3, <1>9, <2>2, BusyOnTick, Zenon
  <2> QED
    <3>1. IsFiniteSet(Workers) /\ ServiceTime \in Nat /\ k \in Nat /\ k > 0
      BY <1>0, <1>4, Zenon
    <3> QED
      <4>1. PICK left \in Int, left2 \in Int : left = WaitLimit - channel[k] /\ left2 = WaitLimit - channel'[k]
        BY <2>5, Zenon
      <4>2. EnoughTurns(left, k, ServiceTime, Remaining) /\ left - 1 <= left2
        BY <2>3, <2>5, <4>1, Zenon
      <4>3. EnoughTurns(left2, k, ServiceTime, Remaining')
        BY <1>2, <2>6, <3>1, <4>2, TurnsOnTick, Zenon
      <4> QED
        BY <4>1, <4>3, Zenon
<1>10. CASE worker' = worker /\ channel' = channel
  BY <1>5, <1>10, Zenon
<1> QED
  BY <1>6, <1>7, <1>8, <1>9, <1>10, Zenon DEF Next, vars, StartClaim, ClaimReturns

LEMMA HealthyStep ==
    ASSUME ExecutorInv, TypeOK', [Next]_vars
    PROVE  HealthyInv'
<1> USE DEF ExecutorInv
<1>1. config' = config /\ regime' = regime
  BY Zenon DEF Next, vars, StartClaim, EndClaim, ClaimReturns, Tick, Receive, HandlerEnds, Settled
<1>2. SUFFICES ASSUME regime = "healthy" PROVE HealthyInv'
  BY <1>1, Zenon DEF HealthyInv
<1>3. Workers' = Workers /\ ServiceTime' = ServiceTime /\ WaitLimit' = WaitLimit
  BY <1>1, SameTimes, Zenon
<1>4. \A w \in Workers : worker[w].phase \notin {"retrying", "exhausted"}
  BY <1>2, Zenon DEF HealthyInv
<1>5. ClaimInv' /\ Len(channel)' <= config'.queue_capacity
  BY <1>1, <1>2, ClaimStep, Zenon
<1>6. \A k \in 1..Len(channel') : EnoughTurns(WaitLimit' - channel'[k], k, ServiceTime', Remaining')
  BY <1>2, <1>3, TurnsStep, Zenon
<1>7. ASSUME NEW v \in Workers PROVE worker'[v].phase \notin {"retrying", "exhausted"}
  <2>0. DOMAIN worker = Workers
    BY Zenon DEF TypeOK
  <2>1. ASSUME NEW w \in Workers, Receive(w) PROVE worker'[v].phase \notin {"retrying", "exhausted"}
    <3>1. channel # <<>> /\ TurnsInv
      BY <1>2, <2>1, Zenon DEF Receive, HealthyInv, TurnsInv
    <3>2. worker'[w].phase = "handling"
      BY <2>1, <3>1, HeadRuns, WorkerOnReceive, Zenon
    <3>3. v # w => worker'[v] = worker[v]
      BY <2>1, WorkerOnReceive, Zenon
    <3> QED
      BY <1>4, <3>2, <3>3, Zenon
  <2>2. ASSUME NEW w \in Workers, HandlerEnds(w) PROVE worker'[v].phase \notin {"retrying", "exhausted"}
    BY <1>4, <2>0, <2>2 DEF HandlerEnds
  <2>3. ASSUME NEW w \in Workers, Settled(w) PROVE worker'[v].phase \notin {"retrying", "exhausted"}
    BY <1>4, <2>0, <2>3, Zenon DEF Settled, Idle
  <2>4. CASE Tick
    BY <1>4, <2>4, WorkerOnTick, Zenon
  <2>5. CASE worker' = worker
    BY <1>4, <2>5, Zenon
  <2> QED
    BY <2>1, <2>2, <2>3, <2>4, <2>5, Zenon DEF Next, vars, StartClaim, EndClaim, ClaimReturns
<1> QED
  BY <1>3, <1>5, <1>6, <1>7, Zenon DEF HealthyInv

LEMMA InvariantInit ==
    ASSUME Init
    PROVE  ExecutorInv
<1>1. TypeOK
  BY TypeInit, Zenon
<1>2. worker = [w \in Workers |-> Idle] /\ channel = <<>> /\ claim = NoClaim
  BY Zenon DEF Init
<1>3. \A w \in Workers : worker[w].phase = "idle"
  BY <1>2, Zenon DEF Idle
<1>4. ~claim.active /\ Len(channel) = 0
  BY <1>2, Zenon DEF NoClaim
<1>5. RunsInv
  BY <1>3, Zenon DEF RunsInv
<1>6. HealthyInv
  BY <1>1, <1>3, <1>4, Budget DEF HealthyInv, ClaimInv
<1> QED
  BY <1>1, <1>5, <1>6, Zenon DEF ExecutorInv

(* The inductive invariant: leases of a claim are as old as the claim, a   *)
(* run in progress has the time it needs, and in a healthy pool every task *)
(* that waits has enough turns of the workers left.                        *)
THEOREM ExecutorInvariant == Spec => []ExecutorInv
<1>1. Init => ExecutorInv
  BY InvariantInit, Zenon
<1>2. ExecutorInv /\ [Next]_vars => ExecutorInv'
  <2> SUFFICES ASSUME ExecutorInv, [Next]_vars PROVE ExecutorInv'
    BY Zenon
  <2>1. TypeOK'
    BY TypeStep, Zenon DEF ExecutorInv
  <2>2. RunsInv'
    BY RunsStep, Zenon DEF ExecutorInv
  <2>3. HealthyInv'
    BY <2>1, HealthyStep, Zenon
  <2> QED
    BY <2>1, <2>2, <2>3, Zenon DEF ExecutorInv
<1> QED
  BY <1>1, <1>2, PTL DEF Spec

(* In a healthy pool every claimed delivery is run, for every accepted     *)
(* configuration: any number of workers, any capacity of the channel, any  *)
(* timeouts.  This is what ValidateForStorageTimeout is for.               *)
THEOREM HealthyPoolAlwaysRuns == Spec => []HealthyPoolRuns
<1>1. ExecutorInv => HealthyPoolRuns
  BY Zenon DEF ExecutorInv, HealthyInv, HealthyPoolRuns
<1> QED
  BY <1>1, ExecutorInvariant, PTL

(* A handler that was started can settle with its whole storage budget, in *)
(* every regime in which the timers of the execution fire.                 *)
THEOREM RunsCanAlwaysSettle == Spec => []RunsCanSettle
<1>1. ExecutorInv => RunsCanSettle
  BY Zenon DEF ExecutorInv, RunsInv, RunsCanSettle
<1> QED
  BY <1>1, ExecutorInvariant, PTL
====
