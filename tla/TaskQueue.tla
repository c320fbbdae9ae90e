---- MODULE TaskQueue ----
(***************************************************************************)
(* The PostgreSQL task queue: rows of transactional_outbox, claims with a  *)
(* lease, settlement fenced by the lease's token and expiry, recovery of   *)
(* expired leases, and the operator's requeue.                             *)
(*                                                                         *)
(* One variable `now` stands for real time: a claimer measures its lease   *)
(* from the instant it starts to ask, the database from the instant its    *)
(* UPDATE runs, and the transaction commits later still.  Replies of       *)
(* claims and settlements may be lost, and a settlement may be applied     *)
(* long after its worker stopped waiting.  NULL lock columns are 0, and    *)
(* only whether finished_at is NULL is kept.                               *)
(***************************************************************************)
EXTENDS Integers, FiniteSets

CONSTANTS
    TaskIds,
    MaxAttempts,   \* transactional_outbox.max_attempts
    Lease,         \* lease_duration
    Delays,        \* redelivery_backoff and retry_after values
    ClaimLimit,    \* LIMIT of a claim
    RecoveryLimit, \* LIMIT of a recovery
    MaxClaimers,   \* bound: claims in progress at once
    MaxTime,       \* bound: the clock stops here
    MaxTokens      \* bound: lock tokens ever minted

VARIABLES
    now,       \* real time
    row,       \* the table, by task id
    minted,    \* number of lock tokens gen_random_uuid has produced
    claiming,  \* start instants of the claims in progress
    leases,    \* LeasedTasks that workers hold
    settling   \* settlement requests sent and not yet applied or lost

vars == <<now, row, minted, claiming, leases, settling>>

ASSUME QueueAssumption ==
    /\ MaxAttempts \in Nat \ {0} /\ Lease \in Nat \ {0} /\ Delays \subseteq Nat
    /\ ClaimLimit \in Nat /\ RecoveryLimit \in Nat /\ MaxClaimers \in Nat
    /\ MaxTime \in Nat /\ MaxTokens \in Nat

NoRow ==
    [status |-> "absent", attempts |-> 0, available_at |-> 0, finished_at |-> "null",
     lock_token |-> 0, locked_until |-> 0]

----------------------------------------------------------------------------
(* persist_one inserts the row with the event that publishes it. *)
Enqueue(id, delay) ==
    /\ row[id].status = "absent"
    /\ row' = [row EXCEPT ![id] = [NoRow EXCEPT !.status = "pending",
                                                !.available_at = now + delay]]
    /\ UNCHANGED <<now, minted, claiming, leases, settling>>

(* The local deadline is anchored before the first await of the claim. *)
StartClaim ==
    /\ Cardinality(claiming) < MaxClaimers
    /\ claiming' = claiming \cup {now}
    /\ UNCHANGED <<now, row, minted, leases, settling>>

Due(id, at) == row[id].status = "pending" /\ row[id].available_at <= at

ClaimedRow(r, token, until) ==
    [r EXCEPT !.status = "processing", !.attempts = @ + 1,
              !.lock_token = token, !.locked_until = until]

(* Wrong variant: the local deadline counts from the reply. *)
ClaimAnchoredAtReply(started, updated, S, received) ==
    /\ started <= updated /\ updated <= now
    /\ \A id \in S : Due(id, updated)
    /\ S # {} /\ Cardinality(S) <= ClaimLimit /\ minted < MaxTokens
    /\ minted' = minted + 1
    /\ row' = [id \in TaskIds |->
                  IF id \in S THEN ClaimedRow(row[id], minted + 1, updated + Lease)
                  ELSE row[id]]
    /\ leases' = IF received
                 THEN leases \cup {[id |-> id, token |-> minted + 1,
                                    number |-> row[id].attempts + 1,
                                    deadline |-> now + Lease] : id \in S}
                 ELSE leases
    /\ claiming' = claiming \ {started}
    /\ UNCHANGED <<now, settling>>

(* SKIP LOCKED lets concurrent claims divide the due rows in any way.  The *)
(* UPDATE ran at some instant since the claim started; the tokens of one   *)
(* batch are told apart by the row they lock.  A lost reply leaves the     *)
(* rows locked with nobody holding the lease.                              *)
Claim(started, updated, S, received) ==
    /\ started <= updated /\ updated <= now
    /\ \A id \in S : Due(id, updated)
    /\ S # {} /\ Cardinality(S) <= ClaimLimit /\ minted < MaxTokens
    /\ minted' = minted + 1
    /\ row' = [id \in TaskIds |->
                  IF id \in S THEN ClaimedRow(row[id], minted + 1, updated + Lease)
                  ELSE row[id]]
    /\ leases' = IF received
                 THEN leases \cup {[id |-> id, token |-> minted + 1,
                                    number |-> row[id].attempts + 1,
                                    deadline |-> started + Lease] : id \in S}
                 ELSE leases
    /\ claiming' = claiming \ {started}
    /\ UNCHANGED <<now, settling>>

(* The claim fails or finds nothing: no row is due, or the transaction     *)
(* rolls back (storage error, timeout, an invalid row).                    *)
AbortClaim(started) ==
    /\ claiming' = claiming \ {started}
    /\ UNCHANGED <<now, row, minted, leases, settling>>

(* Wrong variant: the worker goes on with a task it has settled. *)
SendSettlementKeepingLease(l, request, delay) ==
    /\ now < l.deadline
    /\ settling' = settling \cup {[lease |-> l, request |-> request, delay |-> delay]}
    /\ UNCHANGED <<now, row, minted, claiming, leases>>

(* A worker asks for a settlement before its deadline (the safety margin   *)
(* is less than a tick); it does not hold the task after that.             *)
SendSettlement(l, request, delay) ==
    /\ now < l.deadline
    /\ leases' = leases \ {l}
    /\ settling' = settling \cup {[lease |-> l, request |-> request, delay |-> delay]}
    /\ UNCHANGED <<now, row, minted, claiming>>

(* A worker stops, is cancelled or finds no budget left. *)
DropLease(l) ==
    /\ leases' = leases \ {l}
    /\ UNCHANGED <<now, row, minted, claiming, settling>>

Exhausted(r) == r.attempts >= MaxAttempts

Unlocked(r) == [r EXCEPT !.lock_token = 0, !.locked_until = 0]

SettledRow(r, request, delay) ==
    LET again == request = "pending" /\ ~Exhausted(r)
    IN  [Unlocked(r) EXCEPT
            !.status = IF request = "pending" /\ Exhausted(r) THEN "failed" ELSE request,
            !.available_at = IF again THEN now + delay ELSE @,
            !.finished_at = IF again THEN "null" ELSE "set"]

(* Wrong variant: any processing row of the id will do. *)
OwnedWithoutToken(l) ==
    row[l.id].status = "processing" /\ row[l.id].locked_until > now

Owned(l) ==
    /\ row[l.id].status = "processing" /\ row[l.id].lock_token = l.token
    /\ row[l.id].locked_until > now

(* settle: the row is locked by id, token and status, and its expiry is    *)
(* compared with the clock once it is locked; otherwise OwnershipLost.     *)
ApplySettlement(s) ==
    /\ row' = IF Owned(s.lease)
              THEN [row EXCEPT ![s.lease.id] = SettledRow(@, s.request, s.delay)]
              ELSE row
    /\ settling' = settling \ {s}
    /\ UNCHANGED <<now, minted, claiming, leases>>

(* The request never reaches the database. *)
LoseSettlement(s) ==
    /\ settling' = settling \ {s}
    /\ UNCHANGED <<now, row, minted, claiming, leases>>

Expired(id) == row[id].status = "processing" /\ row[id].locked_until <= now

RecoveredRow(r, delay) ==
    [Unlocked(r) EXCEPT !.status = IF Exhausted(r) THEN "failed" ELSE "pending",
                        !.available_at = now + delay,
                        !.finished_at = IF Exhausted(r) THEN "set" ELSE "null"]

(* recover_expired: each row gets its own jittered redelivery_backoff. *)
RecoverExpired(S, delay) ==
    /\ \A id \in S : Expired(id)
    /\ S # {} /\ Cardinality(S) <= RecoveryLimit
    /\ row' = [id \in TaskIds |-> IF id \in S THEN RecoveredRow(row[id], delay[id]) ELSE row[id]]
    /\ UNCHANGED <<now, minted, claiming, leases, settling>>

(* Wrong variant: the attempts are not reset. *)
RequeueFailedKeepsAttempts(id) ==
    /\ row[id].status = "failed"
    /\ row' = [row EXCEPT ![id] = [Unlocked(@) EXCEPT !.status = "pending",
                                        !.available_at = now, !.finished_at = "null"]]
    /\ UNCHANGED <<now, minted, claiming, leases, settling>>

RequeueFailed(id) ==
    /\ row[id].status = "failed"
    /\ row' = [row EXCEPT ![id] = [Unlocked(@) EXCEPT !.status = "pending", !.attempts = 0,
                                        !.available_at = now, !.finished_at = "null"]]
    /\ UNCHANGED <<now, minted, claiming, leases, settling>>

Tick ==
    /\ now < MaxTime /\ now' = now + 1
    /\ UNCHANGED <<row, minted, claiming, leases, settling>>

----------------------------------------------------------------------------
Init ==
    /\ now = 0 /\ row = [id \in TaskIds |-> NoRow] /\ minted = 0
    /\ claiming = {} /\ leases = {} /\ settling = {}

Next ==
    \/ \E id \in TaskIds : RequeueFailed(id) \/ \E delay \in Delays : Enqueue(id, delay)
    \/ StartClaim
    \/ \E started \in claiming :
          \/ AbortClaim(started)
          \/ \E updated \in 0..MaxTime, S \in SUBSET TaskIds, received \in BOOLEAN :
                Claim(started, updated, S, received)
    \/ \E l \in leases :
          \/ DropLease(l)
          \/ \E request \in {"completed", "pending", "failed"}, delay \in Delays :
                SendSettlement(l, request, delay)
    \/ \E s \in settling : ApplySettlement(s) \/ LoseSettlement(s)
    \/ \E S \in SUBSET TaskIds : \E delay \in [S -> Delays] : RecoverExpired(S, delay)
    \/ Tick

Spec == Init /\ [][Next]_vars

----------------------------------------------------------------------------
Row ==
    [status : {"absent", "pending", "processing", "completed", "failed"},
     attempts : 0..MaxAttempts, available_at : Nat, finished_at : {"null", "set"},
     lock_token : Nat, locked_until : Nat]

LeasedTask == [id : TaskIds, token : Nat \ {0}, number : 1..MaxAttempts, deadline : Nat]

(* Every row satisfies the CHECK constraints of transactional_outbox, so   *)
(* no claim, settlement, recovery or requeue can fail on one of them.      *)
RowConstraints(r) ==
    /\ (r.status = "processing") = (r.lock_token # 0)
    /\ r.status # "processing" => r.locked_until = 0
    /\ (r.status \in {"completed", "failed"}) = (r.finished_at = "set")
    /\ r.status = "pending" => r.attempts < MaxAttempts

TypeOK ==
    /\ now \in Nat /\ minted \in Nat /\ claiming \subseteq 0..now
    /\ row \in [TaskIds -> Row] /\ \A id \in TaskIds : RowConstraints(row[id])
    /\ leases \subseteq LeasedTask
    /\ \A s \in settling : s \in [lease : LeasedTask, delay : Delays,
                                  request : {"completed", "pending", "failed"}]

(* A worker whose local deadline has not passed still owns its row, under  *)
(* the attempt number it was given: until then no other claim, recovery or *)
(* late settlement has touched the row, so no two workers ever hold the    *)
(* same task within their deadlines.                                       *)
LiveLeaseOwnsRow ==
    \A l \in leases :
        now < l.deadline =>
            /\ row[l.id].status = "processing" /\ row[l.id].lock_token = l.token
            /\ row[l.id].attempts = l.number /\ l.deadline <= row[l.id].locked_until

(* The inductive invariant: a token is held once, for one attempt of one   *)
(* row, by a worker or by a settlement request but never by both; and a    *)
(* lease within its deadline owns its row.                                 *)
LeasesFenced ==
    /\ \A id \in TaskIds : row[id].lock_token <= minted
    /\ \A l \in leases \cup {s.lease : s \in settling} :
          /\ l.token <= minted
          /\ row[l.id].lock_token = l.token => row[l.id].attempts = l.number
    /\ \A l, m \in leases : l.id = m.id /\ l.token = m.token => l = m
    /\ \A l \in leases, s \in settling : l.id = s.lease.id => l.token # s.lease.token
    /\ LiveLeaseOwnsRow

(* A row leaves processing only by its current attempt's own request or,   *)
(* once the lease has run out, by recovery; a completed row never changes  *)
(* and a failed one only returns to pending with fresh attempts, whatever  *)
(* late requests of earlier claims are still under way.                    *)
OutcomeIsOfCurrentAttempt ==
    [][\A id \in TaskIds :
          LET r == row[id]
              q == row'[id]
          IN  /\ r.status = "completed" => q = r
              /\ r.status = "failed" => q = r \/ (q.status = "pending" /\ q.attempts = 0)
              /\ r.status = "processing" /\ q # r =>
                    \/ \E s \in settling : s.lease.id = id /\ s.lease.number = r.attempts
                                           /\ (q.status = s.request \/ q.status = "failed")
                    \/ (r.locked_until <= now /\ q.status # "completed")]_vars
====
