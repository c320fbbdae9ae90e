---- MODULE TaskQueueProofs ----
(***************************************************************************)
(* Proofs about TaskQueue, for any tasks, lease, attempts, delays and      *)
(* limits, any number of claimers and however long the clock runs.         *)
(***************************************************************************)
EXTENDS TaskQueue, TLAPS

Requests == {"completed", "pending", "failed"}

SettlementOf == [lease : LeasedTask, delay : Delays, request : Requests]

(* What each statement writes is a row that satisfies the constraints. *)
LEMMA WrittenRows ==
    ASSUME NEW r \in Row, RowConstraints(r), now \in Nat, NEW delay \in Nat
    PROVE  /\ \A token \in Nat \ {0}, until \in Nat : r.status = "pending" =>
                 ClaimedRow(r, token, until) \in Row
                 /\ RowConstraints(ClaimedRow(r, token, until))
           /\ \A request \in Requests : r.status = "processing" =>
                 SettledRow(r, request, delay) \in Row
                 /\ RowConstraints(SettledRow(r, request, delay))
           /\ r.status = "processing" =>
                 RecoveredRow(r, delay) \in Row /\ RowConstraints(RecoveredRow(r, delay))
<1>1. /\ r.attempts \in 0..MaxAttempts /\ now + delay \in Nat
      /\ r.status = "pending" => r.attempts + 1 \in 0..MaxAttempts
  BY QueueAssumption DEF Row, RowConstraints
<1>2. ASSUME NEW token \in Nat \ {0}, NEW until \in Nat, r.status = "pending"
      PROVE  /\ ClaimedRow(r, token, until) \in Row
             /\ RowConstraints(ClaimedRow(r, token, until))
  <2> DEFINE q == ClaimedRow(r, token, until)
  <2>1. q.status = "processing" /\ q.lock_token = token /\ q.finished_at = r.finished_at
    BY DEF ClaimedRow, Row
  <2>2. q \in Row
    BY <1>1, <1>2, Zenon DEF ClaimedRow, Row
  <2>3. RowConstraints(q)
    BY <1>2, <2>1 DEF RowConstraints
  <2> QED
    BY <2>2, <2>3
<1>3. ASSUME NEW request \in Requests, r.status = "processing"
      PROVE  /\ SettledRow(r, request, delay) \in Row
             /\ RowConstraints(SettledRow(r, request, delay))
  <2> DEFINE q == SettledRow(r, request, delay)
             again == request = "pending" /\ ~Exhausted(r)
  <2>1. /\ q.status = IF request = "pending" /\ Exhausted(r) THEN "failed" ELSE request
        /\ q.lock_token = 0 /\ q.locked_until = 0 /\ q.attempts = r.attempts
        /\ q.finished_at = IF again THEN "null" ELSE "set"
    BY DEF SettledRow, Unlocked, Row
  <2>2. q \in Row
    BY <1>1, ZenonT(60) DEF SettledRow, Unlocked, Row, Requests
  <2>3. RowConstraints(q)
    BY <1>1, <2>1, QueueAssumption DEF RowConstraints, Requests, Exhausted
  <2> QED
    BY <2>2, <2>3
<1>4. ASSUME r.status = "processing"
      PROVE  RecoveredRow(r, delay) \in Row /\ RowConstraints(RecoveredRow(r, delay))
  <2> DEFINE q == RecoveredRow(r, delay)
  <2>1. /\ q.status = IF Exhausted(r) THEN "failed" ELSE "pending"
        /\ q.lock_token = 0 /\ q.locked_until = 0 /\ q.attempts = r.attempts
        /\ q.finished_at = IF Exhausted(r) THEN "set" ELSE "null"
    BY DEF RecoveredRow, Unlocked, Row
  <2>2. q \in Row
    BY <1>1, Zenon DEF RecoveredRow, Unlocked, Row
  <2>3. RowConstraints(q)
    BY <1>1, <2>1, QueueAssumption DEF RowConstraints, Exhausted
  <2> QED
    BY <2>2, <2>3
<1> QED
  BY <1>2, <1>3, <1>4

(* Every step keeps the types and the table's constraints. *)
LEMMA TypeStep == TypeOK /\ [Next]_vars => TypeOK'
<1> SUFFICES ASSUME TypeOK, [Next]_vars
             PROVE  TypeOK'
  OBVIOUS
<1>1. /\ row \in [TaskIds -> Row] /\ now \in Nat /\ minted \in Nat
      /\ \A i \in TaskIds : row[i] \in Row /\ RowConstraints(row[i])
      /\ claiming \subseteq 0..now /\ leases \subseteq LeasedTask /\ settling \subseteq SettlementOf
  BY DEF TypeOK, SettlementOf, Requests
<1> DEFINE RowsOK(f) == f \in [TaskIds -> Row] /\ \A i \in TaskIds : RowConstraints(f[i])
<1>2. SUFFICES /\ RowsOK(row') /\ now' \in Nat /\ minted' \in Nat /\ claiming' \subseteq 0..now'
               /\ leases' \subseteq LeasedTask /\ settling' \subseteq SettlementOf
  BY <1>2 DEF TypeOK, SettlementOf, Requests
<1>3. ASSUME NEW i \in TaskIds, NEW r \in Row, RowConstraints(r), row' = [row EXCEPT ![i] = r]
      PROVE  RowsOK(row')
  BY <1>1, <1>3
<1>4. ASSUME NEW id \in TaskIds, RequeueFailed(id)
      PROVE  RowsOK(row')
  <2> DEFINE r == [Unlocked(row[id]) EXCEPT !.status = "pending", !.attempts = 0,
                                            !.available_at = now, !.finished_at = "null"]
  <2>0. 0 \in Nat /\ 0 \in 0..MaxAttempts
    BY QueueAssumption
  <2>1. r \in Row
    BY <1>1, <2>0, ZenonT(60) DEF Row, Unlocked
  <2>3. r.status = "pending" /\ r.attempts = 0 /\ r.finished_at = "null"
        /\ r.lock_token = 0 /\ r.locked_until = 0
    BY <1>1 DEF Row, Unlocked
  <2>4. RowConstraints(r)
    BY <2>3, QueueAssumption DEF RowConstraints
  <2>2. row' = [row EXCEPT ![id] = r]
    BY <1>1, <1>4 DEF RequeueFailed
  <2> QED
    BY <1>3, <2>1, <2>2, <2>4, Zenon
<1>5. ASSUME NEW id \in TaskIds, NEW delay \in Delays, Enqueue(id, delay)
      PROVE  RowsOK(row')
  <2> DEFINE r == [NoRow EXCEPT !.status = "pending", !.available_at = now + delay]
  <2>1. now + delay \in Nat /\ 0 \in Nat /\ 0 \in 0..MaxAttempts
    BY <1>1, QueueAssumption
  <2>2. r \in Row
    BY <2>1, Zenon DEF NoRow, Row
  <2>4. r.status = "pending" /\ r.attempts = 0 /\ r.finished_at = "null"
        /\ r.lock_token = 0 /\ r.locked_until = 0
    BY DEF NoRow
  <2>5. RowConstraints(r)
    BY <2>4, QueueAssumption DEF RowConstraints
  <2>3. row' = [row EXCEPT ![id] = r]
    BY <1>5 DEF Enqueue
  <2> QED
    BY <1>3, <2>2, <2>3, <2>5, Zenon
<1>6. ASSUME NEW started \in claiming, NEW updated \in 0..MaxTime, NEW S \in SUBSET TaskIds,
             NEW received \in BOOLEAN, Claim(started, updated, S, received)
      PROVE  RowsOK(row') /\ leases' \subseteq LeasedTask /\ minted' \in Nat
  <2>1. /\ minted + 1 \in Nat \ {0} /\ updated + Lease \in Nat /\ started + Lease \in Nat
        /\ now \in Nat /\ 0 \in Nat
    BY <1>1, QueueAssumption
  <2>2. \A i \in S : /\ row[i].status = "pending" /\ row[i].attempts + 1 \in 1..MaxAttempts
    BY <1>1, <1>6, QueueAssumption DEF Claim, Due, Row, RowConstraints
  <2>3. \A i \in S : /\ ClaimedRow(row[i], minted + 1, updated + Lease) \in Row
                     /\ RowConstraints(ClaimedRow(row[i], minted + 1, updated + Lease))
    BY <1>1, <2>1, <2>2, WrittenRows
  <2>4. row' = [i \in TaskIds |-> IF i \in S THEN ClaimedRow(row[i], minted + 1, updated + Lease)
                                  ELSE row[i]]
    BY <1>6 DEF Claim
  <2>5. RowsOK(row')
    BY <1>1, <2>3, <2>4
  <2>6. leases' \subseteq LeasedTask
    BY <1>1, <1>6, <2>1, <2>2 DEF Claim, LeasedTask
  <2> QED
    BY <1>6, <2>1, <2>5, <2>6 DEF Claim
<1>7. ASSUME NEW s \in settling, ApplySettlement(s)
      PROVE  RowsOK(row')
  <2>1. s.lease.id \in TaskIds /\ s.delay \in Nat /\ s.request \in Requests
    BY <1>1, QueueAssumption, Zenon DEF SettlementOf, LeasedTask
  <2>2. CASE Owned(s.lease)
    <3> DEFINE r == SettledRow(row[s.lease.id], s.request, s.delay)
    <3>1. r \in Row /\ RowConstraints(r)
      BY <1>1, <2>1, <2>2, WrittenRows DEF Owned
    <3>2. row' = [row EXCEPT ![s.lease.id] = r]
      BY <1>1, <1>7, <2>1, <2>2 DEF ApplySettlement
    <3> QED
      BY <1>3, <2>1, <3>1, <3>2, Zenon
  <2> QED
    BY <1>1, <1>7, <2>2 DEF ApplySettlement
<1>8. ASSUME NEW S \in SUBSET TaskIds, NEW delay \in [S -> Delays], RecoverExpired(S, delay)
      PROVE  RowsOK(row')
  <2>1. \A i \in S : delay[i] \in Nat /\ row[i].status = "processing"
    BY <1>8, QueueAssumption, Zenon DEF RecoverExpired, Expired
  <2>2. \A i \in S : RecoveredRow(row[i], delay[i]) \in Row /\ RowConstraints(RecoveredRow(row[i], delay[i]))
    BY <1>1, <2>1, WrittenRows
  <2>3. row' = [i \in TaskIds |-> IF i \in S THEN RecoveredRow(row[i], delay[i]) ELSE row[i]]
    BY <1>8 DEF RecoverExpired
  <2> QED
    BY <1>1, <2>2, <2>3
<1>9. ASSUME NEW l \in leases, NEW request \in Requests, NEW delay \in Delays,
             SendSettlement(l, request, delay)
      PROVE  settling' \subseteq SettlementOf
  BY <1>1, <1>9 DEF SendSettlement, SettlementOf
<1>10. CASE StartClaim
  BY <1>1, <1>10 DEF StartClaim
<1>11. ASSUME NEW started \in claiming, AbortClaim(started)
       PROVE  claiming' \subseteq 0..now'
  BY <1>1, <1>11 DEF AbortClaim
<1>12. CASE Tick
  BY <1>1, <1>12 DEF Tick
<1>13. CASE UNCHANGED vars
  BY <1>1, <1>13 DEF vars
<1> HIDE DEF RowsOK
<1>14. RowsOK(row)
  BY <1>1 DEF RowsOK
<1>15. CASE Next
  <2>1. ASSUME NEW id \in TaskIds, RequeueFailed(id) \/ \E delay \in Delays : Enqueue(id, delay)
        PROVE  RowsOK(row') /\ UNCHANGED <<now, minted, claiming, leases, settling>>
    BY <1>4, <1>5, <2>1, Zenon DEF RequeueFailed, Enqueue
  <2>2. ASSUME NEW started \in claiming, AbortClaim(started)
        PROVE  claiming' \subseteq 0..now' /\ UNCHANGED <<now, row, minted, leases, settling>>
    BY <1>11, <2>2 DEF AbortClaim
  <2>3. ASSUME NEW started \in claiming, NEW updated \in 0..MaxTime, NEW S \in SUBSET TaskIds,
               NEW received \in BOOLEAN, Claim(started, updated, S, received)
        PROVE  /\ RowsOK(row') /\ leases' \subseteq LeasedTask /\ minted' \in Nat
               /\ claiming' \subseteq claiming /\ UNCHANGED <<now, settling>>
    BY <1>6, <2>3, Zenon DEF Claim
  <2>4. ASSUME NEW l \in leases, \/ DropLease(l)
                                 \/ \E request \in Requests, delay \in Delays :
                                       SendSettlement(l, request, delay)
        PROVE  /\ leases' \subseteq leases /\ settling' \subseteq SettlementOf
               /\ UNCHANGED <<now, row, minted, claiming>>
    BY <1>1, <1>9, <2>4 DEF DropLease, SendSettlement
  <2>5. ASSUME NEW s \in settling, ApplySettlement(s) \/ LoseSettlement(s)
        PROVE  /\ RowsOK(row') /\ settling' \subseteq settling
               /\ UNCHANGED <<now, minted, claiming, leases>>
    BY <1>7, <1>14, <2>5 DEF ApplySettlement, LoseSettlement
  <2>6. ASSUME NEW S \in SUBSET TaskIds, NEW delay \in [S -> Delays], RecoverExpired(S, delay)
        PROVE  RowsOK(row') /\ UNCHANGED <<now, minted, claiming, leases, settling>>
    BY <1>8, <2>6 DEF RecoverExpired
  <2> QED
    BY <1>1, <1>10, <1>12, <1>14, <1>15, <2>1, <2>2, <2>3, <2>4, <2>5, <2>6, ZenonT(60)
       DEF Next, Requests, StartClaim, Tick
<1> QED
  BY <1>13, <1>14, <1>15

----------------------------------------------------------------------------
(* A statement that releases rows, none of them held within its deadline,  *)
(* keeps the fence: a released row has no token.                           *)
LEMMA ReleaseStep ==
    ASSUME TypeOK, TypeOK', LeasesFenced, now' = now, minted' = minted, leases' = leases,
           settling' \subseteq settling,
           \A id \in TaskIds :
              \/ row'[id] = row[id]
              \/ /\ row'[id].lock_token = 0
                 /\ \A l \in leases : l.id = id => ~(now < l.deadline)
    PROVE  LeasesFenced'
<1>1. /\ \A l \in leases : l \in LeasedTask
      /\ \A s \in settling : s.lease \in LeasedTask
      /\ minted \in Nat
  BY DEF TypeOK
<1>2. \A l \in leases \cup {s.lease : s \in settling} : l.id \in TaskIds /\ l.token # 0
  BY <1>1 DEF LeasedTask
<1>3. (\A id \in TaskIds : row[id].lock_token <= minted)'
  BY <1>1 DEF LeasesFenced
<1>4. (\A l \in leases \cup {s.lease : s \in settling} :
          /\ l.token <= minted
          /\ row[l.id].lock_token = l.token => row[l.id].attempts = l.number)'
  BY <1>2 DEF LeasesFenced
<1>5. LiveLeaseOwnsRow'
  BY <1>2 DEF LeasesFenced, LiveLeaseOwnsRow
<1> QED
  BY <1>3, <1>4, <1>5 DEF LeasesFenced

(* So does a step that only gives up leases and requests or lets time pass. *)
LEMMA GiveUpStep ==
    ASSUME TypeOK, TypeOK', LeasesFenced, row' = row, minted' = minted, now <= now',
           leases' \subseteq leases, settling' \subseteq settling
    PROVE  LeasesFenced'
<1>1. ASSUME NEW l \in leases, now' < l.deadline
      PROVE  now < l.deadline
  BY <1>1 DEF TypeOK, LeasedTask
<1> QED
  BY <1>1 DEF LeasesFenced, LiveLeaseOwnsRow

(* Every step keeps the fence. *)
LEMMA FenceStep == TypeOK /\ LeasesFenced /\ [Next]_vars => LeasesFenced'
<1> SUFFICES ASSUME TypeOK, LeasesFenced, [Next]_vars
             PROVE  LeasesFenced'
  OBVIOUS
<1>0. TypeOK'
  BY TypeStep
<1>1. /\ row \in [TaskIds -> Row] /\ now \in Nat /\ minted \in Nat
      /\ \A i \in TaskIds : row[i] \in Row /\ RowConstraints(row[i])
      /\ claiming \subseteq 0..now /\ leases \subseteq LeasedTask /\ settling \subseteq SettlementOf
  BY DEF TypeOK, SettlementOf, Requests
<1>2. \A l \in leases : now < l.deadline =>
         /\ row[l.id].status = "processing" /\ row[l.id].lock_token = l.token
         /\ l.deadline <= row[l.id].locked_until
  BY DEF LeasesFenced, LiveLeaseOwnsRow
<1>3. ASSUME NEW id \in TaskIds, RequeueFailed(id)
      PROVE  LeasesFenced'
  <2>1. row'[id].lock_token = 0 /\ row[id].status = "failed"
    BY <1>1, <1>3 DEF RequeueFailed, Unlocked, Row
  <2>2. \A i \in TaskIds : i # id => row'[i] = row[i]
    BY <1>1, <1>3 DEF RequeueFailed
  <2> QED
    BY <1>0, <1>2, <1>3, <2>1, <2>2, ReleaseStep DEF RequeueFailed
<1>4. ASSUME NEW id \in TaskIds, NEW delay \in Delays, Enqueue(id, delay)
      PROVE  LeasesFenced'
  <2>1. row'[id].lock_token = 0 /\ row[id].status = "absent"
    BY <1>1, <1>4 DEF Enqueue, NoRow
  <2>2. \A i \in TaskIds : i # id => row'[i] = row[i]
    BY <1>1, <1>4 DEF Enqueue
  <2> QED
    BY <1>0, <1>2, <1>4, <2>1, <2>2, ReleaseStep DEF Enqueue
<1>5. ASSUME NEW s \in settling, ApplySettlement(s)
      PROVE  LeasesFenced'
  <2>1. s.lease.id \in TaskIds
    BY <1>1 DEF SettlementOf, LeasedTask
  <2>2. CASE Owned(s.lease)
    <3>1. row'[s.lease.id].lock_token = 0
      BY <1>1, <1>5, <2>1, <2>2 DEF ApplySettlement, SettledRow, Unlocked, Row
    <3>2. \A i \in TaskIds : i # s.lease.id => row'[i] = row[i]
      BY <1>1, <1>5, <2>1, <2>2 DEF ApplySettlement
    <3>3. \A l \in leases : l.id = s.lease.id => ~(now < l.deadline)
      BY <1>2, <2>2 DEF Owned, LeasesFenced
    <3> QED
      BY <1>0, <1>5, <3>1, <3>2, <3>3, ReleaseStep DEF ApplySettlement
  <2>3. CASE ~Owned(s.lease)
    BY <1>0, <1>5, <2>3, ReleaseStep DEF ApplySettlement
  <2> QED
    BY <2>2, <2>3
<1>6. ASSUME NEW S \in SUBSET TaskIds, NEW delay \in [S -> Delays], RecoverExpired(S, delay)
      PROVE  LeasesFenced'
  <2>1. \A i \in TaskIds : row'[i] = IF i \in S THEN RecoveredRow(row[i], delay[i]) ELSE row[i]
    BY <1>6 DEF RecoverExpired
  <2>2. ASSUME NEW i \in S
        PROVE  row'[i].lock_token = 0
    <3>1. row'[i] = RecoveredRow(row[i], delay[i])
      BY <2>1
    <3>2. row[i] \in Row
      BY <1>1
    <3> QED
      BY <3>1, <3>2 DEF RecoveredRow, Unlocked, Row
  <2>3. \A i \in S : row[i].locked_until <= now /\ row[i].locked_until \in Nat
    BY <1>1, <1>6 DEF RecoverExpired, Expired, Row
  <2>4. \A l \in leases : l.id \in S => ~(now < l.deadline)
    BY <1>1, <1>2, <2>3 DEF LeasedTask
  <2> QED
    BY <1>0, <1>6, <2>1, <2>2, <2>4, ReleaseStep DEF RecoverExpired
<1>7. ASSUME NEW l \in leases, NEW request \in Requests, NEW delay \in Delays,
             SendSettlement(l, request, delay)
      PROVE  LeasesFenced'
  <2>1. leases' = leases \ {l} /\ UNCHANGED <<row, minted, now>>
    BY <1>7 DEF SendSettlement
  <2>2. \A s \in settling' : s \in settling \/ s.lease = l
    BY <1>7 DEF SendSettlement
  <2>3. LiveLeaseOwnsRow'
    BY <2>1 DEF LeasesFenced, LiveLeaseOwnsRow
  <2>4. \A m \in leases', s \in settling' : m.id = s.lease.id => m.token # s.lease.token
    BY <2>1, <2>2 DEF LeasesFenced
  <2>5. \A m \in leases' \cup {s.lease : s \in settling'} :
           m \in leases \cup {s.lease : s \in settling}
    BY <2>1, <2>2
  <2> QED
    BY <2>1, <2>3, <2>4, <2>5 DEF LeasesFenced
<1>8. ASSUME NEW started \in claiming, NEW updated \in 0..MaxTime, NEW S \in SUBSET TaskIds,
             NEW received \in BOOLEAN, Claim(started, updated, S, received)
      PROVE  LeasesFenced'
  <2> DEFINE lease(i) == [id |-> i, token |-> minted + 1, number |-> row[i].attempts + 1,
                          deadline |-> started + Lease]
  <2>1. /\ minted' = minted + 1 /\ now' = now /\ settling' = settling
        /\ \A i \in TaskIds :
              row'[i] = IF i \in S THEN ClaimedRow(row[i], minted + 1, updated + Lease) ELSE row[i]
    BY <1>8 DEF Claim
  <2>2. ASSUME NEW i \in S
        PROVE  /\ row'[i].status = "processing" /\ row'[i].lock_token = minted + 1
               /\ row'[i].attempts = row[i].attempts + 1
               /\ row'[i].locked_until = updated + Lease
    <3>1. row'[i] = ClaimedRow(row[i], minted + 1, updated + Lease)
      BY <2>1
    <3>2. row[i] \in Row
      BY <1>1
    <3> QED
      BY <3>1, <3>2 DEF ClaimedRow, Row
  <2>3. \A i \in S : row[i].status = "pending"
    BY <1>8 DEF Claim, Due
  <2>4. \A l \in leases' : l \in leases \/ \E i \in S : l = lease(i)
    BY <1>8 DEF Claim
  <2>5. \A l \in leases \cup {s.lease : s \in settling} :
           l.id \in TaskIds /\ l.token \in Nat /\ l.token <= minted
    BY <1>1 DEF LeasesFenced, LeasedTask, SettlementOf
  <2>6. started + Lease <= updated + Lease
    BY <1>1, <1>8, QueueAssumption DEF Claim
  <2>7. (\A id \in TaskIds : row[id].lock_token <= minted)'
    BY <1>1, <2>1, <2>2, SMTT(30) DEF LeasesFenced, Row
  <2>8. \A l \in leases \cup {s.lease : s \in settling} :
           /\ l.token <= minted' /\ l.token # minted + 1
           /\ row'[l.id].lock_token = l.token => row'[l.id].attempts = l.number
    <3>1. \A l \in leases \cup {s.lease : s \in settling} :
             l.token <= minted + 1 /\ l.token # minted + 1
      BY <1>1, <2>5
    <3> QED
      BY <2>1, <2>2, <2>5, <3>1 DEF LeasesFenced
  <2>9. \A i \in S : /\ lease(i).id = i /\ lease(i).token = minted + 1
                     /\ lease(i).number = row[i].attempts + 1 /\ lease(i).deadline = started + Lease
    OBVIOUS
  <2> HIDE DEF lease
  <2>10. (\A l \in leases \cup {s.lease : s \in settling} :
             /\ l.token <= minted
             /\ row[l.id].lock_token = l.token => row[l.id].attempts = l.number)'
    <3>1. minted + 1 <= minted + 1
      BY <1>1
    <3> QED
      BY <2>1, <2>2, <2>4, <2>8, <2>9, <3>1, SMTT(30)
  <2>11. \A l, m \in leases' : l.id = m.id /\ l.token = m.token => l = m
    BY <2>4, <2>8, <2>9, SMTT(30) DEF LeasesFenced
  <2>12. \A l \in leases', s \in settling' : l.id = s.lease.id => l.token # s.lease.token
    BY <2>1, <2>4, <2>8, <2>9, SMTT(30) DEF LeasesFenced
  <2>13. ASSUME NEW l \in leases', now' < l.deadline
         PROVE  /\ row'[l.id].status = "processing" /\ row'[l.id].lock_token = l.token
                /\ row'[l.id].attempts = l.number /\ l.deadline <= row'[l.id].locked_until
    <3>1. CASE l \in leases
      <4>1. row[l.id].status = "processing" /\ l.id \in TaskIds
        BY <1>2, <2>1, <2>5, <2>13, <3>1
      <4>2. row'[l.id] = row[l.id]
        BY <2>1, <2>3, <4>1
      <4> QED
        BY <2>1, <2>13, <3>1, <4>2 DEF LeasesFenced, LiveLeaseOwnsRow
    <3>2. CASE \E i \in S : l = lease(i)
      BY <2>2, <2>6, <2>9, <3>2
    <3> QED
      BY <2>4, <3>1, <3>2
  <2>14. LiveLeaseOwnsRow'
    BY <2>13 DEF LiveLeaseOwnsRow
  <2> QED
    BY <2>7, <2>10, <2>11, <2>12, <2>14 DEF LeasesFenced
<1>9. ASSUME \/ StartClaim
             \/ \E started \in claiming : AbortClaim(started)
             \/ \E l \in leases : DropLease(l)
             \/ \E s \in settling : LoseSettlement(s)
             \/ Tick
             \/ UNCHANGED vars
      PROVE  LeasesFenced'
  <2>1. /\ UNCHANGED <<row, minted>> /\ now' \in {now, now + 1}
        /\ leases' \subseteq leases /\ settling' \subseteq settling
    BY <1>9 DEF StartClaim, AbortClaim, DropLease, LoseSettlement, Tick, vars
  <2>2. now <= now'
    BY <1>1, <2>1
  <2> QED
    BY <1>0, <2>1, <2>2, GiveUpStep
<1> QED
  BY <1>3, <1>4, <1>5, <1>6, <1>7, <1>8, <1>9 DEF Next, Requests

----------------------------------------------------------------------------
(* The table's constraints hold in every reachable state, so no statement  *)
(* of the queue fails on one of them (002-transactional-outbox.sql).       *)
THEOREM TypeCorrect == Spec => []TypeOK
<1>1. Init => TypeOK
  <2> SUFFICES ASSUME Init PROVE TypeOK
    OBVIOUS
  <2>1. NoRow \in Row /\ RowConstraints(NoRow)
    BY QueueAssumption DEF NoRow, Row, RowConstraints
  <2> QED
    BY <2>1 DEF Init, TypeOK
<1> QED
  BY <1>1, TypeStep, PTL DEF Spec

(* A token fences one attempt of one row, held by one party.               *)
THEOREM TokensFence == Spec => []LeasesFenced
<1>1. Init => LeasesFenced
  BY SMTT(30) DEF Init, LeasesFenced, LiveLeaseOwnsRow, NoRow
<1> QED
  BY <1>1, FenceStep, TypeCorrect, PTL DEF Spec

(* A worker within the deadline that claim computed before its first await *)
(* owns its row, whatever claims, recoveries and late settlements do.      *)
THEOREM LiveLeasesOwnRows == Spec => []LiveLeaseOwnsRow
<1>1. LeasesFenced => LiveLeaseOwnsRow
  BY Zenon DEF LeasesFenced
<1> QED
  BY <1>1, TokensFence, PTL

(* Only the current attempt's settlement or, after expiry, recovery takes  *)
(* a row out of processing (settle and recover_expired).                   *)
THEOREM OutcomesAreOfCurrentAttempts == Spec => OutcomeIsOfCurrentAttempt
<1> DEFINE Step(r, q, id) ==
       /\ r.status = "completed" => q = r
       /\ r.status = "failed" => q = r \/ (q.status = "pending" /\ q.attempts = 0)
       /\ r.status = "processing" /\ q # r =>
             \/ \E s \in settling : s.lease.id = id /\ s.lease.number = r.attempts
                                    /\ (q.status = s.request \/ q.status = "failed")
             \/ (r.locked_until <= now /\ q.status # "completed")
<1>1. ASSUME TypeOK, LeasesFenced, Next, NEW id \in TaskIds
      PROVE  Step(row[id], row'[id], id)
  <2>1. /\ row \in [TaskIds -> Row]
        /\ \A i \in TaskIds : row[i] \in Row
        /\ settling \subseteq SettlementOf
    BY <1>1 DEF TypeOK, SettlementOf, Requests
  <2>2. ASSUME NEW i \in TaskIds, RequeueFailed(i)
        PROVE  Step(row[id], row'[id], id)
    <3>1. CASE i = id
      <4>1. row'[id].status = "pending" /\ row'[id].attempts = 0 /\ row[id].status = "failed"
        BY <2>1, <2>2, <3>1 DEF RequeueFailed, Unlocked, Row
      <4> QED
        BY <4>1
    <3>2. CASE i # id
      BY <2>1, <2>2, <3>2 DEF RequeueFailed
    <3> QED
      BY <3>1, <3>2
  <2>3. ASSUME NEW i \in TaskIds, NEW delay \in Delays, Enqueue(i, delay)
        PROVE  Step(row[id], row'[id], id)
    <3>1. row'[id] = row[id] \/ row[id].status = "absent"
      BY <2>1, <2>3 DEF Enqueue
    <3> QED
      BY <3>1
  <2>4. ASSUME NEW started \in claiming, NEW updated \in 0..MaxTime, NEW S \in SUBSET TaskIds,
               NEW received \in BOOLEAN, Claim(started, updated, S, received)
        PROVE  Step(row[id], row'[id], id)
    <3>1. row'[id] = row[id] \/ row[id].status = "pending"
      BY <2>4 DEF Claim, Due
    <3> QED
      BY <3>1
  <2>5. ASSUME NEW s \in settling, ApplySettlement(s)
        PROVE  Step(row[id], row'[id], id)
    <3>1. s.lease.id \in TaskIds
      BY <2>1 DEF SettlementOf, LeasedTask
    <3>2. CASE s.lease.id = id /\ Owned(s.lease)
      <4>1. row'[id] = SettledRow(row[id], s.request, s.delay)
        BY <2>1, <2>5, <3>2 DEF ApplySettlement
      <4>2. row'[id].status \in {s.request, "failed"}
        BY <2>1, <4>1 DEF SettledRow, Unlocked, Row
      <4>3. row[id].status = "processing" /\ s.lease.number = row[id].attempts
        BY <1>1, <3>2 DEF Owned, LeasesFenced
      <4> QED
        BY <3>2, <4>2, <4>3, SMTT(30)
    <3>3. CASE ~(s.lease.id = id /\ Owned(s.lease))
      BY <2>1, <2>5, <3>1, <3>3 DEF ApplySettlement
    <3> QED
      BY <3>2, <3>3
  <2>6. ASSUME NEW S \in SUBSET TaskIds, NEW delay \in [S -> Delays], RecoverExpired(S, delay)
        PROVE  Step(row[id], row'[id], id)
    <3>1. row'[id] = IF id \in S THEN RecoveredRow(row[id], delay[id]) ELSE row[id]
      BY <2>6 DEF RecoverExpired
    <3>2. CASE id \in S
      <4>1. row[id].status = "processing" /\ row[id].locked_until <= now
        BY <2>6, <3>2 DEF RecoverExpired, Expired
      <4>2. row'[id].status # "completed"
        BY <2>1, <3>1, <3>2 DEF RecoveredRow, Unlocked, Row
      <4> QED
        BY <4>1, <4>2
    <3> QED
      BY <3>1, <3>2
  <2>7. row' = row => Step(row[id], row'[id], id)
    OBVIOUS
  <2> HIDE DEF Step
  <2> QED
    BY <1>1, <2>2, <2>3, <2>4, <2>5, <2>6, <2>7
       DEF Next, StartClaim, AbortClaim, DropLease, SendSettlement, LoseSettlement, Tick
<1>2. TypeOK /\ LeasesFenced /\ [Next]_vars => [\A id \in TaskIds : Step(row[id], row'[id], id)]_vars
  BY <1>1
<1> QED
  BY <1>2, TypeCorrect, TokensFence, PTL DEF Spec, OutcomeIsOfCurrentAttempt
====
