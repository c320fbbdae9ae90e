---- MODULE RegistrationProofs ----
(***************************************************************************)
(* The safety theorems of Registration.  Nothing is assumed of the         *)
(* constants beyond ConstantsAssumption, and account ids may repeat, but   *)
(* for the theorems that say UniqueIds.                                    *)
(***************************************************************************)
EXTENDS RegistrationCommitProofs

(* Nothing is stored and nothing is in flight at the start. *)
LEMMA WorkJustifiedInit == Init => WorkJustified
BY DEF Init, WorkJustified, TasksPublished, AccountFollowsAcceptance,
       CompletionMatchesAccount, ProfileAccepted, Absent, NoAccount

(* A step that answers an execution without an effect, or ends it. *)
LEMMA SettleStepJustified ==
    ASSUME TypeOK, WorkJustified, NEW x \in executions, NEW result \in Results,
           Settle(x, result, outbox),
           \A t : result = "Completed" /\ x.caller = Delivery(t) => EffectDone(t),
           \A y \in executions' : ExecutionJustified(y),
           UNCHANGED <<reservation, version, account>>
    PROVE  WorkJustified'
<1>1. /\ \A row \in outbox' : RowJustified(row)
      /\ \A row \in outbox : \E q \in outbox' : q.task = row.task
  BY SettleJustified, TypeOKRows, Zenon DEF WorkJustified
<1> QED
  BY <1>1, JustifiedWork, Zenon

(* An execution nobody waits for any more is justified as before. *)
LEMMA DetachedJustified ==
    ASSUME NEW x \in Execution, ExecutionJustified(x)
    PROVE  ExecutionJustified([x EXCEPT !.caller = Nobody])
<1> DEFINE y == [x EXCEPT !.caller = Nobody]
<1>1. /\ y.cmd = x.cmd /\ y.task = x.task /\ y.base = x.base /\ y.event = x.event
      /\ y.caller.kind # "Delivery"
  BY Zenon DEF Execution, Nobody
<1> HIDE DEF y
<1>2. ExecutionJustified(y)
  BY <1>1, Zenon DEF ExecutionJustified
<1> QED
  BY <1>2, Zenon DEF y

(* Every HTTP operation, delivery, commit, failure, recovery and requeue   *)
(* preserves the invariant.                                                *)
LEMMA WorkJustifiedStep == TypeOK /\ WorkJustified /\ [Next]_vars => WorkJustified'
<1> SUFFICES ASSUME TypeOK, WorkJustified, [Next]_vars PROVE WorkJustified'
  BY Zenon
<1>0. /\ \A row \in outbox : RowOK(row) /\ RowJustified(row)
      /\ \A x \in executions : ExecutionOK(x) /\ ExecutionJustified(x)
  BY TypeOKRows, Zenon DEF WorkJustified
<1>1. ASSUME NEW e \in Emails, NEW id \in AccountIds, NEW code \in Codes,
             ReserveEmail(e, id, code) \/ RequestNewVerificationCode(e, id, code)
      PROVE  WorkJustified'
  <2>1. PICK type \in {"ReserveEmail", "RequestVerificationCode"} :
          Begin([type |-> type, email |-> e, account_id |-> id, verification_code |-> code],
                SendVerificationCodeTask(e, id, code), Request)
    BY <1>1, Zenon DEF ReserveEmail, RequestNewVerificationCode
  <2> DEFINE cmd == [type |-> type, email |-> e, account_id |-> id, verification_code |-> code]
  <2>2. /\ cmd \in Command /\ cmd.type \in {"ReserveEmail", "RequestVerificationCode"}
        /\ SendVerificationCodeTask(e, id, code).kind = "SendVerificationCode"
        /\ Request.kind # "Delivery"
    BY Zenon DEF Command, SendVerificationCodeTask, Request
  <2> HIDE DEF cmd
  <2>3. \A x \in executions' : ExecutionJustified(x)
    BY <2>1, <2>2, BeginJustified, Zenon DEF cmd
  <2> QED
    BY <1>0, <1>1, <2>3, JustifiedWork, Zenon DEF ReserveEmail, RequestNewVerificationCode
<1>2. ASSUME NEW e \in Emails, NEW id \in AccountIds, NEW code \in Codes, NEW token \in Tokens,
             ConfirmEmail(e, id, code, token)
      PROVE  WorkJustified'
  <2> DEFINE cmd == [type |-> "VerifyEmail", email |-> e, account_id |-> id, code |-> code,
                     token_digest |-> Digest(token)]
  <2>1. /\ cmd \in Command /\ cmd.type = "VerifyEmail" /\ NoTask.kind = "None"
        /\ Confirmation(token).kind # "Delivery"
    BY Zenon DEF Command, Confirmation, TokenDigest, NoTask
  <2>2. Begin(cmd, NoTask, Confirmation(token))
    BY <1>2, Zenon DEF ConfirmEmail
  <2> HIDE DEF cmd
  <2>3. \A x \in executions' : ExecutionJustified(x)
    BY <2>1, <2>2, BeginJustified, Zenon
  <2> QED
    BY <1>0, <1>2, <2>3, JustifiedWork, Zenon DEF ConfirmEmail
<1>3. ASSUME NEW e \in Emails, NEW id \in AccountIds, NEW token \in Tokens,
             NEW sub \in Submissions, NEW t \in Instants, SubmitProfile(e, id, token, sub, t)
      PROVE  WorkJustified'
  <2> DEFINE profile == RegistrationProfile(sub.first_name, sub.last_name, sub.date_of_birth,
                                            DateNaive(t))
             cmd == [type |-> "SubmitRegistrationProfile", email |-> e, account_id |-> id,
                     token_digest |-> Digest(token), profile |-> profile]
  <2>1. DateNaive(t) \in Nat
    BY ConstantsAssumption DEF DateNaive
  <2>2. profile \in Profile /\ TrimmedProfile(profile) = profile
    BY <2>1, ConstantsAssumption, TrimFacts, Zenon DEF Name
  <2>3. Begin(cmd, CreateAccountTask(e, id, profile), Request)
    BY <1>3, Zenon DEF SubmitProfile
  <2> HIDE DEF profile
  <2>4. /\ cmd \in Command /\ cmd.type = "SubmitRegistrationProfile" /\ cmd.email = e
        /\ cmd.account_id = id /\ cmd.profile = profile /\ Request.kind # "Delivery"
    BY <2>2, Zenon DEF Command, TokenDigest, Request
  <2> HIDE DEF cmd
  <2>5. \A x \in executions' : ExecutionJustified(x)
    BY <2>2, <2>3, <2>4, BeginJustified, Zenon
  <2> QED
    BY <1>0, <1>3, <2>5, JustifiedWork, Zenon DEF SubmitProfile
<1>4. ASSUME NEW row \in outbox, DeliverSendVerificationCode(row)
      PROVE  WorkJustified'
  <2>1. PICK new : /\ outbox' = Replace(outbox, row, new)
                   /\ new = Claimed(row)
                         \/ \E result \in Results : new = Settled(Claimed(row), result)
    BY <1>4, Zenon DEF DeliverSendVerificationCode, Results
  <2>2. new.task = row.task
    BY <1>0, <1>4, <2>1, RowSteps DEF DeliverSendVerificationCode
  <2>3. RowJustified(new)
    BY <1>4, <2>2, Zenon DEF DeliverSendVerificationCode, RowJustified
  <2> QED
    BY <1>0, <1>4, <2>1, <2>2, <2>3, JustifiedWork, Zenon DEF DeliverSendVerificationCode, Replace
<1>5. ASSUME NEW row \in outbox, NEW t \in Instants, DeliverCreateAccount(row, t)
      PROVE  WorkJustified'
  <2> DEFINE cmd == [type |-> "CreateAccount", email |-> row.task.email,
                     account_id |-> row.task.account_id, profile |-> row.task.profile,
                     created_at |-> t]
             task == RecordAccountCreatedTask(row.task.email, row.task.account_id,
                                              row.task.profile, t)
  <2>1. cmd \in Command /\ CommandOfTask(cmd, row.task) /\ cmd.type = "CreateAccount"
    BY <1>0, <1>5, Zenon DEF RowOK, Row, Task, Command, CommandOfTask, DeliverCreateAccount
  <2>2. /\ Continue(row, cmd, task) /\ row.status = "pending"
        /\ task = RecordAccountCreatedTask(cmd.email, cmd.account_id, cmd.profile, cmd.created_at)
    BY <1>5, Zenon DEF DeliverCreateAccount
  <2> HIDE DEF cmd, task
  <2> QED
    BY <2>1, <2>2, ContinueJustified, Zenon
<1>6. ASSUME NEW row \in outbox, DeliverRecordAccountCreated(row)
      PROVE  WorkJustified'
  <2> DEFINE cmd == [type |-> "RecordAccountCreated", email |-> row.task.email,
                     account_id |-> row.task.account_id, profile |-> row.task.profile,
                     created_at |-> row.task.created_at]
  <2>1. cmd \in Command /\ CommandOfTask(cmd, row.task) /\ cmd.type = "RecordAccountCreated"
    BY <1>0, <1>6, Zenon DEF RowOK, Row, Task, Command, CommandOfTask, DeliverRecordAccountCreated
  <2>2. Continue(row, cmd, NoTask) /\ row.status = "pending"
    BY <1>6, Zenon DEF DeliverRecordAccountCreated
  <2> HIDE DEF cmd
  <2> QED
    BY <2>1, <2>2, ContinueJustified, Zenon
<1>7. ASSUME NEW x \in executions, CommitReservation(x) \/ CommitAccount(x)
      PROVE  WorkJustified'
  BY <1>7, CommitReservationJustified, CommitAccountJustified, Zenon
<1>8. ASSUME NEW x \in executions, ApplyPanics(x)
      PROVE  WorkJustified'
  BY <1>0, <1>8, JustifiedWork, Zenon DEF ApplyPanics
<1>9. ASSUME NEW x \in executions, Conflict(x)
      PROVE  WorkJustified'
  <2>0. x \in Execution /\ ExecutionJustified(x) /\ UNCHANGED <<reservation, version, account>>
    BY <1>0, <1>9, Zenon DEF ExecutionOK, Conflict
  <2>1. CASE /\ Decide(x.cmd).accepted
             /\ executions' = Replace(executions, x,
                  [x EXCEPT !.base = Version(x.cmd), !.event = Decide(x.cmd).event,
                            !.attempt = @ + 1])
             /\ UNCHANGED outbox
    <3> DEFINE y == [x EXCEPT !.base = Version(x.cmd), !.event = Decide(x.cmd).event,
                              !.attempt = @ + 1]
    <3>1. /\ y.cmd = x.cmd /\ y.task = x.task /\ y.caller = x.caller
          /\ y.base = Version(x.cmd) /\ y.event = Decide(x.cmd).event
      BY <2>0, Zenon DEF Execution
    <3>2. Version(x.cmd) \in Nat
      BY <2>0, Zenon DEF Version, TypeOK, Execution, Command
    <3> HIDE DEF y
    <3>3. ExecutionJustified(y)
      BY <2>0, <2>1, <3>1, <3>2 DEF ExecutionJustified
    <3>4. \A z \in executions' : ExecutionJustified(z)
      BY <1>0, <2>1, <3>3, Zenon DEF Replace, y
    <3> QED
      BY <1>0, <2>0, <2>1, <3>4, JustifiedWork, Zenon
  <2>2. CASE /\ ~Decide(x.cmd).accepted /\ executions' = executions \ {x}
             /\ Settle(x, RejectionResult(Decide(x.cmd).error), outbox)
    <3>1. ASSUME NEW t, RejectionResult(Decide(x.cmd).error) = "Completed", x.caller = Delivery(t)
          PROVE  EffectDone(t)
      <4>1. x.caller \in Caller /\ x.caller.kind = "Delivery" /\ x.caller.task = t
        BY <2>0, <3>1 DEF Execution, Delivery
      <4>2. t \in Task
        BY <4>1 DEF Caller, Request, Nobody
      <4>3. CommandOfTask(x.cmd, t) /\ x.cmd \in Command
        BY <2>0, <4>1, Zenon DEF ExecutionJustified, Execution
      <4> QED
        BY <2>2, <3>1, <4>2, <4>3, AcknowledgedEffect, Zenon
    <3>2. RejectionResult(Decide(x.cmd).error) \in Results
      BY RejectionResultType, Zenon
    <3> QED
      BY <1>0, <2>0, <2>2, <3>1, <3>2, SettleStepJustified, Zenon
  <2>3. CASE executions' = executions \ {x} /\ Settle(x, "Retry", outbox)
    BY <1>0, <2>0, <2>3, SettleStepJustified, Zenon DEF Results
  <2> QED
    BY <1>9, <2>1, <2>2, <2>3, Zenon DEF Conflict
<1>10. ASSUME NEW x \in executions, Fail(x)
       PROVE  WorkJustified'
  BY <1>0, <1>10, SettleStepJustified, Zenon DEF Fail, Results
<1>11. ASSUME NEW x \in executions, TimeOut(x)
       PROVE  WorkJustified'
  <2>1. ExecutionJustified([x EXCEPT !.caller = Nobody])
    BY <1>0, DetachedJustified, Zenon DEF ExecutionOK
  <2>2. \A y \in executions' : ExecutionJustified(y)
    BY <1>0, <1>11, <2>1, Zenon DEF TimeOut, Replace
  <2> QED
    BY <1>11, <2>2, SettleStepJustified, Zenon DEF TimeOut, Results
<1>12. ASSUME NEW row \in outbox, RecoverExpired(row)
       PROVE  WorkJustified'
  <2> DEFINE new == Settled(row, "Retry")
  <2>1. new.task = row.task /\ new.status # "completed"
    BY <1>0, RowSteps, Zenon DEF Results
  <2> HIDE DEF new
  <2>2. RowJustified(new)
    BY <1>0, <2>1, SameTaskJustified, Zenon
  <2>3. \A x \in executions : ExecutionJustified([x EXCEPT !.caller = Nobody])
    BY <1>0, DetachedJustified, Zenon DEF ExecutionOK
  <2>4. \A x \in executions' : ExecutionJustified(x)
    BY <1>0, <1>12, <2>3, Zenon DEF RecoverExpired
  <2>5. outbox' = Replace(outbox, row, new) /\ UNCHANGED <<reservation, version, account>>
    BY <1>12, Zenon DEF RecoverExpired, new
  <2> QED
    BY <1>0, <2>1, <2>2, <2>4, <2>5, JustifiedWork, Zenon DEF Replace
<1>13. ASSUME NEW row \in outbox, RequeueFailed(row)
       PROVE  WorkJustified'
  <2> DEFINE new == [row EXCEPT !.status = "pending", !.attempts = 0]
  <2>1. new.task = row.task /\ new.status # "completed"
    BY <1>0, Zenon DEF RowOK, Row
  <2>2. outbox' = Replace(outbox, row, new) /\ UNCHANGED <<reservation, version, account, executions>>
    BY <1>13, Zenon DEF RequeueFailed
  <2> HIDE DEF new
  <2>3. RowJustified(new)
    BY <1>0, <2>1, SameTaskJustified
  <2> QED
    BY <1>0, <2>1, <2>2, <2>3, JustifiedWork, Zenon DEF Replace
<1>14. CASE UNCHANGED vars
  BY <1>0, <1>14, JustifiedWork, Zenon DEF vars
<1> QED
  BY <1>1, <1>2, <1>3, <1>4, <1>5, <1>6, <1>7, <1>8, <1>9, <1>10, <1>11, <1>12, <1>13, <1>14, Zenon
     DEF Next, Http, Deliver, Finish, Disturb, Recover, Requeue

(* In every reachable state each stored task and each command in flight is *)
(* justified by the aggregates: the inductive invariant behind the         *)
(* theorems below.                                                         *)
THEOREM WorkIsJustified == Spec => []WorkJustified
<1> QED
  BY TypeOKInit, TypeOKStep, WorkJustifiedInit, WorkJustifiedStep, PTL DEF Spec

(* An account exists only as its email's reservation accepted it, whatever *)
(* the redeliveries, conflicts, lost replies and id collisions.            *)
THEOREM AccountsFollowAcceptance == Spec => []AccountFollowsAcceptance
<1>1. WorkJustified => AccountFollowsAcceptance
  BY Zenon DEF WorkJustified
<1> QED
  BY <1>1, WorkIsJustified, PTL

(* A reservation that reports its account created agrees with the account. *)
THEOREM CompletionsMatchAccounts == Spec => []CompletionMatchesAccount
<1>1. WorkJustified => CompletionMatchesAccount
  BY Zenon DEF WorkJustified
<1> QED
  BY <1>1, WorkIsJustified, PTL

(* An open registration never loses its last unfinished task: the creation *)
(* task of the acceptance is stored, and if it was acknowledged then its   *)
(* account exists and the account's completion task is stored, which is    *)
(* acknowledged only once the reservation is complete.                     *)
THEOREM OpenRegistrationsHaveWork == Spec => []OpenRegistrationHasWork
<1>1. TypeOK /\ WorkJustified => OpenRegistrationHasWork
  <2> SUFFICES ASSUME TypeOK, WorkJustified, NEW e \in Emails,
                      reservation[e].phase = "CreatingAccount"
               PROVE  \E row \in outbox :
                /\ row.task.kind \in {"CreateAccount", "RecordAccountCreated"}
                /\ row.task.email = e /\ row.task.account_id = reservation[e].account_id
                /\ row.status # "completed"
    BY Zenon DEF OpenRegistrationHasWork
  <2> DEFINE id == reservation[e].account_id
  <2>1. PICK row \in outbox : row.task = CreateAccountTask(e, id, reservation[e].accepted_profile)
    BY Zenon DEF WorkJustified, TasksPublished, ProfileAccepted
  <2>2. /\ row.task.kind = "CreateAccount" /\ row.task.email = e /\ row.task.account_id = id
        /\ RowJustified(row) /\ id \in AccountIds
    BY <2>1, TypeOKRows DEF CreateAccountTask, WorkJustified, RowOK, Row, Task
  <2>3. CASE row.status = "completed"
    <3>1. account[id].created /\ account[id].email = e
      BY <2>2, <2>3, Zenon DEF RowJustified
    <3>2. PICK done \in outbox : done.task = RecordAccountCreatedTask(e, id, account[id].profile,
                                                                account[id].created_at)
      BY <2>2, <3>1 DEF WorkJustified, TasksPublished
    <3>3. /\ done.task.kind = "RecordAccountCreated" /\ done.task.email = e
          /\ done.task.account_id = id
      BY <3>2 DEF RecordAccountCreatedTask
    <3>4. done.status # "completed"
      BY <3>3, Zenon DEF WorkJustified, RowJustified
    <3> QED
      BY <3>3, <3>4, Zenon
  <2> QED
    BY <2>2, <2>3, Zenon
<1> QED
  BY <1>1, TypeCorrect, WorkIsJustified, PTL

(* A completion task never meets a reservation it does not fit, at any     *)
(* number of deliveries.                                                   *)
THEOREM CompletionTasksNeverMismatch == Spec => []CompletionTaskNeverMismatches
<1>1. TypeOK /\ WorkJustified => CompletionTaskNeverMismatches
  <2> SUFFICES ASSUME TypeOK, WorkJustified, NEW row \in outbox,
                      row.task.kind = "RecordAccountCreated", NEW d,
                      d = HandleRecordAccountCreated(reservation[row.task.email],
                             row.task.account_id, row.task.profile, row.task.created_at)
               PROVE  d.accepted \/ d.error = "AccountCreationAlreadyCompleted"
    BY Zenon DEF CompletionTaskNeverMismatches
  <2> DEFINE t == row.task
             p == reservation[t.email]
  <2>1. t.email \in Emails /\ t.account_id \in AccountIds /\ RowJustified(row)
    BY TypeOKRows, Zenon DEF RowOK, Row, Task, WorkJustified
  <2>2. account[t.account_id] = CreatedAccount(t.account_id, t.email, t.profile, t.created_at)
    BY <2>1, Zenon DEF RowJustified
  <2>3. Accepted(t.email, t.account_id, t.profile)
    BY <2>1, <2>2, CreatedIsCreated DEF WorkJustified, AccountFollowsAcceptance
  <2>4. p.phase = "AccountCreated" => p.created_at = t.created_at
    BY <2>1, <2>2, <2>3, CreatedIsCreated DEF WorkJustified, CompletionMatchesAccount, Accepted
  <2>5. p.phase \in {"CreatingAccount", "AccountCreated"}
    BY <2>3, Zenon DEF Accepted, ProfileAccepted
  <2>6. CASE p.phase = "CreatingAccount"
    BY <2>3, <2>6, Zenon DEF HandleRecordAccountCreated, Accept, Accepted, ProfileAccepted
  <2>7. CASE p.phase = "AccountCreated"
    BY <2>3, <2>4, <2>7, Zenon DEF HandleRecordAccountCreated, Reject, Accepted, ProfileAccepted
  <2> QED
    BY <2>5, <2>6, <2>7, Zenon
<1> QED
  BY <1>1, TypeCorrect, WorkIsJustified, PTL

----------------------------------------------------------------------------
(* What a commit may make of the phase it was decided in. *)
Asks(x, p, q) ==
    /\ x.cmd.type \in {"ReserveEmail", "RequestVerificationCode"} /\ ~ProfileAccepted(p)
    /\ p.phase = "Absent" \/ p.account_id # x.cmd.account_id
    /\ q.phase = "AwaitingCode" /\ q.account_id = x.cmd.account_id

Verifies(x, p, q) ==
    /\ x.cmd.type = "VerifyEmail" /\ p.phase = "AwaitingCode" /\ p.account_id = x.cmd.account_id
    /\ q = AwaitingProfile(x.cmd.account_id, x.cmd.token_digest)

Submits(x, p, q) ==
    /\ x.cmd.type = "SubmitRegistrationProfile" /\ p.phase = "AwaitingProfile"
    /\ p.account_id = x.cmd.account_id /\ p.token_digest = x.cmd.token_digest
    /\ ProfileError(x.cmd.profile) = "none"
    /\ q = CreatingAccount(x.cmd.account_id, x.cmd.token_digest, x.cmd.profile)

Records(x, p, q) ==
    /\ x.cmd.type = "RecordAccountCreated" /\ p.phase = "CreatingAccount"
    /\ q = AccountCreated(p.account_id, p.consumed_token_digest, p.accepted_profile, x.cmd.created_at)

LEMMA CommitDetail ==
    ASSUME TypeOK, WorkJustified, NEW x \in executions, ~OnAccount(x.cmd),
           x.base = Version(x.cmd), NEW p, p = reservation[x.cmd.email],
           NEW q, q = Committed(p, x.event, x.base + 1), q # Panicked
    PROVE  Asks(x, p, q) \/ Verifies(x, p, q) \/ Submits(x, p, q) \/ Records(x, p, q)
<1>1. ExecutionJustified(x) /\ ExecutionOK(x)
  BY TypeOKRows, Zenon DEF WorkJustified
<1>2. Decide(x.cmd).accepted /\ x.event = Decide(x.cmd).event
  BY <1>1, Zenon DEF ExecutionJustified
<1>3. x.cmd \in Command /\ p \in Phase
  BY <1>1, Zenon DEF ExecutionOK, Execution, Command, TypeOK
<1>4. CASE x.cmd.type = "RecordAccountCreated"
  BY <1>4, CommitShape, Zenon DEF Records
<1>5. CASE x.cmd.type = "SubmitRegistrationProfile"
  <2>1. Decide(x.cmd) = HandleSubmitProfile(p, x.cmd.account_id, x.cmd.token_digest, x.cmd.profile)
    BY <1>5, Zenon DEF Decide
  <2>2. TrimmedProfile(x.cmd.profile) = x.cmd.profile
    BY <1>1, <1>5, Zenon DEF ExecutionJustified
  <2>3. /\ p.account_id = x.cmd.account_id /\ p.token_digest = x.cmd.token_digest
        /\ ProfileError(TrimmedProfile(x.cmd.profile)) = "none"
    <3>1. HandleSubmitProfile(p, x.cmd.account_id, x.cmd.token_digest, x.cmd.profile).accepted
      BY <1>2, <2>1, Zenon
    <3> QED
      BY <1>3, <3>1, PhaseNames, Zenon DEF HandleSubmitProfile, Accept, Reject, ProfileAccepted
  <2>4. ProfileError(x.cmd.profile) = "none"
    BY <2>2, <2>3, Zenon
  <2> QED
    BY <1>5, <2>3, <2>4, CommitShape, Zenon DEF Submits
<1>6. CASE x.cmd.type = "VerifyEmail"
  <2>1. Decide(x.cmd) = HandleVerify(p, x.cmd.account_id, x.cmd.code, x.cmd.token_digest)
    BY <1>6, Zenon DEF Decide
  <2>2. /\ p.phase = "AwaitingCode" /\ p.account_id = x.cmd.account_id
        /\ x.event = [type |-> "EmailVerified", account_id |-> x.cmd.account_id,
                      token_digest |-> x.cmd.token_digest]
    BY <1>2, <1>3, <2>1, VerifyAccepted
  <2>3. \A r : Apply(r, x.event) = AwaitingProfile(x.cmd.account_id, x.cmd.token_digest)
    BY <2>2 DEF Apply
  <2> QED
    BY <1>6, <2>2, <2>3 DEF Committed, Verifies
<1>7. CASE x.cmd.type \in {"ReserveEmail", "RequestVerificationCode"}
  <2>1. /\ x.event.type \in {"EmailReserved", "VerificationCodeRequested", "VerificationRestarted"}
        /\ x.event.account_id = x.cmd.account_id
        /\ p.phase = "Absent" \/ p.account_id # x.cmd.account_id
    <3>1. \/ Decide(x.cmd) = HandleReserve(p, x.cmd.account_id, x.cmd.verification_code)
          \/ Decide(x.cmd) = HandleRequestVerificationCode(p, x.cmd.account_id,
                                                           x.cmd.verification_code)
      BY <1>7, Zenon DEF Decide
    <3> QED
      BY <1>2, <1>3, <3>1, PhaseNames DEF HandleReserve, HandleRequestVerificationCode, Accept, Reject
  <2>2. \A r : Apply(r, x.event).phase = "AwaitingCode" /\ Apply(r, x.event).account_id = x.cmd.account_id
    BY <2>1, Zenon DEF Apply, AwaitingCode
  <2> QED
    BY <1>7, <2>1, <2>2, CommitShape, Zenon DEF Committed, Asks
<1> QED
  BY <1>3, <1>4, <1>5, <1>6, <1>7, Zenon DEF Command, OnAccount

(* Only a commit changes an aggregate, and only its own. *)
LEMMA AggregateSteps ==
    ASSUME [Next]_vars
    PROVE  \/ UNCHANGED <<reservation, account>>
           \/ \E x \in executions : CommitReservation(x) \/ CommitAccount(x)
<1> DEFINE Kept == UNCHANGED <<reservation, account>>
<1>1. Http => Kept
  <2>1. ASSUME NEW e, NEW id, NEW code, ReserveEmail(e, id, code) PROVE Kept
    BY <2>1, Zenon DEF ReserveEmail
  <2>2. ASSUME NEW e, NEW id, NEW code, RequestNewVerificationCode(e, id, code) PROVE Kept
    BY <2>2, Zenon DEF RequestNewVerificationCode
  <2>3. ASSUME NEW e, NEW id, NEW code, NEW token, ConfirmEmail(e, id, code, token) PROVE Kept
    BY <2>3, Zenon DEF ConfirmEmail
  <2>4. ASSUME NEW e, NEW id, NEW token, NEW s, NEW now, SubmitProfile(e, id, token, s, now) PROVE Kept
    BY <2>4, Zenon DEF SubmitProfile
  <2> QED
    BY <2>1, <2>2, <2>3, <2>4, Zenon DEF Http
<1>2. Deliver => Kept
  <2>1. ASSUME NEW row, DeliverSendVerificationCode(row) PROVE Kept
    BY <2>1, Zenon DEF DeliverSendVerificationCode
  <2>2. ASSUME NEW row, NEW now, DeliverCreateAccount(row, now) PROVE Kept
    BY <2>2, Zenon DEF DeliverCreateAccount, Continue
  <2>3. ASSUME NEW row, DeliverRecordAccountCreated(row) PROVE Kept
    BY <2>3, Zenon DEF DeliverRecordAccountCreated, Continue
  <2> QED
    BY <2>1, <2>2, <2>3, Zenon DEF Deliver
<1>3. Disturb \/ Recover \/ Requeue => Kept
  BY Zenon DEF Disturb, Recover, Requeue, Fail, TimeOut, RecoverExpired, RequeueFailed
<1>4. ASSUME NEW x, ApplyPanics(x) \/ Conflict(x) PROVE Kept
  BY <1>4, Zenon DEF ApplyPanics, Conflict
<1>5. UNCHANGED vars => Kept
  BY Zenon DEF vars
<1> QED
  BY <1>1, <1>2, <1>3, <1>4, <1>5, Zenon DEF Next, Finish

LEMMA ReservationSteps ==
    ASSUME [Next]_vars
    PROVE  \/ UNCHANGED reservation
           \/ \E x \in executions : CommitReservation(x)
<1>1. ASSUME NEW x, CommitAccount(x) PROVE UNCHANGED reservation
  BY <1>1, Zenon DEF CommitAccount
<1> QED
  BY <1>1, AggregateSteps, Zenon

(* After acceptance the id, the token and the profile never change. *)
THEOREM AcceptancesAreFinal == Spec => AcceptanceIsFinal
<1> DEFINE Final(e) ==
        ProfileAccepted(reservation[e]) =>
            /\ ProfileAccepted(reservation'[e])
            /\ reservation'[e].account_id = reservation[e].account_id
            /\ reservation'[e].consumed_token_digest = reservation[e].consumed_token_digest
            /\ reservation'[e].accepted_profile = reservation[e].accepted_profile
            /\ reservation[e].phase = "AccountCreated" => reservation'[e] = reservation[e]
<1>1. ASSUME TypeOK, WorkJustified, [Next]_vars, NEW e \in Emails PROVE Final(e)
  <2>1. CASE UNCHANGED reservation
    BY <2>1, Zenon
  <2>2. ASSUME NEW x \in executions, CommitReservation(x) PROVE Final(e)
    <3> DEFINE p == reservation[x.cmd.email]
               q == Committed(p, x.event, x.base + 1)
    <3>1. /\ ~OnAccount(x.cmd) /\ x.base = Version(x.cmd) /\ q # Panicked
          /\ reservation' = [reservation EXCEPT ![x.cmd.email] = q]
      BY <2>2, Zenon DEF CommitReservation
    <3>2. ProfileAccepted(p) =>
              /\ p.phase = "CreatingAccount"
              /\ q = AccountCreated(p.account_id, p.consumed_token_digest, p.accepted_profile, x.cmd.created_at)
      <4>1. Asks(x, p, q) \/ Verifies(x, p, q) \/ Submits(x, p, q) \/ Records(x, p, q)
        BY <1>1, <3>1, CommitDetail, Zenon
      <4> QED
        BY <4>1, Zenon DEF Asks, Verifies, Submits, Records, ProfileAccepted
    <3> HIDE DEF q
    <3>3. e # x.cmd.email => reservation'[e] = reservation[e]
      BY <3>1
    <3>4. e = x.cmd.email => reservation'[e] = q
      BY <1>1, <3>1, Zenon DEF TypeOK
    <3> QED
      BY <3>2, <3>3, <3>4 DEF ProfileAccepted, AccountCreated
  <2> QED
    BY <1>1, <2>1, <2>2, ReservationSteps, Zenon
<1>2. TypeOK /\ WorkJustified /\ [Next]_vars => [\A e \in Emails : Final(e)]_vars
  BY <1>1, Zenon
<1> QED
  BY <1>2, TypeCorrect, WorkIsJustified, PTL DEF Spec, AcceptanceIsFinal

----------------------------------------------------------------------------
(* Account ids.  An id is pending while the command that brings it in is   *)
(* executing, and used once that command has committed.                    *)

BringsId(x) == x.cmd.type \in {"ReserveEmail", "RequestVerificationCode"}

Used(id) ==
    /\ id \in issued
    /\ \A x \in executions : BringsId(x) => x.cmd.account_id # id

ExecutionIds(x) ==
    /\ BringsId(x) => x.cmd.account_id \in issued /\ x.task.account_id = x.cmd.account_id
    /\ x.cmd.type = "VerifyEmail" => x.task = NoTask
    /\ x.caller.kind = "Confirmation" =>
          x.cmd.type = "VerifyEmail" /\ x.cmd.token_digest = Digest(x.caller.token)

(* The inductive invariant when the generator never repeats an id: one     *)
(* command brings an id in, and reservations, rows and tokens know it only *)
(* after that command has committed, each reservation its own.             *)
IdsUsedOnce ==
    /\ \A x \in executions : ExecutionIds(x)
    /\ \A x, y \in executions :
          BringsId(x) /\ BringsId(y) /\ x.cmd.account_id = y.cmd.account_id => x = y
    /\ \A e \in Emails : reservation[e].phase # "Absent" => Used(reservation[e].account_id)
    /\ \A e, f \in Emails :
          reservation[e].phase # "Absent" /\ reservation[f].phase # "Absent"
          /\ reservation[e].account_id = reservation[f].account_id => e = f
    /\ \A row \in outbox : Used(row.task.account_id)
    /\ \A g \in granted : Used(g.account_id)
    /\ \A e \in Emails :
          ProfileAccepted(reservation[e]) => ProfileError(reservation[e].accepted_profile) = "none"
    /\ GrantedTokenIsCurrent

(* What each command that commits does to the id, the token and the        *)
(* profile: phase p becomes q.                                             *)
CommitEffect(x, p, q) ==
    /\ \/ BringsId(x) \/ x.cmd.type = "VerifyEmail"
       \/ x.cmd.type = "SubmitRegistrationProfile" \/ x.cmd.type = "RecordAccountCreated"
    /\ BringsId(x) => q.phase = "AwaitingCode" /\ q.account_id = x.cmd.account_id
    /\ x.cmd.type = "VerifyEmail" =>
          /\ p.phase = "AwaitingCode" /\ p.account_id = x.cmd.account_id
          /\ q.phase = "AwaitingProfile" /\ q.account_id = x.cmd.account_id
          /\ q.token_digest = x.cmd.token_digest
    /\ x.cmd.type = "SubmitRegistrationProfile" =>
          /\ p.phase = "AwaitingProfile" /\ p.account_id = x.cmd.account_id
          /\ q.phase = "CreatingAccount" /\ q.account_id = x.cmd.account_id
          /\ q.consumed_token_digest = p.token_digest
          /\ ProfileError(q.accepted_profile) = "none"
    /\ x.cmd.type = "RecordAccountCreated" =>
          /\ p.phase = "CreatingAccount" /\ q.phase = "AccountCreated"
          /\ q.account_id = p.account_id
          /\ q.consumed_token_digest = p.consumed_token_digest
          /\ q.accepted_profile = p.accepted_profile

LEMMA CommitFields ==
    ASSUME TypeOK, WorkJustified, NEW x \in executions, ~OnAccount(x.cmd),
           x.base = Version(x.cmd), NEW p, p = reservation[x.cmd.email],
           NEW q, q = Committed(p, x.event, x.base + 1), q # Panicked
    PROVE  CommitEffect(x, p, q)
<1>1. Asks(x, p, q) \/ Verifies(x, p, q) \/ Submits(x, p, q) \/ Records(x, p, q)
  BY CommitDetail, Zenon
<1>2. CASE Asks(x, p, q)
  BY <1>2, Zenon DEF Asks, CommitEffect, BringsId
<1>3. CASE Verifies(x, p, q)
  BY <1>3 DEF Verifies, CommitEffect, BringsId, AwaitingProfile
<1>4. CASE Submits(x, p, q)
  BY <1>4 DEF Submits, CommitEffect, BringsId, CreatingAccount
<1>5. CASE Records(x, p, q)
  BY <1>5 DEF Records, CommitEffect, BringsId, AccountCreated
<1> QED
  BY <1>1, <1>2, <1>3, <1>4, <1>5, Zenon

(* Steps that leave the reservations and the tokens alone. *)
LEMMA IdsOfWork ==
    ASSUME IdsUsedOnce, UNCHANGED <<reservation, granted>>,
           \A x \in executions' : ExecutionIds(x)',
           \A x, y \in executions' :
              BringsId(x) /\ BringsId(y) /\ x.cmd.account_id = y.cmd.account_id => x = y,
           \A id : Used(id) => Used(id)',
           \A q \in outbox' : Used(q.task.account_id)'
    PROVE  IdsUsedOnce'
<1>1. GrantedTokenIsCurrent'
  BY Zenon DEF IdsUsedOnce, GrantedTokenIsCurrent
<1> QED
  BY <1>1, Zenon DEF IdsUsedOnce, BringsId

(* Ending executions gives up no id that was used. *)
LEMMA IdsOfRemaining ==
    ASSUME IdsUsedOnce, executions' \subseteq executions, issued' = issued
    PROVE  /\ \A x \in executions' : ExecutionIds(x)'
           /\ \A x, y \in executions' :
                 BringsId(x) /\ BringsId(y) /\ x.cmd.account_id = y.cmd.account_id => x = y
           /\ \A id : Used(id) => Used(id)'
BY Zenon DEF IdsUsedOnce, ExecutionIds, BringsId, Used

(* Retrying or detaching executions keeps their commands and their tasks. *)
LEMMA IdsOfRetried ==
    ASSUME IdsUsedOnce, issued' = issued, NEW f, executions' = {f[x] : x \in executions},
           \A x \in executions : /\ f[x].cmd = x.cmd /\ f[x].task = x.task
                                 /\ f[x].caller \in {x.caller, Nobody}
    PROVE  /\ \A x \in executions' : ExecutionIds(x)'
           /\ \A x, y \in executions' :
                 BringsId(x) /\ BringsId(y) /\ x.cmd.account_id = y.cmd.account_id => x = y
           /\ \A id : Used(id) => Used(id)'
<1>1. Nobody.kind # "Confirmation"
  BY Zenon DEF Nobody
<1>2. ASSUME NEW x \in executions PROVE ExecutionIds(f[x])'
  <2>1. f[x].caller.kind = "Confirmation" => f[x].caller = x.caller
    BY <1>1, Zenon
  <2> QED
    BY <2>1, Zenon DEF IdsUsedOnce, ExecutionIds, BringsId
<1>3. ASSUME NEW x \in executions', NEW y \in executions', BringsId(x), BringsId(y),
             x.cmd.account_id = y.cmd.account_id
      PROVE  x = y
  BY <1>3 DEF IdsUsedOnce, BringsId
<1>4. \A id : Used(id) => Used(id)'
  BY DEF Used, BringsId
<1> QED
  BY <1>2, <1>3, <1>4, Zenon

(* A command started for an id already known, or with a fresh one. *)
LEMMA IdsOfStarted ==
    ASSUME IdsUsedOnce, NEW cmd, NEW task, NEW caller, Begin(cmd, task, caller),
           \/ /\ cmd.type \in {"ReserveEmail", "RequestVerificationCode"}
              /\ cmd.account_id \notin issued /\ issued' = issued \cup {cmd.account_id}
              /\ task.account_id = cmd.account_id /\ caller.kind # "Confirmation"
           \/ /\ cmd.type \notin {"ReserveEmail", "RequestVerificationCode"} /\ issued' = issued
              /\ cmd.type = "VerifyEmail" => task = NoTask
              /\ caller.kind = "Confirmation" =>
                    cmd.type = "VerifyEmail" /\ cmd.token_digest = Digest(caller.token)
    PROVE  /\ \A x \in executions' : ExecutionIds(x)'
           /\ \A x, y \in executions' :
                 BringsId(x) /\ BringsId(y) /\ x.cmd.account_id = y.cmd.account_id => x = y
           /\ \A id : Used(id) => Used(id)'
<1>1. PICK new : /\ executions' = executions \cup {new}
                 /\ new.cmd = cmd /\ new.task = task /\ new.caller = caller
  <2> DEFINE x == [cmd |-> cmd, task |-> task, caller |-> caller, base |-> Version(cmd),
                   event |-> Decide(cmd).event, attempt |-> 1]
  <2>1. executions' = executions \cup {x} /\ x.cmd = cmd /\ x.task = task /\ x.caller = caller
    BY Zenon DEF Begin
  <2> HIDE DEF x
  <2> QED
    BY <2>1, Zenon
<1>2. ExecutionIds(new)'
  BY <1>1, Zenon DEF ExecutionIds, BringsId
<1>3. \A x \in executions : ExecutionIds(x)'
  BY Zenon DEF IdsUsedOnce, ExecutionIds, BringsId
<1>4. \A x \in executions : BringsId(x) /\ BringsId(new) => x.cmd.account_id # new.cmd.account_id
  BY <1>1, Zenon DEF IdsUsedOnce, ExecutionIds, BringsId
<1>5. \A id : Used(id) => Used(id)'
  BY <1>1, Zenon DEF Used, BringsId
<1> QED
  BY <1>1, <1>2, <1>3, <1>4, <1>5 DEF IdsUsedOnce

(* Rows after a settlement, or the replacement of a row, keep their tasks. *)
LEMMA IdsOfRows ==
    ASSUME IdsUsedOnce, \A id : Used(id) => Used(id)',
           \A q \in outbox' : \E row \in outbox : q.task = row.task
    PROVE  \A q \in outbox' : Used(q.task.account_id)'
BY Zenon DEF IdsUsedOnce

(* The part of a delivery that starts or answers a continuation. *)
LEMMA IdsOfContinuation ==
    ASSUME TypeOK, IdsUsedOnce, NEW row \in outbox, row.status = "pending", NEW cmd, NEW task,
           cmd.type \in {"CreateAccount", "RecordAccountCreated"}, Continue(row, cmd, task)
    PROVE  IdsUsedOnce'
<1>1. \A q \in outbox' : \E r \in outbox : q.task = r.task
  <2>1. PICK new : /\ outbox' = Replace(outbox, row, new)
                   /\ new = Claimed(row)
                         \/ \E result \in Results : new = Settled(Claimed(row), result)
    BY RejectionResultType, Zenon DEF Continue
  <2>2. new.task = row.task
    BY <2>1, RowSteps, TypeOKRows, Zenon
  <2> QED
    BY <2>1, <2>2, Zenon DEF Replace
<1>2. /\ \A x \in executions' : ExecutionIds(x)'
      /\ \A x, y \in executions' :
            BringsId(x) /\ BringsId(y) /\ x.cmd.account_id = y.cmd.account_id => x = y
      /\ \A id : Used(id) => Used(id)'
  <2>1. issued' = issued
    BY Zenon DEF Continue
  <2>2. CASE Begin(cmd, task, Delivery(row.task))
    <3>1. Delivery(row.task).kind # "Confirmation"
      BY Zenon DEF Delivery
    <3> QED
      BY <2>1, <2>2, <3>1, IdsOfStarted, Zenon
  <2>3. CASE UNCHANGED executions
    BY <2>1, <2>3, IdsOfRemaining, Zenon
  <2> QED
    BY <2>2, <2>3, Zenon DEF Continue
<1> QED
  BY <1>1, <1>2, IdsOfRows, IdsOfWork, Zenon DEF Continue

(* Committing an event of a reservation.  The id its command brought in    *)
(* becomes used; any other command goes on with the id the reservation     *)
(* has.                                                                    *)
LEMMA IdsOfCommit ==
    ASSUME TypeOK, WorkJustified, IdsUsedOnce, NEW x \in executions, CommitReservation(x)
    PROVE  IdsUsedOnce'
<1> DEFINE e == x.cmd.email
           Verify == x.cmd.type = "VerifyEmail"
           Submit == x.cmd.type = "SubmitRegistrationProfile"
           Record == x.cmd.type = "RecordAccountCreated"
<1>0. PICK p, q : p = reservation[e] /\ q = Committed(p, x.event, x.base + 1)
  BY Zenon
<1>1. /\ ~OnAccount(x.cmd) /\ x.base = Version(x.cmd) /\ q # Panicked
      /\ reservation' = [reservation EXCEPT ![e] = q] /\ issued' = issued
      /\ executions' = executions \ {x} /\ Answer(x, Published(x.task, x.base + 1))
  BY <1>0, Zenon DEF CommitReservation
<1>2. /\ x \in Execution /\ e \in Emails /\ ExecutionJustified(x) /\ ExecutionIds(x)
  BY TypeOKRows, Zenon DEF ExecutionOK, Execution, Command, WorkJustified, IdsUsedOnce
<1>3. /\ BringsId(x) \/ Verify \/ Submit \/ Record
      /\ BringsId(x) => q.phase = "AwaitingCode" /\ q.account_id = x.cmd.account_id
      /\ Verify => /\ p.phase = "AwaitingCode" /\ p.account_id = x.cmd.account_id
                   /\ q.phase = "AwaitingProfile" /\ q.account_id = x.cmd.account_id
                   /\ q.token_digest = x.cmd.token_digest
      /\ Submit => /\ p.phase = "AwaitingProfile" /\ p.account_id = x.cmd.account_id
                   /\ q.phase = "CreatingAccount" /\ q.account_id = x.cmd.account_id
                   /\ q.consumed_token_digest = p.token_digest
                   /\ ProfileError(q.accepted_profile) = "none"
      /\ Record => /\ p.phase = "CreatingAccount" /\ q.phase = "AccountCreated"
                   /\ q.account_id = p.account_id
                   /\ q.consumed_token_digest = p.consumed_token_digest
                   /\ q.accepted_profile = p.accepted_profile
  <2>1. CommitEffect(x, p, q)
    BY <1>0, <1>1, CommitFields, Zenon
  <2> QED
    BY <2>1, Zenon DEF CommitEffect
<1>4. /\ reservation'[e] = q /\ reservation[e] = p
      /\ \A f \in Emails : f # e => reservation'[f] = reservation[f]
  BY <1>0, <1>1, <1>2, Zenon DEF TypeOK
<1>5. /\ \A y \in executions' : ExecutionIds(y)'
      /\ \A y, z \in executions' :
            BringsId(y) /\ BringsId(z) /\ y.cmd.account_id = z.cmd.account_id => y = z
      /\ \A id : Used(id) => Used(id)'
  BY <1>1, IdsOfRemaining, Zenon
<1>6. BringsId(x) \/ (p.phase # "Absent" /\ q.account_id = p.account_id)
  <2>1. CASE Verify \/ Submit
    BY <1>3, <2>1, Zenon
  <2>2. CASE Record
    BY <1>3, <2>2, Zenon
  <2> QED
    BY <1>3, <2>1, <2>2, Zenon
<1>7. BringsId(x) => ~Used(q.account_id)
  BY <1>3, Zenon DEF Used
<1>8. BringsId(x) => Used(q.account_id)'
  <2>1. BringsId(x) => x.cmd.account_id \in issued
    BY <1>2, Zenon DEF ExecutionIds
  <2>2. BringsId(x) => \A y \in executions \ {x} : BringsId(y) => y.cmd.account_id # x.cmd.account_id
    BY Zenon DEF IdsUsedOnce
  <2> QED
    BY <1>1, <1>3, <2>1, <2>2, Zenon DEF Used, BringsId
<1>9. Used(q.account_id)'
  <2>1. p.phase # "Absent" => Used(p.account_id)
    BY <1>0, <1>2, Zenon DEF IdsUsedOnce
  <2> QED
    BY <1>5, <1>6, <1>8, <2>1, Zenon
<1>10. \A f \in Emails : \A id :
          reservation'[f].phase # "Absent" /\ reservation'[f].account_id = id => Used(id)'
  <2>1. \A f \in Emails : reservation[f].phase # "Absent" => Used(reservation[f].account_id)
    BY Zenon DEF IdsUsedOnce
  <2> QED
    BY <1>4, <1>5, <1>9, <2>1, Zenon
<1>11. ASSUME NEW f \in Emails, f # e, reservation[f].phase # "Absent"
       PROVE  reservation[f].account_id # q.account_id
  <2>1. Used(reservation[f].account_id)
    BY <1>11, Zenon DEF IdsUsedOnce
  <2>2. CASE BringsId(x)
    BY <1>7, <2>1, <2>2, Zenon
  <2>3. CASE p.phase # "Absent" /\ q.account_id = p.account_id
    BY <1>2, <1>4, <1>11, <2>3, Zenon DEF IdsUsedOnce
  <2> QED
    BY <1>6, <2>2, <2>3, Zenon
<1>12. \A f, g \in Emails :
          reservation'[f].phase # "Absent" /\ reservation'[g].phase # "Absent"
          /\ reservation'[f].account_id = reservation'[g].account_id => f = g
  <2>1. \A f, g \in Emails :
          reservation[f].phase # "Absent" /\ reservation[g].phase # "Absent"
          /\ reservation[f].account_id = reservation[g].account_id => f = g
    BY Zenon DEF IdsUsedOnce
  <2> SUFFICES ASSUME NEW f \in Emails, NEW g \in Emails, f # g,
                      reservation'[f].phase # "Absent", reservation'[g].phase # "Absent"
               PROVE  reservation'[f].account_id # reservation'[g].account_id
    BY Zenon
  <2>2. CASE f = e
    BY <1>4, <1>11, <2>2, Zenon
  <2>3. CASE g = e
    BY <1>4, <1>11, <2>3, Zenon
  <2>4. CASE f # e /\ g # e
    BY <1>4, <2>1, <2>4, ZenonT(60)
  <2> QED
    BY <2>2, <2>3, <2>4, Zenon
<1>13. ASSUME NEW row \in outbox' PROVE Used(row.task.account_id)'
  <2>1. PICK old \in Published(x.task, x.base + 1) : row.task = old.task
    <3>1. \A r \in Published(x.task, x.base + 1) : RowOK(r)
      BY <1>2, PublishedType DEF Execution
    <3>2. PICK result \in Results : Settle(x, result, Published(x.task, x.base + 1))
      BY <1>1, AnswerSettles, Zenon DEF Results
    <3> QED
      BY <1>13, <3>1, <3>2, SettleShape
  <2>2. CASE old \in outbox
    BY <1>5, <2>1, <2>2, Zenon DEF IdsUsedOnce
  <2>3. CASE old.task = x.task /\ x.task # NoTask
    <3>1. BringsId(x) => x.task.account_id = q.account_id
      BY <1>2, <1>3, Zenon DEF ExecutionIds
    <3>2. ~Verify
      BY <1>2, <2>3, Zenon DEF ExecutionIds
    <3>3. Submit => x.task.account_id = q.account_id
      <4>1. Submit => x.task = CreateAccountTask(x.cmd.email, x.cmd.account_id, x.cmd.profile)
        BY <1>2, Zenon DEF ExecutionJustified
      <4> QED
        BY <1>3, <4>1 DEF CreateAccountTask
    <3>4. ~Record
      BY <1>2, <2>3, ZenonT(30) DEF ExecutionJustified
    <3> QED
      BY <1>3, <1>9, <2>1, <2>3, <3>1, <3>2, <3>3, <3>4, Zenon
  <2> QED
    BY <2>1, <2>2, <2>3, PublishedRows
<1>14. \A g \in granted' :
          \/ g \in granted
          \/ /\ x.cmd.type = "VerifyEmail" /\ g.email = e /\ g.account_id = x.cmd.account_id
             /\ x.cmd.token_digest = Digest(g.token)
  <2>1. \/ granted' = granted
        \/ /\ x.caller.kind = "Confirmation"
           /\ granted' = granted \cup {[email |-> e, account_id |-> x.cmd.account_id,
                                        token |-> x.caller.token]}
    BY <1>1, Zenon DEF Answer
  <2> QED
    BY <1>2, <2>1 DEF ExecutionIds
<1>15. \A g \in granted' : Used(g.account_id)'
  <2>1. \A g \in granted : Used(g.account_id)'
    BY <1>5, Zenon DEF IdsUsedOnce
  <2>2. Verify => Used(x.cmd.account_id)'
    BY <1>3, <1>9, Zenon
  <2> QED
    BY <1>14, <2>1, <2>2, Zenon
<1>16. \A f \in Emails :
          ProfileAccepted(reservation'[f]) => ProfileError(reservation'[f].accepted_profile) = "none"
  <2>1. \A f \in Emails :
          ProfileAccepted(reservation[f]) => ProfileError(reservation[f].accepted_profile) = "none"
    BY Zenon DEF IdsUsedOnce
  <2>2. ProfileAccepted(q) => ProfileError(q.accepted_profile) = "none"
    <3>1. BringsId(x) \/ Verify => ~ProfileAccepted(q)
      BY <1>3, Zenon DEF ProfileAccepted
    <3>2. Record => ProfileAccepted(p) /\ q.accepted_profile = p.accepted_profile
      BY <1>3, Zenon DEF ProfileAccepted
    <3>3. ProfileAccepted(p) => ProfileError(p.accepted_profile) = "none"
      BY <1>0, <1>2, <2>1, Zenon
    <3>4. Record => ProfileError(q.accepted_profile) = "none"
      BY <3>2, <3>3, Zenon
    <3> QED
      BY <1>3, <3>1, <3>4, Zenon
  <2> QED
    BY <1>4, <2>1, <2>2, Zenon
<1>17. GrantedTokenIsCurrent'
  <2> DEFINE Current(r, g) ==
                 IF ProfileAccepted(r) THEN r.consumed_token_digest = Digest(g.token)
                 ELSE r.phase = "AwaitingProfile" /\ r.token_digest = Digest(g.token)
  <2>1. ASSUME NEW g \in granted', g \notin granted
        PROVE  g.email = e /\ Current(q, g)
    <3>1. Verify /\ g.email = e /\ x.cmd.token_digest = Digest(g.token)
      BY <1>14, <2>1, Zenon
    <3>2. q.phase = "AwaitingProfile" /\ q.token_digest = Digest(g.token)
      BY <1>3, <3>1, Zenon
    <3>3. ~ProfileAccepted(q)
      BY <3>2, Zenon DEF ProfileAccepted
    <3> QED
      BY <3>1, <3>2, <3>3, Zenon
  <2>2. ASSUME NEW g \in granted, reservation[g.email].phase # "Absent",
               reservation[g.email].account_id = g.account_id
        PROVE  Current(reservation[g.email], g)
    BY <2>2, Zenon DEF IdsUsedOnce, GrantedTokenIsCurrent
  <2>3. ASSUME NEW g \in granted, g.email = e, q.account_id = g.account_id
        PROVE  Current(q, g)
    <3>1. Used(g.account_id)
      BY <2>3, Zenon DEF IdsUsedOnce
    <3>2. ~BringsId(x)
      BY <1>7, <2>3, <3>1, Zenon
    <3>3. Current(p, g)
      BY <1>4, <1>6, <2>2, <2>3, <3>2, Zenon
    <3>4. ~Verify
      <4>1. Verify => p.phase = "AwaitingCode"
        BY <1>3, Zenon
      <4> QED
        BY <3>3, <4>1, Zenon DEF ProfileAccepted
    <3>5. CASE Submit
      <4>1. p.token_digest = Digest(g.token)
        <5>1. p.phase = "AwaitingProfile"
          BY <1>3, <3>5, Zenon
        <5> QED
          BY <3>3, <5>1, Zenon DEF ProfileAccepted
      <4>2. ProfileAccepted(q)
        BY <1>3, <3>5, Zenon DEF ProfileAccepted
      <4> QED
        BY <1>3, <3>5, <4>1, <4>2, Zenon
    <3>6. CASE Record
      <4>1. ProfileAccepted(p) /\ ProfileAccepted(q)
        BY <1>3, <3>6, Zenon DEF ProfileAccepted
      <4> QED
        BY <1>3, <3>3, <3>6, <4>1, Zenon
    <3> QED
      BY <1>3, <3>2, <3>4, <3>5, <3>6, Zenon
  <2>4. ASSUME NEW g \in granted', reservation'[g.email].phase # "Absent",
               reservation'[g.email].account_id = g.account_id
        PROVE  Current(reservation'[g.email], g)
    <3>1. CASE g \notin granted
      BY <1>4, <2>1, <3>1, Zenon
    <3>2. CASE g \in granted /\ g.email = e
      BY <1>4, <2>3, <2>4, <3>2, Zenon
    <3>3. CASE g \in granted /\ g.email # e
      <4>1. g.email \in Emails
        BY <3>3, Zenon DEF TypeOK
      <4> QED
        BY <1>4, <2>2, <2>4, <3>3, <4>1, Zenon
    <3> QED
      BY <3>1, <3>2, <3>3, Zenon
  <2> QED
    BY <2>4, Zenon DEF GrantedTokenIsCurrent
<1> QED
  BY <1>5, <1>10, <1>12, <1>13, <1>15, <1>16, <1>17, ZenonT(60) DEF IdsUsedOnce, BringsId, Used

(* Creating an account publishes a task with the id its reservation has. *)
LEMMA IdsOfAccount ==
    ASSUME TypeOK, WorkJustified, IdsUsedOnce, NEW x \in executions, CommitAccount(x)
    PROVE  IdsUsedOnce'
<1>1. /\ x.cmd.type = "CreateAccount" /\ executions' = executions \ {x}
      /\ UNCHANGED <<reservation, issued>> /\ Answer(x, Published(x.task, x.base + 1))
  BY Zenon DEF CommitAccount, OnAccount
<1>2. x \in Execution /\ x.cmd.email \in Emails /\ ExecutionJustified(x) /\ ExecutionIds(x)
  BY TypeOKRows, Zenon DEF ExecutionOK, Execution, Command, WorkJustified, IdsUsedOnce
<1>3. granted' = granted
  BY <1>1, <1>2, Zenon DEF Answer, ExecutionIds
<1>4. /\ \A y \in executions' : ExecutionIds(y)'
      /\ \A y, z \in executions' :
            BringsId(y) /\ BringsId(z) /\ y.cmd.account_id = z.cmd.account_id => y = z
      /\ \A id : Used(id) => Used(id)'
  BY <1>1, IdsOfRemaining, Zenon
<1>5. Used(x.task.account_id)
  <2>1. x.task.account_id = x.cmd.account_id /\ Accepted(x.cmd.email, x.cmd.account_id, x.cmd.profile)
    BY <1>1, <1>2 DEF ExecutionJustified, RecordAccountCreatedTask
  <2>2. /\ reservation[x.cmd.email].phase # "Absent"
        /\ reservation[x.cmd.email].account_id = x.cmd.account_id
    BY <2>1, Zenon DEF Accepted, ProfileAccepted
  <2> QED
    BY <1>2, <2>1, <2>2, Zenon DEF IdsUsedOnce
<1>6. ASSUME NEW row \in outbox' PROVE Used(row.task.account_id)'
  <2>1. PICK old \in Published(x.task, x.base + 1) : row.task = old.task
    <3>1. \A r \in Published(x.task, x.base + 1) : RowOK(r)
      BY <1>2, PublishedType DEF Execution
    <3>2. PICK result \in Results : Settle(x, result, Published(x.task, x.base + 1))
      BY <1>1, AnswerSettles, Zenon DEF Results
    <3> QED
      BY <3>1, <3>2, SettleShape
  <2>2. old \in outbox \/ old.task = x.task
    BY PublishedRows
  <2> QED
    BY <1>4, <1>5, <2>1, <2>2, Zenon DEF IdsUsedOnce
<1> QED
  BY <1>1, <1>3, <1>4, <1>6, IdsOfWork, Zenon

(* An execution that ends without an effect. *)
LEMMA IdsOfEnded ==
    ASSUME TypeOK, IdsUsedOnce, NEW x, NEW result \in Results, Settle(x, result, outbox),
           executions' \subseteq executions, UNCHANGED <<reservation, issued, granted>>
    PROVE  IdsUsedOnce'
<1>1. \A q \in outbox' : \E row \in outbox : q.task = row.task
  BY TypeOKRows, SettleShape
<1> QED
  BY <1>1, IdsOfRemaining, IdsOfRows, IdsOfWork, Zenon

(* Every step keeps the ids apart. *)
LEMMA IdsUsedOnceStep ==
    ASSUME UniqueIds, TypeOK, WorkJustified, IdsUsedOnce, [Next]_vars
    PROVE  IdsUsedOnce'
<1>0. (\A row \in outbox : RowOK(row)) /\ (\A x \in executions : ExecutionOK(x))
  BY TypeOKRows, Zenon
<1>1. ASSUME NEW e \in Emails, NEW id \in AccountIds, NEW code \in Codes,
             ReserveEmail(e, id, code) \/ RequestNewVerificationCode(e, id, code)
      PROVE  IdsUsedOnce'
  <2>1. PICK cmd : /\ cmd.type \in {"ReserveEmail", "RequestVerificationCode"} /\ cmd.account_id = id
                   /\ Begin(cmd, SendVerificationCodeTask(e, id, code), Request)
    <3>1. CASE ReserveEmail(e, id, code)
      <4> DEFINE c == [type |-> "ReserveEmail", email |-> e, account_id |-> id,
                       verification_code |-> code]
      <4>1. c.type = "ReserveEmail" /\ c.account_id = id
            /\ Begin(c, SendVerificationCodeTask(e, id, code), Request)
        BY <3>1, Zenon DEF ReserveEmail
      <4> HIDE DEF c
      <4> QED
        BY <4>1, Zenon
    <3>2. CASE RequestNewVerificationCode(e, id, code)
      <4> DEFINE c == [type |-> "RequestVerificationCode", email |-> e, account_id |-> id,
                       verification_code |-> code]
      <4>1. c.type = "RequestVerificationCode" /\ c.account_id = id
            /\ Begin(c, SendVerificationCodeTask(e, id, code), Request)
        BY <3>2, Zenon DEF RequestNewVerificationCode
      <4> HIDE DEF c
      <4> QED
        BY <4>1, Zenon
    <3> QED
      BY <1>1, <3>1, <3>2, Zenon
  <2>2. /\ id \notin issued /\ issued' = issued \cup {id}
        /\ UNCHANGED <<reservation, outbox, granted>>
    BY <1>1, Zenon DEF ReserveEmail, RequestNewVerificationCode, NewAccountId
  <2>3. SendVerificationCodeTask(e, id, code).account_id = id /\ Request.kind # "Confirmation"
    BY Zenon DEF SendVerificationCodeTask, Request
  <2> QED
    BY <2>1, <2>2, <2>3, IdsOfStarted, IdsOfRows, IdsOfWork, Zenon
<1>2. ASSUME NEW e \in Emails, NEW id \in AccountIds, NEW code \in Codes, NEW token \in Tokens,
             ConfirmEmail(e, id, code, token)
      PROVE  IdsUsedOnce'
  <2> DEFINE cmd == [type |-> "VerifyEmail", email |-> e, account_id |-> id, code |-> code,
                     token_digest |-> Digest(token)]
  <2>1. /\ cmd.type = "VerifyEmail" /\ cmd.token_digest = Digest(token)
        /\ Confirmation(token).token = token /\ Begin(cmd, NoTask, Confirmation(token))
        /\ UNCHANGED <<reservation, outbox, issued, granted>>
    BY <1>2, Zenon DEF ConfirmEmail, Confirmation
  <2> HIDE DEF cmd
  <2> QED
    BY <2>1, IdsOfStarted, IdsOfRows, IdsOfWork, Zenon
<1>3. ASSUME NEW e \in Emails, NEW id \in AccountIds, NEW token \in Tokens,
             NEW sub \in Submissions, NEW t \in Instants, SubmitProfile(e, id, token, sub, t)
      PROVE  IdsUsedOnce'
  <2> DEFINE profile == RegistrationProfile(sub.first_name, sub.last_name, sub.date_of_birth,
                                            DateNaive(t))
             cmd == [type |-> "SubmitRegistrationProfile", email |-> e, account_id |-> id,
                     token_digest |-> Digest(token), profile |-> profile]
  <2>1. /\ cmd.type = "SubmitRegistrationProfile" /\ Request.kind # "Confirmation"
        /\ Begin(cmd, CreateAccountTask(e, id, profile), Request)
        /\ UNCHANGED <<reservation, outbox, issued, granted>>
    BY <1>3, Zenon DEF SubmitProfile, Request
  <2> HIDE DEF cmd, profile
  <2> QED
    BY <2>1, IdsOfStarted, IdsOfRows, IdsOfWork, Zenon
<1>4. ASSUME NEW row \in outbox,
             DeliverSendVerificationCode(row) \/ RequeueFailed(row)
      PROVE  IdsUsedOnce'
  <2>1. PICK new : /\ outbox' = Replace(outbox, row, new)
                   /\ new.task = row.task
    <3>1. CASE DeliverSendVerificationCode(row)
      <4>1. PICK new : /\ outbox' = Replace(outbox, row, new)
                       /\ \/ new = Claimed(row)
                          \/ \E result \in Results : new = Settled(Claimed(row), result)
        BY <3>1, Zenon DEF DeliverSendVerificationCode, Results
      <4>2. RowOK(row) /\ row.status = "pending"
        BY <1>0, <3>1, Zenon DEF DeliverSendVerificationCode
      <4>3. RowOK(Claimed(row)) /\ Claimed(row).task = row.task
        BY <4>2, RowSteps, Zenon
      <4>4. \A result \in Results : Settled(Claimed(row), result).task = row.task
        BY <4>3, RowSteps, Zenon
      <4> QED
        BY <4>1, <4>3, <4>4
    <3>2. CASE RequeueFailed(row)
      <4>1. [row EXCEPT !.status = "pending", !.attempts = 0].task = row.task
        BY <1>0, Zenon DEF RowOK, Row
      <4> QED
        BY <3>2, <4>1, Zenon DEF RequeueFailed
    <3> QED
      BY <1>4, <3>1, <3>2, Zenon
  <2>2. UNCHANGED <<reservation, executions, issued, granted>>
    BY <1>4, Zenon DEF DeliverSendVerificationCode, RequeueFailed
  <2>3. \A q \in outbox' : \E r \in outbox : q.task = r.task
    BY <2>1, Zenon DEF Replace
  <2> QED
    BY <2>2, <2>3, IdsOfRemaining, IdsOfRows, IdsOfWork, Zenon
<1>5. ASSUME NEW row \in outbox, NEW t \in Instants, DeliverCreateAccount(row, t)
      PROVE  IdsUsedOnce'
  <2> DEFINE cmd == [type |-> "CreateAccount", email |-> row.task.email,
                     account_id |-> row.task.account_id, profile |-> row.task.profile,
                     created_at |-> t]
  <2>1. /\ cmd.type = "CreateAccount" /\ row.status = "pending"
        /\ Continue(row, cmd, RecordAccountCreatedTask(row.task.email, row.task.account_id,
                                                       row.task.profile, t))
    BY <1>5, Zenon DEF DeliverCreateAccount
  <2> HIDE DEF cmd
  <2> QED
    BY <2>1, IdsOfContinuation
<1>6. ASSUME NEW row \in outbox, DeliverRecordAccountCreated(row)
      PROVE  IdsUsedOnce'
  <2> DEFINE cmd == [type |-> "RecordAccountCreated", email |-> row.task.email,
                     account_id |-> row.task.account_id, profile |-> row.task.profile,
                     created_at |-> row.task.created_at]
  <2>1. /\ cmd.type = "RecordAccountCreated" /\ row.status = "pending"
        /\ Continue(row, cmd, NoTask)
    BY <1>6, Zenon DEF DeliverRecordAccountCreated
  <2> HIDE DEF cmd
  <2> QED
    BY <2>1, IdsOfContinuation
<1>7. ASSUME NEW x \in executions, ApplyPanics(x)
      PROVE  IdsUsedOnce'
  <2>1. executions' \subseteq executions /\ UNCHANGED <<reservation, outbox, issued, granted>>
    BY <1>7, Zenon DEF ApplyPanics
  <2> QED
    BY <2>1, IdsOfRemaining, IdsOfRows, IdsOfWork, Zenon
<1>8. ASSUME NEW x \in executions, Conflict(x)
      PROVE  IdsUsedOnce'
  <2>1. UNCHANGED <<reservation, issued, granted>>
    BY <1>8, Zenon DEF Conflict
  <2>2. CASE /\ executions' = Replace(executions, x,
                   [x EXCEPT !.base = Version(x.cmd), !.event = Decide(x.cmd).event,
                             !.attempt = @ + 1])
             /\ UNCHANGED outbox
    <3>1. PICK again : /\ executions' = Replace(executions, x, again)
                       /\ again.cmd = x.cmd /\ again.task = x.task /\ again.caller = x.caller
      <4> DEFINE y == [x EXCEPT !.base = Version(x.cmd), !.event = Decide(x.cmd).event,
                                !.attempt = @ + 1]
      <4>1. y.cmd = x.cmd /\ y.task = x.task /\ y.caller = x.caller
        BY <1>0, Zenon DEF ExecutionOK, Execution
      <4>2. executions' = Replace(executions, x, y)
        BY <2>2, Zenon
      <4> HIDE DEF y
      <4> QED
        BY <4>1, <4>2, Zenon
    <3> DEFINE f == [y \in executions |-> IF y = x THEN again ELSE y]
    <3>2. /\ executions' = {f[y] : y \in executions}
          /\ \A y \in executions : /\ f[y].cmd = y.cmd /\ f[y].task = y.task
                                   /\ f[y].caller \in {y.caller, Nobody}
      BY <3>1, Zenon DEF Replace
    <3> HIDE DEF f
    <3> QED
      BY <2>1, <2>2, <3>2, IdsOfRetried, IdsOfRows, IdsOfWork, Zenon
  <2>3. CASE \E result \in Results : Settle(x, result, outbox) /\ executions' = executions \ {x}
    BY <2>1, <2>3, IdsOfEnded, Zenon
  <2> QED
    BY <1>8, <2>2, <2>3, RejectionResultType, Zenon DEF Conflict, Results
<1>9. ASSUME NEW x \in executions, Fail(x)
      PROVE  IdsUsedOnce'
  BY <1>9, IdsOfEnded, Zenon DEF Fail, Results
<1>10. ASSUME NEW x \in executions, TimeOut(x)
       PROVE  IdsUsedOnce'
  <2>1. PICK late : /\ executions' = Replace(executions, x, late)
                    /\ late.cmd = x.cmd /\ late.task = x.task /\ late.caller = Nobody
    BY <1>0, <1>10 DEF TimeOut, ExecutionOK, Execution
  <2> DEFINE f == [y \in executions |-> IF y = x THEN late ELSE y]
  <2>2. /\ executions' = {f[y] : y \in executions}
        /\ \A y \in executions : /\ f[y].cmd = y.cmd /\ f[y].task = y.task
                                 /\ f[y].caller \in {y.caller, Nobody}
    BY <2>1, Zenon DEF Replace
  <2> HIDE DEF f
  <2>3. Settle(x, "Retry", outbox) /\ UNCHANGED <<reservation, issued, granted>>
    BY <1>10, Zenon DEF TimeOut
  <2>4. \A q \in outbox' : \E row \in outbox : q.task = row.task
    BY <1>0, <2>3, SettleShape DEF Results
  <2> QED
    BY <2>2, <2>3, <2>4, IdsOfRetried, IdsOfRows, IdsOfWork, Zenon
<1>11. ASSUME NEW row \in outbox, RecoverExpired(row)
       PROVE  IdsUsedOnce'
  <2> DEFINE f == [x \in executions |-> IF x.caller = Delivery(row.task)
                                        THEN [x EXCEPT !.caller = Nobody] ELSE x]
  <2>1. executions' = {f[x] : x \in executions}
    BY <1>11, Zenon DEF RecoverExpired
  <2>2. ASSUME NEW x \in executions
        PROVE  f[x].cmd = x.cmd /\ f[x].task = x.task /\ f[x].caller \in {x.caller, Nobody}
    BY <1>0, Zenon DEF ExecutionOK, Execution
  <2> HIDE DEF f
  <2>3. \A q \in outbox' : \E r \in outbox : q.task = r.task
    BY <1>0, <1>11, RowSteps DEF RecoverExpired, Replace, Results
  <2> QED
    BY <1>11, <2>1, <2>2, <2>3, IdsOfRetried, IdsOfRows, IdsOfWork, Zenon DEF RecoverExpired
<1>12. CASE UNCHANGED vars
  BY <1>12, IdsOfRemaining, IdsOfRows, IdsOfWork, Zenon DEF vars
<1> QED
  BY <1>1, <1>2, <1>3, <1>4, <1>5, <1>6, <1>7, <1>8, <1>9, <1>10, <1>11, <1>12, IdsOfCommit,
     IdsOfAccount, Zenon DEF Next, Http, Deliver, Finish, Disturb, Recover, Requeue

(* With unique ids, an id is brought in by one command and known to        *)
(* reservations, rows and tokens only once that command has committed.     *)
THEOREM IdsAreUsedOnce == UniqueIds => (Spec => []IdsUsedOnce)
<1> SUFFICES ASSUME UniqueIds PROVE Spec => []IdsUsedOnce
  BY Zenon
<1>1. Init => IdsUsedOnce
  BY DEF Init, IdsUsedOnce, GrantedTokenIsCurrent, Absent, ProfileAccepted
<1>2. TypeOK /\ WorkJustified /\ IdsUsedOnce /\ [Next]_vars => IdsUsedOnce'
  BY IdsUsedOnceStep, Zenon
<1> QED
  BY <1>1, <1>2, TypeCorrect, WorkIsJustified, PTL DEF Spec

(* With unique ids, no conflict retry, lost reply or newer code leaves a   *)
(* client of ConfirmEmail with a token the store does not hold for the     *)
(* current account id.                                                     *)
THEOREM GrantedTokensAreCurrent == UniqueIds => (Spec => []GrantedTokenIsCurrent)
<1>1. IdsUsedOnce => GrantedTokenIsCurrent
  BY Zenon DEF IdsUsedOnce
<1> QED
  BY <1>1, IdsAreUsedOnce, PTL

(* With unique ids, delivering a creation task at any time and any number  *)
(* of times creates the account or finds it created: CreateAccount never   *)
(* meets another registration's data.                                      *)
THEOREM CreationTasksNeverMismatch == UniqueIds => (Spec => []CreationTaskNeverMismatches)
<1>1. TypeOK /\ WorkJustified /\ IdsUsedOnce => CreationTaskNeverMismatches
  <2>0. SUFFICES ASSUME TypeOK, WorkJustified, IdsUsedOnce, NEW row \in outbox,
                        row.task.kind = "CreateAccount", NEW now \in Instants
                 PROVE  LET t == row.task
                            d == HandleCreateAccount(account[t.account_id], t.account_id, t.email, t.profile, now)
                        IN  d.accepted \/ d.error = "AlreadyCreated"
    BY Zenon DEF CreationTaskNeverMismatches
  <2>1. PICK t, a : t = row.task /\ a = account[t.account_id]
    BY Zenon
  <2>2. /\ t.email \in Emails /\ t.account_id \in AccountIds
        /\ Accepted(t.email, t.account_id, t.profile) /\ TrimmedProfile(t.profile) = t.profile
    <3>1. RowOK(row) /\ RowJustified(row)
      BY <2>0, TypeOKRows, Zenon DEF WorkJustified
    <3> QED
      BY <2>0, <2>1, <3>1, Zenon DEF RowOK, Row, Task, RowJustified
  <2>3. CASE ~a.created
    <3>1. ProfileError(t.profile) = "none"
      BY <2>0, <2>2, ZenonT(30) DEF IdsUsedOnce, Accepted
    <3> QED
      BY <2>1, <2>2, <2>3, <3>1, Zenon DEF HandleCreateAccount, Accept
  <2>4. CASE a.created
    <3>1. a.email \in Emails /\ a.account_id = t.account_id /\ Accepted(a.email, t.account_id, a.profile)
      BY <2>0, <2>1, <2>2, <2>4, CreatedAccountType, Zenon DEF WorkJustified, AccountFollowsAcceptance
    <3>2. a.email = t.email
      BY <2>0, <2>2, <3>1, Zenon DEF IdsUsedOnce, Accepted, ProfileAccepted
    <3>3. a.profile = t.profile
      BY <2>2, <3>1, <3>2, Zenon DEF Accepted
    <3> QED
      BY <2>1, <2>2, <2>4, <3>1, <3>2, <3>3, ZenonT(30) DEF HandleCreateAccount, Reject
  <2> QED
    BY <2>3, <2>4, Zenon
<1> QED
  BY <1>1, IdsAreUsedOnce, TypeCorrect, WorkIsJustified, PTL

(* With unique ids, the id a step makes current is new: no row, and so no  *)
(* earlier code or registration of the email, carries it.                  *)
THEOREM SupersededIdsNeverReturn == UniqueIds => (Spec => SupersededIdNeverReturns)
<1> DEFINE New(e) ==
        LET p == reservation[e]
            q == reservation'[e]
        IN  p # q /\ q.phase # "Absent" /\ (p.phase = "Absent" \/ p.account_id # q.account_id) =>
              ~\E row \in outbox : row.task.email = e /\ row.task.account_id = q.account_id
<1>1. ASSUME TypeOK, WorkJustified, IdsUsedOnce, [Next]_vars, NEW e \in Emails PROVE New(e)
  <2>1. CASE UNCHANGED reservation
    BY <2>1, Zenon
  <2>2. ASSUME NEW x \in executions, CommitReservation(x) PROVE New(e)
    <3>1. PICK p, q : p = reservation[x.cmd.email] /\ q = Committed(p, x.event, x.base + 1)
      BY Zenon
    <3>2. /\ ~OnAccount(x.cmd) /\ x.base = Version(x.cmd) /\ q # Panicked
          /\ reservation' = [reservation EXCEPT ![x.cmd.email] = q]
      BY <2>2, <3>1, Zenon DEF CommitReservation
    <3>3. \/ BringsId(x) /\ q.account_id = x.cmd.account_id
          \/ p.phase # "Absent" /\ p.account_id = q.account_id
      <4>1. CommitEffect(x, p, q)
        BY <1>1, <3>1, <3>2, CommitFields, Zenon
      <4> QED
        BY <4>1, Zenon DEF CommitEffect
    <3>4. e # x.cmd.email => reservation'[e] = reservation[e]
      BY <3>2
    <3>5. e = x.cmd.email => reservation'[e] = q /\ reservation[e] = p
      BY <1>1, <3>1, <3>2, Zenon DEF TypeOK
    <3>6. BringsId(x) => ~\E row \in outbox : row.task.account_id = x.cmd.account_id
      BY <1>1, Zenon DEF IdsUsedOnce, Used
    <3> QED
      BY <3>3, <3>4, <3>5, <3>6, Zenon
  <2> QED
    BY <1>1, <2>1, <2>2, ReservationSteps, Zenon
<1>2. TypeOK /\ WorkJustified /\ IdsUsedOnce /\ [Next]_vars => [\A e \in Emails : New(e)]_vars
  BY <1>1, Zenon
<1> QED
  BY <1>2, IdsAreUsedOnce, TypeCorrect, WorkIsJustified, PTL DEF Spec, SupersededIdNeverReturns

----------------------------------------------------------------------------
(* Registration implements AccountOpening. *)

(* What is recorded of each phase. *)
LEMMA RecordedPhases ==
    ASSUME NEW p \in Phase
    PROVE  /\ p.phase = "Absent" => p = Absent /\ Recorded(p) = [stage |-> "none"]
           /\ p.phase = "AwaitingCode" => Recorded(p) = [stage |-> "claimed", account_id |-> p.account_id]
           /\ p.phase = "AwaitingProfile" => Recorded(p) = [stage |-> "verified", account_id |-> p.account_id]
           /\ p.phase = "CreatingAccount" =>
                 Recorded(p) = [stage |-> "accepted", account_id |-> p.account_id, profile |-> p.accepted_profile]
           /\ p.phase = "AccountCreated" =>
                 Recorded(p) = [stage |-> "recorded", account_id |-> p.account_id,
                                profile |-> p.accepted_profile, created_at |-> p.created_at]
<1>1. p.phase = "Absent" => p = Absent
  BY Zenon DEF Phase
<1> QED
  BY <1>1, Zenon DEF Recorded

(* A commit to a reservation is a change of one registration. *)
LEMMA RegistrationBecomes ==
    ASSUME TypeOK, NEW e \in Emails, NEW q, reservation' = [reservation EXCEPT ![e] = q],
           UNCHANGED account, NEW S, Recorded(q) \in S
    PROVE  Opening!Becomes(e, S)
<1> DEFINE before == [f \in Emails |-> Recorded(reservation[f])]
           after == [f \in Emails |-> Recorded(reservation'[f])]
<1>1. after[e] = Recorded(q) /\ \A f \in Emails : f # e => after[f] = before[f]
  BY Zenon DEF TypeOK
<1>2. after = [before EXCEPT ![e] = after[e]]
  BY <1>1, Zenon
<1> QED
  BY <1>1, <1>2, Zenon DEF Opening!Becomes

LEMMA CommitIsOpeningStep ==
    ASSUME TypeOK, WorkJustified, TypeOK', WorkJustified', NEW x \in executions, CommitReservation(x)
    PROVE  Opening!Next
<1>1. PICK e, p, q : e = x.cmd.email /\ p = reservation[e] /\ q = Committed(p, x.event, x.base + 1)
  BY Zenon
<1>2. /\ ~OnAccount(x.cmd) /\ x.base = Version(x.cmd) /\ q # Panicked
      /\ reservation' = [reservation EXCEPT ![e] = q] /\ UNCHANGED account
  BY <1>1, Zenon DEF CommitReservation
<1>3. e \in Emails /\ p \in Phase /\ x.cmd \in Command
  BY <1>1, TypeOKRows, ZenonT(30) DEF ExecutionOK, Execution, Command, TypeOK
<1>4. reservation'[e] = q /\ q \in Phase
  BY <1>2, <1>3, Zenon DEF TypeOK
<1> DEFINE registration == [f \in Emails |-> Recorded(reservation[f])]
<1>5. registration[e] = Recorded(p)
  BY <1>1, <1>3, Zenon
<1>6. CASE Asks(x, p, q)
  <2>1. x.cmd.account_id \in AccountIds
    BY <1>3, Zenon DEF Command
  <2>2. Recorded(q) = [stage |-> "claimed", account_id |-> x.cmd.account_id]
    BY <1>4, <1>6, RecordedPhases, Zenon DEF Asks
  <2>3. /\ registration[e].stage \in {"none", "claimed", "verified"}
        /\ registration[e] # [stage |-> "none"] => registration[e].account_id # x.cmd.account_id
    BY <1>3, <1>5, <1>6, RecordedPhases, PhaseNames DEF ProfileAccepted, Asks
  <2>4. PICK superseded : superseded = IF registration[e] = [stage |-> "none"] THEN {} ELSE {registration[e].account_id}
    BY Zenon
  <2>5. Opening!Becomes(e, [stage : {"claimed"}, account_id : AccountIds \ superseded])
    <3>1. Recorded(q) \in [stage : {"claimed"}, account_id : AccountIds \ superseded]
      BY <2>1, <2>2, <2>3, <2>4
    <3> QED
      BY <1>2, <1>3, <3>1, RegistrationBecomes, Zenon
  <2>6. Opening!Claim(e)
    BY <2>3, <2>4, <2>5, Zenon DEF Opening!Claim, Opening!None
  <2> QED
    BY <1>3, <2>6, Zenon DEF Opening!Next
<1>7. CASE Verifies(x, p, q)
  <2>1. Recorded(q) = [stage |-> "verified", account_id |-> p.account_id]
    BY <1>4, <1>7, RecordedPhases DEF AwaitingProfile, Verifies
  <2>2. registration[e].stage = "claimed" /\ registration[e].account_id = p.account_id
    BY <1>3, <1>5, <1>7, RecordedPhases DEF Verifies
  <2>3. Opening!Becomes(e, [stage : {"verified"}, account_id : {p.account_id}])
    <3>1. Recorded(q) \in [stage : {"verified"}, account_id : {p.account_id}]
      BY <2>1
    <3> QED
      BY <1>2, <1>3, <3>1, RegistrationBecomes, Zenon
  <2>4. Opening!Verify(e)
    BY <2>2, <2>3, Zenon DEF Opening!Verify
  <2> QED
    BY <1>3, <2>4, Zenon DEF Opening!Next
<1>8. CASE Submits(x, p, q)
  <2>1. Recorded(q) = [stage |-> "accepted", account_id |-> p.account_id, profile |-> x.cmd.profile]
    BY <1>4, <1>8, RecordedPhases DEF CreatingAccount, Submits
  <2>2. registration[e].stage = "verified" /\ registration[e].account_id = p.account_id
    BY <1>3, <1>5, <1>8, RecordedPhases DEF Submits
  <2>3. x.cmd.profile \in ValidProfiles
    BY <1>3, <1>8, Zenon DEF Command, ValidProfiles, Submits
  <2>4. Opening!Becomes(e, [stage : {"accepted"}, account_id : {p.account_id}, profile : ValidProfiles])
    <3>1. Recorded(q) \in [stage : {"accepted"}, account_id : {p.account_id}, profile : ValidProfiles]
      BY <2>1, <2>3
    <3> QED
      BY <1>2, <1>3, <3>1, RegistrationBecomes, Zenon
  <2>5. Opening!Accept(e)
    BY <2>2, <2>4, ZenonT(30) DEF Opening!Accept
  <2> QED
    BY <1>3, <2>5, Zenon DEF Opening!Next
<1>9. CASE Records(x, p, q)
  <2>1. PICK at : at = x.cmd.created_at
    BY Zenon
  <2>2. /\ q.phase = "AccountCreated" /\ q.account_id = p.account_id
        /\ q.accepted_profile = p.accepted_profile /\ q.created_at = at
    BY <1>9, <2>1, Zenon DEF AccountCreated, Records
  <2>3. Recorded(q) = [stage |-> "recorded", account_id |-> p.account_id,
                       profile |-> p.accepted_profile, created_at |-> at]
    BY <1>4, <2>2, RecordedPhases, Zenon
  <2>4. /\ registration[e].stage = "accepted" /\ registration[e].account_id = p.account_id
        /\ registration[e].profile = p.accepted_profile
    BY <1>3, <1>5, <1>9, RecordedPhases DEF Records
  <2>5. account[p.account_id] = CreatedAccount(p.account_id, e, p.accepted_profile, at)
    BY <1>2, <1>3, <1>4, <2>2, Zenon DEF WorkJustified, CompletionMatchesAccount
  <2>6. p.account_id \in AccountIds
    BY <1>3, <1>9 DEF Phase, Absent, Records
  <2>7. PICK a : /\ a = Opened(account[p.account_id])
                 /\ a = [account_id |-> p.account_id, email |-> e, profile |-> p.accepted_profile, created_at |-> at]
    <3>1. PICK b : b = account[p.account_id]
      BY Zenon
    <3>2. b.account_id = p.account_id /\ b.email = e /\ b.profile = p.accepted_profile /\ b.created_at = at
      BY <2>5, <3>1 DEF CreatedAccount
    <3>3. Opened(b) = [account_id |-> p.account_id, email |-> e, profile |-> p.accepted_profile, created_at |-> at]
      BY <3>2, Zenon DEF Opened
    <3> QED
      BY <3>1, <3>3, Zenon
  <2>8. a \in {Opened(account[id]) : id \in {id \in AccountIds : account[id].created}}
    BY <2>5, <2>6, <2>7 DEF CreatedAccount
  <2>9. Opening!Becomes(e, [stage : {"recorded"}, account_id : {a.account_id}, profile : {a.profile},
                            created_at : {a.created_at}])
    <3>1. a.account_id = p.account_id /\ a.profile = p.accepted_profile /\ a.created_at = at
      BY <2>7
    <3>2. Recorded(q) \in [stage : {"recorded"}, account_id : {a.account_id}, profile : {a.profile},
                           created_at : {a.created_at}]
      BY <2>3, <3>1
    <3> QED
      BY <1>2, <1>3, <3>2, RegistrationBecomes, ZenonT(30)
  <2>10. Opening!Record(e)
    BY <2>4, <2>7, <2>8, <2>9, Zenon DEF Opening!Record
  <2> QED
    BY <1>3, <2>10, Zenon DEF Opening!Next
<1>10. p = reservation[x.cmd.email] /\ q = Committed(p, x.event, x.base + 1)
  BY <1>1, Zenon
<1>11. Asks(x, p, q) \/ Verifies(x, p, q) \/ Submits(x, p, q) \/ Records(x, p, q)
  BY <1>2, <1>10, CommitDetail, Zenon
<1> QED
  BY <1>6, <1>7, <1>8, <1>9, <1>11, Zenon

LEMMA AccountIsOpeningStep ==
    ASSUME TypeOK, WorkJustified, TypeOK', WorkJustified', NEW x \in executions, CommitAccount(x)
    PROVE  Opening!Next
<1>1. PICK id, new : id = x.cmd.account_id /\ new = account'[id]
  BY Zenon
<1>2. /\ OnAccount(x.cmd) /\ x.base = Version(x.cmd) /\ UNCHANGED reservation
      /\ account' = [account EXCEPT ![id] = ApplyAccountCreated(@, x.event)]
  BY <1>1, Zenon DEF CommitAccount
<1>3. id \in AccountIds /\ x.cmd \in Command
  BY <1>1, TypeOKRows, Zenon DEF ExecutionOK, Execution, Command
<1>4. new.created /\ \A i \in AccountIds : i # id => account'[i] = account[i]
  BY <1>1, <1>2, <1>3, ZenonT(30) DEF TypeOK, ApplyAccountCreated, CreatedAccount
<1>5. ~account[id].created
  <2>1. Decide(x.cmd).accepted
    BY <1>2, Zenon DEF WorkJustified, ExecutionJustified
  <2>2. HandleCreateAccount(account[id], id, x.cmd.email, x.cmd.profile, x.cmd.created_at).accepted
    BY <1>1, <1>2, <2>1, Zenon DEF Decide, OnAccount
  <2> QED
    BY <2>2, Zenon DEF HandleCreateAccount, Accept, Reject
<1>6. PICK e \in Emails, at \in Instants :
          /\ new.email = e /\ new.created_at = at /\ new.account_id = id
          /\ Accepted(e, id, new.profile)
  <2>0. account' \in [AccountIds -> Account]
    BY Zenon DEF TypeOK
  <2>1. new \in Account /\ new # NoAccount
    BY <1>1, <1>3, <1>4, <2>0 DEF NoAccount
  <2>2. new.email \in Emails /\ new.created_at \in Instants
    BY <2>1, Zenon DEF Account
  <2>3. new.account_id = id /\ Accepted(new.email, id, new.profile)'
    BY <1>1, <1>3, <1>4, Zenon DEF WorkJustified, AccountFollowsAcceptance
  <2>4. Accepted(new.email, id, new.profile)
    BY <1>2, <2>3, Zenon DEF Accepted
  <2> QED
    BY <2>2, <2>3, <2>4, Zenon
<1>7. PICK p \in Phase : p = reservation[e]
  BY ZenonT(30) DEF TypeOK
<1>8. p.phase = "CreatingAccount" /\ p.account_id = id /\ p.accepted_profile = new.profile
  <2>1. SUFFICES ASSUME p.phase = "AccountCreated" PROVE FALSE
    BY <1>6, <1>7, Zenon DEF Accepted, ProfileAccepted
  <2>2. p.account_id = id
    BY <1>6, <1>7, Zenon DEF Accepted
  <2>3. account[p.account_id] = CreatedAccount(p.account_id, e, p.accepted_profile, p.created_at)
    BY <1>7, <2>1, ZenonT(30) DEF WorkJustified, CompletionMatchesAccount
  <2> QED
    BY <1>5, <2>2, <2>3 DEF CreatedAccount
<1> DEFINE registration == [f \in Emails |-> Recorded(reservation[f])]
           before == {Opened(account[i]) : i \in {i \in AccountIds : account[i].created}}
           after == {Opened(account'[i]) : i \in {i \in AccountIds : account'[i].created}}
<1>9. /\ registration[e].stage = "accepted" /\ registration[e].account_id = id
      /\ registration[e].profile = new.profile
  BY <1>7, <1>8, RecordedPhases
<1>10. \A a \in before : a.account_id # id
  <2>1. \A i \in AccountIds : account[i].created => account[i].account_id = i
    BY Zenon DEF WorkJustified, AccountFollowsAcceptance
  <2> QED
    BY <1>5, <2>1 DEF Opened
<1>11. after = before \cup {Opened(new)}
  BY <1>1, <1>3, <1>4, <1>5
<1>12. Opened(new) = [account_id |-> id, email |-> e, profile |-> new.profile, created_at |-> at]
  BY <1>6, Zenon DEF Opened
<1>13. Opening!Open(e)
  BY <1>2, <1>9, <1>10, <1>11, <1>12, Zenon DEF Opening!Open
<1> QED
  BY <1>13, Zenon DEF Opening!Next

(* Every behaviour of the registration workflow, with its interleavings,   *)
(* retries, lost replies and redeliveries, is one of AccountOpening: also  *)
(* when the generator repeats ids.                                         *)
THEOREM RegistrationOpensAccounts == Spec => AccountsAreOpenedOnce
<1>1. Init => Opening!Init
  <2> SUFFICES ASSUME Init PROVE Opening!Init
    BY Zenon
  <2>1. [e \in Emails |-> Recorded(reservation[e])] = [e \in Emails |-> [stage |-> "none"]]
    BY Zenon DEF Init, Recorded, Absent
  <2>2. {Opened(account[id]) : id \in {id \in AccountIds : account[id].created}} = {}
    BY Zenon DEF Init, NoAccount
  <2> QED
    BY <2>1, <2>2, Zenon DEF Opening!Init, Opening!None
<1>2. TypeOK /\ WorkJustified /\ TypeOK' /\ WorkJustified' /\ [Next]_vars => [Opening!Next]_(Opening!vars)
  <2> SUFFICES ASSUME TypeOK, WorkJustified, TypeOK', WorkJustified', [Next]_vars
               PROVE  Opening!Next \/ UNCHANGED Opening!vars
    BY Zenon
  <2>1. CASE UNCHANGED <<reservation, account>>
    BY <2>1, Zenon DEF Opening!vars
  <2> QED
    BY <2>1, AggregateSteps, CommitIsOpeningStep, AccountIsOpeningStep, Zenon
<1> QED
  BY <1>1, <1>2, TypeCorrect, WorkIsJustified, PTL DEF Spec, AccountsAreOpenedOnce, Opening!Spec
====
