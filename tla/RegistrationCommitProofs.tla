---- MODULE RegistrationCommitProofs ----
(***************************************************************************)
(* Lemmas for the inductive invariant WorkJustified: steps that leave the  *)
(* aggregates alone keep it, what a commit and its settlement look like,   *)
(* and the two commits keep it.                                            *)
(***************************************************************************)
EXTENDS RegistrationTypeProofs

(* The inductive invariant. *)

(* A step that leaves the aggregates alone keeps the invariant if every    *)
(* row and execution it leaves is justified and every task stays stored.   *)
LEMMA JustifiedWork ==
    ASSUME WorkJustified, UNCHANGED <<reservation, version, account>>,
           \A row \in outbox' : RowJustified(row),
           \A x \in executions' : ExecutionJustified(x),
           \A row \in outbox : \E q \in outbox' : q.task = row.task
    PROVE  WorkJustified'
<1>1. TasksPublished'
  <2>1. ASSUME NEW e \in Emails, ProfileAccepted(reservation[e])
        PROVE  \E row \in outbox' : row.task = CreateAccountTask(e, reservation[e].account_id,
                                                           reservation[e].accepted_profile)
    BY <2>1, Zenon DEF WorkJustified, TasksPublished
  <2>2. ASSUME NEW id \in AccountIds, account[id].created
        PROVE  \E row \in outbox' : row.task = RecordAccountCreatedTask(account[id].email, id,
                                          account[id].profile, account[id].created_at)
    BY <2>2, Zenon DEF WorkJustified, TasksPublished
  <2> QED
    BY <2>1, <2>2, Zenon DEF TasksPublished
<1>2. \A row \in outbox' : RowJustified(row)'
  BY Zenon DEF RowJustified, Accepted
<1>3. ASSUME NEW x \in executions'
      PROVE  ExecutionJustified(x)'
  <2>1. Version(x.cmd)' = Version(x.cmd) /\ Decide(x.cmd)' = Decide(x.cmd)
    BY Zenon DEF Version, Decide, OnAccount
  <2>2. CommandOfTask(x.cmd, x.caller.task)' = CommandOfTask(x.cmd, x.caller.task)
    BY Zenon DEF CommandOfTask
  <2> QED
    BY <2>1, <2>2, Zenon DEF ExecutionJustified, Accepted
<1>4. AccountFollowsAcceptance' /\ CompletionMatchesAccount'
  BY Zenon DEF WorkJustified, AccountFollowsAcceptance, CompletionMatchesAccount, Accepted
<1> QED
  BY <1>1, <1>2, <1>3, <1>4, Zenon DEF WorkJustified

(* A row that keeps its task and is not newly completed stays justified.   *)
LEMMA SameTaskJustified ==
    ASSUME NEW row, NEW new, RowJustified(row), new.task = row.task,
           new.status # "completed"
    PROVE  RowJustified(new)
BY Zenon DEF RowJustified

(* A delivered command that committed, or whose rejection acknowledges its *)
(* task, leaves the effect its row asks for.                               *)
EffectDone(t) ==
    /\ t.kind = "CreateAccount" =>
          account[t.account_id].created /\ account[t.account_id].email = t.email
    /\ t.kind = "RecordAccountCreated" => reservation[t.email].phase = "AccountCreated"

(* A row whose effect is done stays justified, completed or not. *)
LEMMA CompletedJustified ==
    ASSUME NEW row, NEW new, RowJustified(row), new.task = row.task, EffectDone(row.task)
    PROVE  RowJustified(new)
BY Zenon DEF RowJustified, EffectDone

(* A rejection that acknowledges a task finds the effect of that task:     *)
(* AlreadyCreated the account, AccountCreationAlreadyCompleted the phase.  *)
LEMMA AcknowledgedEffect ==
    ASSUME TypeOK, NEW cmd \in Command, NEW t \in Task, CommandOfTask(cmd, t),
           ~Decide(cmd).accepted, RejectionResult(Decide(cmd).error) = "Completed"
    PROVE  EffectDone(t)
<1>1. Decide(cmd).error \in {"AlreadyCreated", "AccountCreationAlreadyCompleted"}
  BY Zenon DEF RejectionResult
<1>2. CASE t.kind = "CreateAccount"
  <2>1. cmd.type = "CreateAccount"
    BY <1>2, Zenon DEF CommandOfTask
  <2>2. Decide(cmd) = HandleCreateAccount(account[cmd.account_id], cmd.account_id, cmd.email,
                                          cmd.profile, cmd.created_at)
    BY <2>1, Zenon DEF Decide
  <2>3. ProfileError(TrimmedProfile(cmd.profile)) \in
           {"EmptyFirstName", "EmptyLastName", "FutureDateOfBirth", "none"}
    BY Zenon DEF ProfileError
  <2>4. account[cmd.account_id].created /\ account[cmd.account_id].email = cmd.email
    BY <1>1, <2>2, <2>3 DEF HandleCreateAccount, Accept, Reject
  <2> QED
    BY <1>2, <2>4, Zenon DEF EffectDone, CommandOfTask
<1>3. CASE t.kind = "RecordAccountCreated"
  <2>1. cmd.type = "RecordAccountCreated"
    BY <1>3, Zenon DEF CommandOfTask
  <2>2. Decide(cmd) = HandleRecordAccountCreated(reservation[cmd.email], cmd.account_id,
                                                 cmd.profile, cmd.created_at)
    BY <2>1, Zenon DEF Decide
  <2>3. reservation[cmd.email] \in Phase
    BY Zenon DEF TypeOK, Command
  <2>4. reservation[cmd.email].phase = "AccountCreated"
    BY <1>1, <2>2, <2>3 DEF HandleRecordAccountCreated, Accept, Reject, Phase, ProfileAccepted, Absent
  <2> QED
    BY <1>3, <2>4, Zenon DEF EffectDone, CommandOfTask
<1> QED
  BY <1>2, <1>3, Zenon DEF CommandOfTask

(* A settlement keeps every row justified: it completes a row only when    *)
(* the effect is done.                                                     *)
LEMMA SettleJustified ==
    ASSUME NEW x, NEW result \in Results, NEW rows, \A row \in rows : RowOK(row),
           \A row \in rows : RowJustified(row), Settle(x, result, rows),
           \A t : result = "Completed" /\ x.caller = Delivery(t) => EffectDone(t)
    PROVE  /\ \A row \in outbox' : RowJustified(row)
           /\ \A row \in rows : \E q \in outbox' : q.task = row.task
<1>1. CASE outbox' = rows
  BY <1>1, Zenon
<1>2. ASSUME NEW row \in rows, row.status = "processing", x.caller = Delivery(row.task),
             outbox' = Replace(rows, row, Settled(row, result))
      PROVE  /\ \A q \in outbox' : RowJustified(q)
             /\ \A r \in rows : \E q \in outbox' : q.task = r.task
  <2> DEFINE new == Settled(row, result)
  <2>1. new.task = row.task /\ (new.status = "completed" => result = "Completed")
    BY RowSteps, Zenon
  <2>2. RowJustified(new)
    BY <1>2, <2>1, SameTaskJustified, CompletedJustified, Zenon
  <2> HIDE DEF new
  <2> QED
    BY <1>2, <2>1, <2>2, Zenon DEF Replace, new
<1> QED
  BY <1>1, <1>2, Zenon DEF Settle

(* A started command is justified as soon as its task and its reason are.  *)
LEMMA BeginJustified ==
    ASSUME TypeOK, NEW cmd \in Command, NEW task, NEW caller,
           Begin(cmd, task, caller), WorkJustified,
           cmd.type \in {"ReserveEmail", "RequestVerificationCode", "VerifyEmail"} =>
              task.kind \in {"None", "SendVerificationCode"},
           cmd.type = "SubmitRegistrationProfile" =>
              /\ task = CreateAccountTask(cmd.email, cmd.account_id, cmd.profile)
              /\ TrimmedProfile(cmd.profile) = cmd.profile,
           cmd.type = "CreateAccount" =>
              /\ task = RecordAccountCreatedTask(cmd.email, cmd.account_id, cmd.profile,
                                                 cmd.created_at)
              /\ TrimmedProfile(cmd.profile) = cmd.profile
              /\ Accepted(cmd.email, cmd.account_id, cmd.profile),
           cmd.type = "RecordAccountCreated" =>
              /\ task = NoTask
              /\ account[cmd.account_id] =
                    CreatedAccount(cmd.account_id, cmd.email, cmd.profile, cmd.created_at),
           caller.kind = "Delivery" => CommandOfTask(cmd, caller.task)
    PROVE  \A x \in executions' : ExecutionJustified(x)
<1>1. Version(cmd) \in Nat
  BY Zenon DEF Version, TypeOK, Command
<1> DEFINE new == [cmd |-> cmd, task |-> task, caller |-> caller, base |-> Version(cmd),
                   event |-> Decide(cmd).event, attempt |-> 1]
<1>2. /\ new.cmd = cmd /\ new.task = task /\ new.caller = caller
      /\ new.base = Version(cmd) /\ new.event = Decide(cmd).event
  BY Zenon
<1>3. Decide(cmd).accepted /\ executions' = executions \cup {new}
  BY Zenon DEF Begin
<1> HIDE DEF new
<1>4. ExecutionJustified(new)
  BY <1>1, <1>2, <1>3 DEF ExecutionJustified
<1> QED
  BY <1>3, <1>4, Zenon DEF WorkJustified

(* Both continuation handlers keep the invariant. *)
LEMMA ContinueJustified ==
    ASSUME TypeOK, WorkJustified, NEW row \in outbox, row.status = "pending",
           NEW cmd \in Command, NEW task, CommandOfTask(cmd, row.task),
           Continue(row, cmd, task),
           cmd.type = "CreateAccount" =>
              task = RecordAccountCreatedTask(cmd.email, cmd.account_id, cmd.profile, cmd.created_at),
           cmd.type = "RecordAccountCreated" => task = NoTask
    PROVE  WorkJustified'
<1>1. RowOK(row) /\ row.task \in Task /\ RowJustified(row)
  BY TypeOKRows, Zenon DEF RowOK, Row, WorkJustified
<1>2. RowOK(Claimed(row)) /\ Claimed(row).task = row.task /\ Claimed(row).status = "processing"
  BY <1>1, RowSteps, Zenon
<1>3. RowJustified(Claimed(row))
  BY <1>1, <1>2, SameTaskJustified, Zenon
<1>4. ASSUME NEW new, RowJustified(new), new.task = row.task, outbox' = Replace(outbox, row, new)
      PROVE  /\ \A q \in outbox' : RowJustified(q)
             /\ \A r \in outbox : \E q \in outbox' : q.task = r.task
  BY <1>4, Zenon DEF Replace, WorkJustified
<1>5. UNCHANGED <<reservation, version, account>>
  BY Zenon DEF Continue
<1>6. CASE Begin(cmd, task, Delivery(row.task)) /\ outbox' = Replace(outbox, row, Claimed(row))
  <2>1. /\ cmd.type = "CreateAccount" =>
              /\ TrimmedProfile(cmd.profile) = cmd.profile
              /\ Accepted(cmd.email, cmd.account_id, cmd.profile)
        /\ cmd.type = "RecordAccountCreated" =>
              account[cmd.account_id] =
                    CreatedAccount(cmd.account_id, cmd.email, cmd.profile, cmd.created_at)
        /\ cmd.type \in {"CreateAccount", "RecordAccountCreated"}
    BY <1>1, Zenon DEF RowJustified, CommandOfTask
  <2>2. CommandOfTask(cmd, Delivery(row.task).task)
    BY Zenon DEF Delivery
  <2>3. \A x \in executions' : ExecutionJustified(x)
    BY <1>6, <2>1, <2>2, BeginJustified, Zenon
  <2> QED
    BY <1>2, <1>3, <1>4, <1>5, <1>6, <2>3, JustifiedWork, Zenon
<1>7. CASE /\ ~Decide(cmd).accepted /\ UNCHANGED executions
           /\ \/ outbox' = Replace(outbox, row, Claimed(row))
              \/ outbox' = Replace(outbox, row,
                             Settled(Claimed(row), RejectionResult(Decide(cmd).error)))
  <2> DEFINE new == Settled(Claimed(row), RejectionResult(Decide(cmd).error))
  <2>1. /\ new.task = row.task
        /\ new.status = "completed" => RejectionResult(Decide(cmd).error) = "Completed"
    BY <1>2, RowSteps, RejectionResultType, Zenon
  <2>2. RowJustified(new)
    BY <1>1, <1>7, <2>1, AcknowledgedEffect, SameTaskJustified, CompletedJustified, Zenon
  <2>3. \A x \in executions' : ExecutionJustified(x)
    BY <1>7, Zenon DEF WorkJustified
  <2> HIDE DEF new
  <2> QED
    BY <1>2, <1>3, <1>4, <1>5, <1>7, <2>1, <2>2, <2>3, JustifiedWork, Zenon DEF new
<1> QED
  BY <1>6, <1>7, Zenon DEF Continue

(* The three ways a commit changes a reservation. *)
LEMMA CommitShape ==
    ASSUME TypeOK, WorkJustified, NEW x \in executions, ~OnAccount(x.cmd),
           x.base = Version(x.cmd), NEW p, p = reservation[x.cmd.email],
           NEW q, q = Committed(p, x.event, x.base + 1), q # Panicked
    PROVE  \/ /\ x.cmd.type = "RecordAccountCreated" /\ p.phase = "CreatingAccount"
              /\ p.account_id = x.cmd.account_id /\ p.accepted_profile = x.cmd.profile
              /\ q = AccountCreated(p.account_id, p.consumed_token_digest, p.accepted_profile,
                                    x.cmd.created_at)
           \/ /\ x.cmd.type = "SubmitRegistrationProfile" /\ p.phase = "AwaitingProfile"
              /\ q = CreatingAccount(x.cmd.account_id, x.cmd.token_digest, x.cmd.profile)
           \/ /\ x.cmd.type \in {"ReserveEmail", "RequestVerificationCode", "VerifyEmail"}
              /\ ~ProfileAccepted(p) /\ ~ProfileAccepted(q)
<1>1. ExecutionJustified(x) /\ ExecutionOK(x)
  BY TypeOKRows, Zenon DEF WorkJustified
<1>2. Decide(x.cmd).accepted /\ x.event = Decide(x.cmd).event
  BY <1>1, Zenon DEF ExecutionJustified
<1>3. x.cmd \in Command /\ p \in Phase
  BY <1>1, Zenon DEF ExecutionOK, Execution, Command, TypeOK
<1>4. CASE x.cmd.type = "RecordAccountCreated"
  <2>1. /\ p.phase = "CreatingAccount"
        /\ p.account_id = x.cmd.account_id /\ p.accepted_profile = x.cmd.profile
        /\ x.event = [type |-> "AccountCreationCompleted", account_id |-> x.cmd.account_id,
                      created_at |-> x.cmd.created_at]
    <3>1. Decide(x.cmd) = HandleRecordAccountCreated(p, x.cmd.account_id, x.cmd.profile,
                                                     x.cmd.created_at)
      BY <1>4, Zenon DEF Decide
    <3> QED
      BY <1>2, <1>3, <3>1, RecordAccepted
  <2>2. Apply(p, x.event) = AccountCreated(p.account_id, p.consumed_token_digest,
                                           p.accepted_profile, x.cmd.created_at)
    BY <2>1 DEF Apply
  <2>3. Apply(Apply(p, x.event), x.event) = Panicked
    BY <2>1, <2>2 DEF Apply, AccountCreated
  <2> QED
    BY <1>4, <2>1, <2>2, <2>3, Zenon DEF Committed
<1>5. CASE x.cmd.type = "SubmitRegistrationProfile"
  <2>1. /\ p.phase = "AwaitingProfile"
        /\ x.event = [type |-> "RegistrationProfileAccepted", account_id |-> x.cmd.account_id,
                      consumed_token_digest |-> x.cmd.token_digest,
                      profile |-> TrimmedProfile(x.cmd.profile)]
    <3>1. Decide(x.cmd) = HandleSubmitProfile(p, x.cmd.account_id, x.cmd.token_digest,
                                              x.cmd.profile)
      BY <1>5, Zenon DEF Decide
    <3> QED
      BY <1>2, <1>3, <3>1, SubmitAccepted
  <2>2. TrimmedProfile(x.cmd.profile) = x.cmd.profile
    BY <1>1, <1>5, Zenon DEF ExecutionJustified
  <2>3. \A r : Apply(r, x.event) = CreatingAccount(x.cmd.account_id, x.cmd.token_digest, x.cmd.profile)
    BY <2>1, <2>2 DEF Apply
  <2> QED
    BY <1>5, <2>1, <2>3 DEF Committed
<1>6. CASE x.cmd.type = "VerifyEmail"
  <2>1. /\ p.phase = "AwaitingCode"
        /\ x.event = [type |-> "EmailVerified", account_id |-> x.cmd.account_id,
                      token_digest |-> x.cmd.token_digest]
    <3>1. Decide(x.cmd) = HandleVerify(p, x.cmd.account_id, x.cmd.code, x.cmd.token_digest)
      BY <1>6, Zenon DEF Decide
    <3> QED
      BY <1>2, <1>3, <3>1, VerifyAccepted
  <2>2. \A r : Apply(r, x.event).phase = "AwaitingProfile"
    BY <2>1 DEF Apply, AwaitingProfile
  <2> QED
    BY <1>6, <2>1, <2>2, Zenon DEF Committed, ProfileAccepted
<1>7. CASE x.cmd.type \in {"ReserveEmail", "RequestVerificationCode"}
  <2>1. /\ ~ProfileAccepted(p)
        /\ x.event.type \in {"EmailReserved", "VerificationCodeRequested", "VerificationRestarted"}
    <3>1. \/ Decide(x.cmd) = HandleReserve(p, x.cmd.account_id, x.cmd.verification_code)
          \/ Decide(x.cmd) = HandleRequestVerificationCode(p, x.cmd.account_id,
                                                           x.cmd.verification_code)
      BY <1>7, Zenon DEF Decide
    <3> QED
      BY <1>2, <1>3, <3>1, PhaseNames DEF HandleReserve, HandleRequestVerificationCode, Accept, Reject,
                              ProfileAccepted
  <2>2. \A r : Apply(r, x.event).phase = "AwaitingCode"
    BY <2>1, Zenon DEF Apply, AwaitingCode
  <2> QED
    BY <1>7, <2>1, <2>2, Zenon DEF Committed, ProfileAccepted
<1> QED
  BY <1>3, <1>4, <1>5, <1>6, <1>7, Zenon DEF Command, OnAccount

(* Every row a settlement leaves has the task of a row before it, and is   *)
(* newly completed only as the answer to a delivery of that task.          *)
LEMMA SettleShape ==
    ASSUME NEW x, NEW result \in Results, NEW rows, \A row \in rows : RowOK(row),
           Settle(x, result, rows)
    PROVE  /\ \A q \in outbox' : \E row \in rows :
                  /\ q.task = row.task
                  /\ q.status = "completed" /\ q # row =>
                        result = "Completed" /\ x.caller = Delivery(row.task)
           /\ \A row \in rows : \E q \in outbox' : q.task = row.task
<1>1. CASE outbox' = rows
  BY <1>1, Zenon
<1>2. ASSUME NEW row \in rows, x.caller = Delivery(row.task),
             outbox' = Replace(rows, row, Settled(row, result))
      PROVE  /\ \A q \in outbox' : \E r \in rows :
                    /\ q.task = r.task
                    /\ q.status = "completed" /\ q # r =>
                          result = "Completed" /\ x.caller = Delivery(r.task)
             /\ \A r \in rows : \E q \in outbox' : q.task = r.task
  <2>1. /\ Settled(row, result).task = row.task
        /\ Settled(row, result).status = "completed" => result = "Completed"
    BY RowSteps, Zenon
  <2> QED
    BY <1>2, <2>1, Zenon DEF Replace
<1> QED
  BY <1>1, <1>2, Zenon DEF Settle

(* Answering a committed command is one of two settlements. *)
LEMMA AnswerSettles ==
    ASSUME NEW x, NEW rows, Answer(x, rows)
    PROVE  \E result \in {"Completed", "Retry"} : Settle(x, result, rows)
BY Zenon DEF Answer

(* Publishing adds at most one row, pending, with the given task. *)
LEMMA PublishedRows ==
    ASSUME NEW task, NEW seq
    PROVE  /\ outbox \subseteq Published(task, seq)
           /\ task # NoTask => \E row \in Published(task, seq) : row.task = task
           /\ \A row \in Published(task, seq) :
                 row \in outbox \/ (row.task = task /\ task # NoTask /\ row.status = "pending")
<1>1. CASE task = NoTask
  BY <1>1, Zenon DEF Published
<1>2. CASE task # NoTask
  <2> DEFINE new == [task |-> task, seq |-> seq, status |-> "pending", attempts |-> 0]
  <2>1. Published(task, seq) = outbox \cup {new}
    BY <1>2, Zenon DEF Published
  <2>2. new.task = task /\ new.status = "pending"
    BY Zenon
  <2> HIDE DEF new
  <2> QED
    BY <1>2, <2>1, <2>2, Zenon
<1> QED
  BY <1>1, <1>2, Zenon

(* The email of an existing account is one of the addresses. *)
LEMMA CreatedAccountType ==
    ASSUME TypeOK, NEW id \in AccountIds, account[id].created
    PROVE  account[id].email \in Emails
<1>1. account[id] \in Account
  BY Zenon DEF TypeOK
<1>2. account[id] # NoAccount
  BY DEF NoAccount
<1> QED
  BY <1>1, <1>2, Zenon DEF Account

(* The fields of a created account. *)
LEMMA CreatedIsCreated ==
    ASSUME NEW id, NEW e, NEW profile, NEW at
    PROVE  /\ CreatedAccount(id, e, profile, at).created
           /\ CreatedAccount(id, e, profile, at).account_id = id
           /\ CreatedAccount(id, e, profile, at).email = e
           /\ CreatedAccount(id, e, profile, at).profile = profile
           /\ CreatedAccount(id, e, profile, at).created_at = at
BY Zenon DEF CreatedAccount

----------------------------------------------------------------------------
(* The two commits. *)

(* A commit to a reservation keeps the invariant: it changes only its own  *)
(* email, an accepted profile stays, and every execution that loaded the   *)
(* same email before it is now behind the stream.                          *)
LEMMA CommitReservationJustified ==
    ASSUME TypeOK, WorkJustified, NEW x \in executions, CommitReservation(x)
    PROVE  WorkJustified'
<1> DEFINE e == x.cmd.email
           p == reservation[e]
           q == Committed(p, x.event, x.base + 1)
           rows == Published(x.task, x.base + 1)
<1>1. /\ x \in Execution /\ e \in Emails /\ x.base \in Nat /\ ExecutionJustified(x)
      /\ reservation \in [Emails -> Phase] /\ version \in [Emails -> Nat]
  BY TypeOKRows, Zenon DEF ExecutionOK, Execution, Command, WorkJustified, TypeOK
<1>2. /\ ~OnAccount(x.cmd) /\ x.base = Version(x.cmd) /\ q # Panicked
      /\ reservation' = [reservation EXCEPT ![e] = q]
      /\ version' = [version EXCEPT ![e] = x.base + 1]
      /\ executions' = executions \ {x} /\ account' = account
  BY Zenon DEF CommitReservation
<1>3. PICK result \in {"Completed", "Retry"} : Settle(x, result, rows)
  BY AnswerSettles, Zenon DEF CommitReservation
<1>4. \/ /\ x.cmd.type = "RecordAccountCreated" /\ p.phase = "CreatingAccount"
         /\ p.account_id = x.cmd.account_id /\ p.accepted_profile = x.cmd.profile
         /\ q = AccountCreated(p.account_id, p.consumed_token_digest, p.accepted_profile,
                               x.cmd.created_at)
      \/ /\ x.cmd.type = "SubmitRegistrationProfile" /\ p.phase = "AwaitingProfile"
         /\ q = CreatingAccount(x.cmd.account_id, x.cmd.token_digest, x.cmd.profile)
      \/ /\ x.cmd.type \in {"ReserveEmail", "RequestVerificationCode", "VerifyEmail"}
         /\ ~ProfileAccepted(p) /\ ~ProfileAccepted(q)
  BY <1>2, CommitShape, Zenon
<1> HIDE DEF q
<1>5. \A f \in Emails : reservation'[f] = IF f = e THEN q ELSE reservation[f]
  BY <1>1, <1>2, Zenon
<1>6. \A f \in Emails :
         /\ ProfileAccepted(reservation[f]) =>
              /\ ProfileAccepted(reservation'[f])
              /\ reservation'[f].account_id = reservation[f].account_id
              /\ reservation'[f].accepted_profile = reservation[f].accepted_profile
         /\ reservation[f].phase = "AccountCreated" => reservation'[f] = reservation[f]
  BY <1>4, <1>5 DEF ProfileAccepted, AccountCreated
<1>7. \A row \in rows : RowOK(row)
  BY <1>1, PublishedType DEF Execution
<1>8. /\ \A row \in outbox' : \E r \in rows :
            /\ row.task = r.task
            /\ row.status = "completed" /\ row # r =>
                  result = "Completed" /\ x.caller = Delivery(r.task)
      /\ \A r \in rows : \E row \in outbox' : row.task = r.task
  BY <1>3, <1>7, SettleShape DEF Results
<1>9. \A t : x.caller = Delivery(t) => CommandOfTask(x.cmd, t)
  BY <1>1 DEF ExecutionJustified, Delivery
<1>10. /\ outbox \subseteq rows
       /\ x.task # NoTask => \E row \in rows : row.task = x.task
       /\ \A row \in rows :
             row \in outbox \/ (row.task = x.task /\ x.task # NoTask /\ row.status = "pending")
  BY PublishedRows
<1> HIDE DEF rows
<1>11. ASSUME NEW row \in outbox'
       PROVE  RowJustified(row)'
  <2>1. PICK r \in rows : /\ row.task = r.task
                          /\ row.status = "completed" /\ row # r =>
                                result = "Completed" /\ x.caller = Delivery(r.task)
    BY <1>8, Zenon
  <2>2. r.task.email \in Emails /\ r.task.account_id \in AccountIds
    BY <1>7, Zenon DEF RowOK, Row, Task
  <2>3. row.status = "completed" /\ row # r =>
           /\ r.task.kind = "RecordAccountCreated" /\ x.cmd.type = "RecordAccountCreated"
           /\ r.task.email = e
    BY <1>2, <1>9, <2>1, Zenon DEF CommandOfTask, OnAccount
  <2>4. CASE r \in outbox
    <3>1. RowJustified(r)
      BY <2>4, Zenon DEF WorkJustified
    <3>2. ASSUME r.task.kind = "CreateAccount"
          PROVE  RowJustified(row)'
      <4>1. /\ Accepted(r.task.email, r.task.account_id, r.task.profile)
            /\ TrimmedProfile(r.task.profile) = r.task.profile
            /\ row.status = "completed" => /\ account[r.task.account_id].created
                                           /\ account[r.task.account_id].email = r.task.email
        BY <2>3, <3>1, <3>2, Zenon DEF RowJustified
      <4>2. Accepted(r.task.email, r.task.account_id, r.task.profile)'
        BY <1>6, <2>2, <4>1, Zenon DEF Accepted
      <4> QED
        BY <1>2, <2>1, <3>2, <4>1, <4>2, Zenon DEF RowJustified
    <3>3. ASSUME r.task.kind = "RecordAccountCreated"
          PROVE  RowJustified(row)'
      <4>1. row.status = "completed" => reservation'[r.task.email].phase = "AccountCreated"
        <5>1. CASE row = r
          BY <1>6, <2>2, <3>1, <3>3, <5>1, Zenon DEF RowJustified
        <5>2. CASE row # r
          BY <1>1, <1>4, <1>5, <2>3, <5>2 DEF AccountCreated
        <5> QED
          BY <5>1, <5>2, Zenon
      <4> QED
        BY <1>2, <2>1, <3>1, <3>3, <4>1, Zenon DEF RowJustified
    <3> QED
      BY <2>1, <3>2, <3>3, Zenon DEF RowJustified
  <2>5. CASE r \notin outbox
    <3>1. r.task = x.task /\ x.task # NoTask /\ row.status # "completed"
      BY <1>1, <1>10, <2>1, <2>3, <2>5, Zenon DEF ExecutionJustified
    <3>2. CASE x.cmd.type = "SubmitRegistrationProfile"
      <4>1. /\ row.task = CreateAccountTask(e, x.cmd.account_id, x.cmd.profile)
            /\ TrimmedProfile(x.cmd.profile) = x.cmd.profile
        BY <1>1, <2>1, <3>1, <3>2, Zenon DEF ExecutionJustified
      <4>2. Accepted(e, x.cmd.account_id, x.cmd.profile)'
        BY <1>1, <1>4, <1>5, <3>2 DEF Accepted, ProfileAccepted, CreatingAccount
      <4> QED
        BY <3>1, <4>1, <4>2 DEF RowJustified, CreateAccountTask
    <3>3. CASE x.cmd.type # "SubmitRegistrationProfile"
      <4>1. x.task.kind \in {"None", "SendVerificationCode"}
        BY <1>1, <1>4, <3>1, <3>3, Zenon DEF ExecutionJustified
      <4> QED
        BY <2>1, <3>1, <4>1, Zenon DEF RowJustified
    <3> QED
      BY <3>2, <3>3, Zenon
  <2> QED
    BY <2>4, <2>5, Zenon
<1>12. ASSUME NEW y \in executions'
       PROVE  ExecutionJustified(y)'
  <2>1. ExecutionJustified(y) /\ y.cmd \in Command /\ y.base \in Nat
    BY <1>2, TypeOKRows, Zenon DEF WorkJustified, ExecutionOK, Execution
  <2>2. y.cmd.email \in Emails
    BY <2>1, Zenon DEF Command
  <2>3. \/ Version(y.cmd)' = Version(y.cmd) /\ Decide(y.cmd)' = Decide(y.cmd)
        \/ Version(y.cmd) = x.base /\ Version(y.cmd)' = x.base + 1
    <3>1. CASE OnAccount(y.cmd)
      BY <1>2, <3>1, Zenon DEF Version, Decide, OnAccount
    <3>2. CASE ~OnAccount(y.cmd) /\ y.cmd.email # e
      <4>1. /\ reservation'[y.cmd.email] = reservation[y.cmd.email]
            /\ version'[y.cmd.email] = version[y.cmd.email]
        BY <1>1, <1>2, <2>2, <3>2, Zenon
      <4> QED
        BY <1>2, <3>2, <4>1, Zenon DEF Version, Decide, OnAccount
    <3>3. CASE ~OnAccount(y.cmd) /\ y.cmd.email = e
      BY <1>1, <1>2, <3>3, Zenon DEF Version, OnAccount
    <3> QED
      BY <3>1, <3>2, <3>3, Zenon
  <2>4. /\ y.base <= Version(y.cmd)'
        /\ y.base = Version(y.cmd)' => Decide(y.cmd)'.accepted /\ y.event = Decide(y.cmd)'.event
    BY <1>1, <2>1, <2>3 DEF ExecutionJustified
  <2>5. Accepted(y.cmd.email, y.cmd.account_id, y.cmd.profile) =>
           Accepted(y.cmd.email, y.cmd.account_id, y.cmd.profile)'
    BY <1>6, <2>2, Zenon DEF Accepted
  <2>6. CommandOfTask(y.cmd, y.caller.task)' = CommandOfTask(y.cmd, y.caller.task)
    BY Zenon DEF CommandOfTask
  <2> QED
    BY <1>2, <2>1, <2>4, <2>5, <2>6, Zenon DEF ExecutionJustified
<1>13. TasksPublished'
  <2>1. ASSUME NEW f \in Emails, ProfileAccepted(reservation'[f])
        PROVE  \E row \in outbox' : row.task = CreateAccountTask(f, reservation'[f].account_id,
                                                           reservation'[f].accepted_profile)
    <3>1. CASE ProfileAccepted(reservation[f])
      <4>1. PICK row \in outbox : row.task = CreateAccountTask(f, reservation[f].account_id,
                                                         reservation[f].accepted_profile)
        BY <3>1, Zenon DEF WorkJustified, TasksPublished
      <4> QED
        BY <1>6, <1>8, <1>10, <3>1, <4>1
    <3>2. CASE ~ProfileAccepted(reservation[f])
      <4>1. /\ f = e /\ x.cmd.type = "SubmitRegistrationProfile"
            /\ reservation'[f].account_id = x.cmd.account_id
            /\ reservation'[f].accepted_profile = x.cmd.profile
        BY <1>4, <1>5, <2>1, <3>2 DEF ProfileAccepted, CreatingAccount
      <4>2. x.task = CreateAccountTask(e, x.cmd.account_id, x.cmd.profile) /\ x.task # NoTask
        BY <1>1, <4>1 DEF ExecutionJustified, CreateAccountTask, NoTask
      <4> QED
        BY <1>8, <1>10, <4>1, <4>2, Zenon
    <3> QED
      BY <3>1, <3>2, Zenon
  <2>2. ASSUME NEW id \in AccountIds, account[id].created
        PROVE  \E row \in outbox' : row.task = RecordAccountCreatedTask(account[id].email, id,
                                          account[id].profile, account[id].created_at)
    <3>1. PICK row \in outbox : row.task = RecordAccountCreatedTask(account[id].email, id,
                                          account[id].profile, account[id].created_at)
      BY <2>2, Zenon DEF WorkJustified, TasksPublished
    <3> QED
      BY <1>8, <1>10, <3>1
  <2> QED
    BY <1>2, <2>1, <2>2, Zenon DEF TasksPublished
<1>14. AccountFollowsAcceptance'
  <2>1. ASSUME NEW id \in AccountIds, account[id].created
        PROVE  /\ account[id].account_id = id
               /\ Accepted(account[id].email, id, account[id].profile)'
    <3>1. account[id].email \in Emails
      BY <2>1, CreatedAccountType, Zenon
    <3>2. account[id].account_id = id /\ Accepted(account[id].email, id, account[id].profile)
      BY <2>1, Zenon DEF WorkJustified, AccountFollowsAcceptance
    <3> QED
      BY <1>2, <1>6, <3>1, <3>2, Zenon DEF Accepted
  <2> QED
    BY <1>2, <2>1, Zenon DEF AccountFollowsAcceptance, Accepted
<1>15. CompletionMatchesAccount'
  <2>1. ASSUME NEW f \in Emails, reservation'[f].phase = "AccountCreated"
        PROVE  account[reservation'[f].account_id] =
                  CreatedAccount(reservation'[f].account_id, f, reservation'[f].accepted_profile,
                                 reservation'[f].created_at)
    <3>1. CASE f # e
      BY <1>5, <2>1, <3>1, Zenon DEF WorkJustified, CompletionMatchesAccount
    <3>2. CASE f = e
      <4>1. /\ x.cmd.type = "RecordAccountCreated"
            /\ reservation'[f] = AccountCreated(x.cmd.account_id, p.consumed_token_digest,
                                                x.cmd.profile, x.cmd.created_at)
        BY <1>4, <1>5, <2>1, <3>2 DEF ProfileAccepted, CreatingAccount
      <4>2. account[x.cmd.account_id] =
               CreatedAccount(x.cmd.account_id, e, x.cmd.profile, x.cmd.created_at)
        BY <1>1, <4>1, Zenon DEF ExecutionJustified
      <4> QED
        BY <3>2, <4>1, <4>2 DEF AccountCreated
    <3> QED
      BY <3>1, <3>2, Zenon
  <2> QED
    BY <1>2, <2>1, Zenon DEF CompletionMatchesAccount
<1> QED
  BY <1>11, <1>12, <1>13, <1>14, <1>15, Zenon DEF WorkJustified

(* A commit to an account keeps the invariant: the id had no account, so   *)
(* nothing that needs one refers to it yet, and the account it makes is    *)
(* the one its reservation accepted.                                       *)
LEMMA CommitAccountJustified ==
    ASSUME TypeOK, WorkJustified, NEW x \in executions, CommitAccount(x)
    PROVE  WorkJustified'
<1> DEFINE c == x.cmd
           id == c.account_id
           rows == Published(x.task, x.base + 1)
           new == CreatedAccount(id, c.email, c.profile, c.created_at)
<1>1. /\ x \in Execution /\ id \in AccountIds /\ c.email \in Emails /\ x.base \in Nat
      /\ ExecutionJustified(x) /\ account \in [AccountIds -> Account]
  BY TypeOKRows, Zenon DEF ExecutionOK, Execution, Command, WorkJustified, TypeOK
<1>2. /\ c.type = "CreateAccount" /\ x.base = Version(c)
      /\ account' = [account EXCEPT ![id] = ApplyAccountCreated(account[id], x.event)]
      /\ executions' = executions \ {x} /\ reservation' = reservation /\ version' = version
  BY Zenon DEF CommitAccount, OnAccount
<1>3. PICK result \in {"Completed", "Retry"} : Settle(x, result, rows)
  BY AnswerSettles, Zenon DEF CommitAccount
<1>4. /\ x.task = RecordAccountCreatedTask(c.email, id, c.profile, c.created_at)
      /\ TrimmedProfile(c.profile) = c.profile
      /\ Accepted(c.email, id, c.profile)
      /\ Decide(c).accepted /\ x.event = Decide(c).event
  BY <1>1, <1>2, Zenon DEF ExecutionJustified
<1>5. /\ ~account[id].created
      /\ x.event = [type |-> "AccountCreated", account_id |-> id, email |-> c.email,
                    profile |-> c.profile, created_at |-> c.created_at]
  <2>1. Decide(c) = HandleCreateAccount(account[id], id, c.email, c.profile, c.created_at)
    BY <1>2, Zenon DEF Decide
  <2> QED
    BY <1>4, <2>1, CreateAccepted
<1>6. ApplyAccountCreated(account[id], x.event) = new
  BY <1>5 DEF ApplyAccountCreated
<1>7. /\ \A i \in AccountIds : account'[i] = IF i = id THEN new ELSE account[i]
      /\ new.created /\ new.account_id = id /\ new.email = c.email
      /\ new.profile = c.profile /\ new.created_at = c.created_at
  BY <1>1, <1>2, <1>6, CreatedIsCreated
<1>8. \A row \in rows : RowOK(row)
  BY <1>1, PublishedType DEF Execution
<1>9. /\ \A row \in outbox' : \E r \in rows :
            /\ row.task = r.task
            /\ row.status = "completed" /\ row # r =>
                  result = "Completed" /\ x.caller = Delivery(r.task)
      /\ \A r \in rows : \E row \in outbox' : row.task = r.task
  BY <1>3, <1>8, SettleShape DEF Results
<1>10. \A t : x.caller = Delivery(t) => CommandOfTask(c, t)
  BY <1>1 DEF ExecutionJustified, Delivery
<1>11. /\ outbox \subseteq rows
       /\ x.task # NoTask => \E row \in rows : row.task = x.task
       /\ \A row \in rows :
             row \in outbox \/ (row.task = x.task /\ x.task # NoTask /\ row.status = "pending")
  BY PublishedRows
<1>12. /\ x.task # NoTask /\ x.task.kind = "RecordAccountCreated" /\ x.task.account_id = id
       /\ x.task.email = c.email /\ x.task.profile = c.profile
       /\ x.task.created_at = c.created_at
  BY <1>4 DEF RecordAccountCreatedTask, NoTask
<1> HIDE DEF rows, new
<1>13. ASSUME NEW row \in outbox'
       PROVE  RowJustified(row)'
  <2>1. PICK r \in rows : /\ row.task = r.task
                          /\ row.status = "completed" /\ row # r =>
                                result = "Completed" /\ x.caller = Delivery(r.task)
    BY <1>9
  <2>2. r.task.account_id \in AccountIds
    BY <1>8, Zenon DEF RowOK, Row, Task
  <2>3. row.status = "completed" /\ row # r =>
           /\ r.task.kind = "CreateAccount" /\ r.task.account_id = id
           /\ r.task.email = c.email
    BY <1>2, <1>10, <2>1, Zenon DEF CommandOfTask
  <2>4. CASE r \in outbox
    <3>1. RowJustified(r)
      BY <2>4 DEF WorkJustified
    <3>2. ASSUME r.task.kind = "CreateAccount"
          PROVE  RowJustified(row)'
      <4>1. /\ Accepted(r.task.email, r.task.account_id, r.task.profile)
            /\ TrimmedProfile(r.task.profile) = r.task.profile
            /\ r.status = "completed" => /\ account[r.task.account_id].created
                                         /\ account[r.task.account_id].email = r.task.email
        BY <3>1, <3>2, Zenon DEF RowJustified
      <4>2. Accepted(r.task.email, r.task.account_id, r.task.profile)'
        BY <1>2, <4>1, Zenon DEF Accepted
      <4>3. row.status = "completed" => /\ account'[r.task.account_id].created
                                        /\ account'[r.task.account_id].email = r.task.email
        <5>1. CASE row = r
          BY <1>5, <1>7, <2>2, <4>1, <5>1, Zenon
        <5>2. CASE row # r
          BY <1>1, <1>7, <2>3, <5>2, Zenon
        <5> QED
          BY <5>1, <5>2, Zenon
      <4> QED
        BY <2>1, <3>2, <4>1, <4>2, <4>3, Zenon DEF RowJustified
    <3>3. ASSUME r.task.kind = "RecordAccountCreated"
          PROVE  RowJustified(row)'
      <4>1. /\ account[r.task.account_id] = CreatedAccount(r.task.account_id, r.task.email,
                                               r.task.profile, r.task.created_at)
            /\ row.status = "completed" => reservation[r.task.email].phase = "AccountCreated"
        BY <2>3, <3>1, <3>3, Zenon DEF RowJustified
      <4>2. account'[r.task.account_id] = account[r.task.account_id]
        BY <1>5, <1>7, <2>2, <4>1, CreatedIsCreated
      <4> QED
        BY <1>2, <2>1, <3>3, <4>1, <4>2, Zenon DEF RowJustified
    <3> QED
      BY <2>1, <3>2, <3>3 DEF RowJustified
  <2>5. CASE r \notin outbox
    <3>1. r.task = x.task /\ row.status # "completed"
      BY <1>11, <1>12, <2>1, <2>3, <2>5, Zenon
    <3>2. account'[id] = CreatedAccount(id, c.email, c.profile, c.created_at)
      BY <1>1, <1>7, Zenon DEF new
    <3> QED
      BY <1>12, <2>1, <3>1, <3>2, Zenon DEF RowJustified
  <2> QED
    BY <2>4, <2>5
<1>14. ASSUME NEW y \in executions'
       PROVE  ExecutionJustified(y)'
  <2>1. ExecutionJustified(y) /\ y.cmd \in Command /\ y.base \in Nat
    BY <1>2, TypeOKRows, Zenon DEF WorkJustified, ExecutionOK, Execution
  <2>2. y.cmd.account_id \in AccountIds
    BY <2>1, Zenon DEF Command
  <2>3. \/ Version(y.cmd)' = Version(y.cmd) /\ Decide(y.cmd)' = Decide(y.cmd)
        \/ Version(y.cmd) = 0 /\ Version(y.cmd)' = 1
    <3>1. CASE ~OnAccount(y.cmd)
      BY <1>2, <3>1, <2>1, Zenon DEF Version, Decide, OnAccount, Command
    <3>2. CASE OnAccount(y.cmd) /\ y.cmd.account_id # id
      <4>1. account'[y.cmd.account_id] = account[y.cmd.account_id]
        BY <1>7, <2>2, <3>2, Zenon
      <4> QED
        BY <1>2, <3>2, <4>1, Zenon DEF Version, Decide, OnAccount
    <3>3. CASE OnAccount(y.cmd) /\ y.cmd.account_id = id
      BY <1>1, <1>5, <1>7, <3>3, Zenon DEF Version, OnAccount
    <3> QED
      BY <3>1, <3>2, <3>3, Zenon
  <2>4. /\ y.base <= Version(y.cmd)'
        /\ y.base = Version(y.cmd)' => Decide(y.cmd)'.accepted /\ y.event = Decide(y.cmd)'.event
    BY <2>1, <2>3 DEF ExecutionJustified
  <2>5. y.cmd.type = "RecordAccountCreated" =>
           account'[y.cmd.account_id] = account[y.cmd.account_id]
    BY <1>5, <1>7, <2>1, <2>2, CreatedIsCreated DEF ExecutionJustified
  <2>6. /\ CommandOfTask(y.cmd, y.caller.task)' = CommandOfTask(y.cmd, y.caller.task)
        /\ Accepted(y.cmd.email, y.cmd.account_id, y.cmd.profile)' =
              Accepted(y.cmd.email, y.cmd.account_id, y.cmd.profile)
    BY <1>2, Zenon DEF CommandOfTask, Accepted
  <2> QED
    BY <2>1, <2>4, <2>5, <2>6, Zenon DEF ExecutionJustified
<1>15. TasksPublished'
  <2>1. ASSUME NEW f \in Emails, ProfileAccepted(reservation[f])
        PROVE  \E row \in outbox' : row.task = CreateAccountTask(f, reservation[f].account_id,
                                                           reservation[f].accepted_profile)
    <3>1. PICK row \in outbox : row.task = CreateAccountTask(f, reservation[f].account_id,
                                                       reservation[f].accepted_profile)
      BY <2>1 DEF WorkJustified, TasksPublished
    <3> QED
      BY <1>9, <1>11, <3>1
  <2>2. ASSUME NEW i \in AccountIds, account'[i].created
        PROVE  \E row \in outbox' : row.task = RecordAccountCreatedTask(account'[i].email, i,
                                          account'[i].profile, account'[i].created_at)
    <3>1. CASE i = id
      <4>1. account'[i] = new /\ x.task = RecordAccountCreatedTask(new.email, i, new.profile,
                                                                  new.created_at)
        BY <1>1, <1>4, <1>7, <3>1, Zenon
      <4> QED
        BY <1>9, <1>11, <1>12, <4>1
    <3>2. CASE i # id
      <4>1. account'[i] = account[i]
        BY <1>7, <3>2, Zenon
      <4>2. PICK row \in outbox : row.task = RecordAccountCreatedTask(account[i].email, i,
                                          account[i].profile, account[i].created_at)
        BY <2>2, <4>1, Zenon DEF WorkJustified, TasksPublished
      <4> QED
        BY <1>9, <1>11, <4>1, <4>2
    <3> QED
      BY <3>1, <3>2, Zenon
  <2> QED
    BY <1>2, <2>1, <2>2, Zenon DEF TasksPublished
<1>16. AccountFollowsAcceptance'
  <2>1. ASSUME NEW i \in AccountIds, account'[i].created
        PROVE  /\ account'[i].account_id = i
               /\ Accepted(account[i].email, i, account[i].profile)'
    <3>1. CASE i = id
      <4>1. account'[i] = new
        BY <1>1, <1>7, <3>1, Zenon
      <4>2. Accepted(new.email, i, new.profile)
        BY <1>4, <1>7, <3>1, Zenon
      <4> QED
        BY <1>2, <1>7, <3>1, <4>1, <4>2, Zenon DEF Accepted
    <3>2. CASE i # id
      <4>1. account'[i] = account[i]
        BY <1>7, <3>2
      <4> QED
        BY <1>2, <2>1, <4>1, Zenon DEF WorkJustified, AccountFollowsAcceptance, Accepted
    <3> QED
      BY <3>1, <3>2, Zenon
  <2> QED
    BY <2>1, Zenon DEF AccountFollowsAcceptance
<1>17. CompletionMatchesAccount'
  <2>1. ASSUME NEW f \in Emails, reservation[f].phase = "AccountCreated"
        PROVE  account'[reservation[f].account_id] =
                  CreatedAccount(reservation[f].account_id, f, reservation[f].accepted_profile,
                                 reservation[f].created_at)
    <3>1. account[reservation[f].account_id] =
             CreatedAccount(reservation[f].account_id, f, reservation[f].accepted_profile,
                            reservation[f].created_at)
      BY <2>1, Zenon DEF WorkJustified, CompletionMatchesAccount
    <3>2. reservation[f].account_id \in AccountIds
      BY <2>1 DEF TypeOK, Phase, Absent
    <3> QED
      BY <1>5, <1>7, <3>1, <3>2, CreatedIsCreated
  <2> QED
    BY <1>2, <2>1, Zenon DEF CompletionMatchesAccount
<1> QED
  BY <1>13, <1>14, <1>15, <1>16, <1>17 DEF WorkJustified
====
