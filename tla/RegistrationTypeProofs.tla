---- MODULE RegistrationTypeProofs ----
(***************************************************************************)
(* Type correctness of Registration, for every set of emails, ids, codes,  *)
(* tokens, submissions and instants, every snapshot interval, every number *)
(* of attempts and whether or not account ids are unique.                  *)
(***************************************************************************)
EXTENDS Registration, TLAPS

(* Trimming keeps a profile a profile, and RegistrationProfile::new always *)
(* returns one that trimming leaves alone.                                 *)
LEMMA TrimFacts ==
    ASSUME NEW f \in Name, NEW l \in Name, NEW d \in Nat, NEW v \in Nat
    PROVE  /\ RegistrationProfile(f, l, d, v) \in Profile
           /\ TrimmedProfile(RegistrationProfile(f, l, d, v)) = RegistrationProfile(f, l, d, v)
BY Zenon DEF RegistrationProfile, TrimmedProfile, Trim, Profile, Name

(* Trimming any profile gives a profile. *)
LEMMA TrimmedProfileType ==
    ASSUME NEW p \in Profile
    PROVE  TrimmedProfile(p) \in Profile
BY Zenon DEF RegistrationProfile, TrimmedProfile, Trim, Profile, Name

(* The names of the phases. *)
LEMMA PhaseNames ==
    ASSUME NEW p \in Phase
    PROVE  p.phase \in {"Absent", "AwaitingCode", "AwaitingProfile", "CreatingAccount",
                        "AccountCreated"}
BY DEF Phase, Absent

(* What an accepted command says of the phase it was accepted in, and its  *)
(* event: completion, submission and verification.                         *)
LEMMA RecordAccepted ==
    ASSUME NEW p \in Phase, NEW id, NEW profile, NEW at,
           HandleRecordAccountCreated(p, id, profile, at).accepted
    PROVE  /\ p.phase = "CreatingAccount" /\ p.account_id = id /\ p.accepted_profile = profile
           /\ HandleRecordAccountCreated(p, id, profile, at).event =
                 [type |-> "AccountCreationCompleted", account_id |-> id, created_at |-> at]
<1>1. p.phase = "CreatingAccount" /\ p.account_id = id /\ p.accepted_profile = profile
  BY PhaseNames, Zenon DEF HandleRecordAccountCreated, Accept, Reject, ProfileAccepted
<1>2. HandleRecordAccountCreated(p, id, profile, at) =
        Accept([type |-> "AccountCreationCompleted", account_id |-> id, created_at |-> at])
  BY <1>1, Zenon DEF HandleRecordAccountCreated, ProfileAccepted
<1> QED
  BY <1>1, <1>2 DEF Accept

(* handle_submit_profile accepts only the token of the awaited profile. *)
LEMMA SubmitAccepted ==
    ASSUME NEW p \in Phase, NEW id, NEW digest, NEW profile,
           HandleSubmitProfile(p, id, digest, profile).accepted
    PROVE  /\ p.phase = "AwaitingProfile" /\ p.account_id = id /\ p.token_digest = digest
           /\ ProfileError(TrimmedProfile(profile)) = "none"
           /\ HandleSubmitProfile(p, id, digest, profile).event =
                 [type |-> "RegistrationProfileAccepted", account_id |-> id,
                  consumed_token_digest |-> digest, profile |-> TrimmedProfile(profile)]
<1>1. /\ p.phase = "AwaitingProfile" /\ p.account_id = id /\ p.token_digest = digest
      /\ ProfileError(TrimmedProfile(profile)) = "none"
  BY PhaseNames, Zenon DEF HandleSubmitProfile, Accept, Reject, ProfileAccepted
<1>2. HandleSubmitProfile(p, id, digest, profile) =
        Accept([type |-> "RegistrationProfileAccepted", account_id |-> id,
                  consumed_token_digest |-> digest, profile |-> TrimmedProfile(profile)])
  BY <1>1, Zenon DEF HandleSubmitProfile, ProfileAccepted
<1> QED
  BY <1>1, <1>2 DEF Accept

(* handle_verify accepts only while a code is awaited for the same id. *)
LEMMA VerifyAccepted ==
    ASSUME NEW p \in Phase, NEW id, NEW code, NEW digest,
           HandleVerify(p, id, code, digest).accepted
    PROVE  /\ p.phase = "AwaitingCode" /\ p.account_id = id
           /\ HandleVerify(p, id, code, digest).event =
                 [type |-> "EmailVerified", account_id |-> id, token_digest |-> digest]
<1>1. p.phase = "AwaitingCode" /\ p.account_id = id /\ p.verification_code = code
  BY PhaseNames, Zenon DEF HandleVerify, Accept, Reject, ProfileAccepted
<1>2. HandleVerify(p, id, code, digest) =
        Accept([type |-> "EmailVerified", account_id |-> id, token_digest |-> digest])
  BY <1>1, Zenon DEF HandleVerify, ProfileAccepted
<1> QED
  BY <1>1, <1>2 DEF Accept

(* create_account is accepted only for an id without an account. *)
LEMMA CreateAccepted ==
    ASSUME NEW a, NEW id, NEW e, NEW profile, NEW at,
           HandleCreateAccount(a, id, e, profile, at).accepted
    PROVE  /\ ~a.created
           /\ HandleCreateAccount(a, id, e, profile, at).event =
                 [type |-> "AccountCreated", account_id |-> id, email |-> e,
                  profile |-> TrimmedProfile(profile), created_at |-> at]
<1>1. ~a.created /\ ProfileError(TrimmedProfile(profile)) = "none"
  BY Zenon DEF HandleCreateAccount, Accept, Reject
<1>2. HandleCreateAccount(a, id, e, profile, at) =
        Accept([type |-> "AccountCreated", account_id |-> id, email |-> e,
                profile |-> TrimmedProfile(profile), created_at |-> at])
  BY <1>1, Zenon DEF HandleCreateAccount
<1> QED
  BY <1>1, <1>2 DEF Accept

(* An accepted command of a well-typed state yields a well-typed event of  *)
(* its own aggregate.                                                      *)
LEMMA DecideType ==
    ASSUME TypeOK, NEW cmd \in Command, Decide(cmd).accepted
    PROVE  /\ Decide(cmd).event \in Event
           /\ (Decide(cmd).event.type = "AccountCreated") = OnAccount(cmd)
<1>1. CASE cmd.type = "ReserveEmail"
  BY <1>1, Zenon DEF Decide, HandleReserve, Accept, Reject, Command, Event, OnAccount
<1>2. CASE cmd.type = "RequestVerificationCode"
  BY <1>2, Zenon DEF Decide, HandleRequestVerificationCode, Accept, Reject, Command, Event, OnAccount
<1>3. CASE cmd.type = "VerifyEmail"
  <2>1. reservation[cmd.email] \in Phase
    BY Zenon DEF Command, TypeOK
  <2>2. Decide(cmd) = HandleVerify(reservation[cmd.email], cmd.account_id, cmd.code,
                                   cmd.token_digest)
    BY <1>3, Zenon DEF Decide
  <2>3. Decide(cmd).event = [type |-> "EmailVerified", account_id |-> cmd.account_id,
                             token_digest |-> cmd.token_digest]
    BY <2>1, <2>2, VerifyAccepted
  <2> QED
    BY <1>3, <2>3 DEF Command, Event, OnAccount
<1>4. CASE cmd.type = "SubmitRegistrationProfile"
  <2>1. TrimmedProfile(cmd.profile) \in Profile
    BY <1>4, TrimmedProfileType, Zenon DEF Command
  <2>2. reservation[cmd.email] \in Phase
    BY DEF Command, TypeOK
  <2>3. Decide(cmd) = HandleSubmitProfile(reservation[cmd.email], cmd.account_id,
                                          cmd.token_digest, cmd.profile)
    BY <1>4, Zenon DEF Decide
  <2>4. Decide(cmd).event = [type |-> "RegistrationProfileAccepted",
                             account_id |-> cmd.account_id,
                             consumed_token_digest |-> cmd.token_digest,
                             profile |-> TrimmedProfile(cmd.profile)]
    BY <2>2, <2>3, SubmitAccepted
  <2> QED
    BY <1>4, <2>1, <2>4 DEF Command, Event, OnAccount
<1>5. CASE cmd.type = "RecordAccountCreated"
  <2>1. reservation[cmd.email] \in Phase
    BY DEF Command, TypeOK
  <2>2. Decide(cmd) = HandleRecordAccountCreated(reservation[cmd.email], cmd.account_id,
                                                 cmd.profile, cmd.created_at)
    BY <1>5, Zenon DEF Decide
  <2>3. Decide(cmd).event = [type |-> "AccountCreationCompleted",
                             account_id |-> cmd.account_id, created_at |-> cmd.created_at]
    BY <2>1, <2>2, RecordAccepted
  <2> QED
    BY <1>5, <2>3 DEF Command, Event, OnAccount
<1>6. CASE cmd.type = "CreateAccount"
  <2>1. TrimmedProfile(cmd.profile) \in Profile
    BY <1>6, TrimmedProfileType, Zenon DEF Command
  <2> QED
    BY <1>6, <2>1, Zenon DEF Decide, HandleCreateAccount, Accept, Reject, Command, Event, OnAccount
<1> QED
  BY <1>1, <1>2, <1>3, <1>4, <1>5, <1>6, Zenon DEF Command

----------------------------------------------------------------------------
(* Type correctness. *)

RowOK(row) == row \in Row /\ (row.status = "pending" => row.attempts < MaxAttempts)

ExecutionOK(x) == x \in Execution /\ (x.event.type = "AccountCreated") = OnAccount(x.cmd)

Results == {"Completed", "Retry", "Permanent"}

(* Claiming a pending row and settling a claimed one keep its type and its *)
(* task, and settle it as completed only if asked to.                      *)
LEMMA RowSteps ==
    ASSUME NEW row, RowOK(row)
    PROVE  /\ row.status = "pending" =>
                /\ RowOK(Claimed(row))
                /\ Claimed(row).task = row.task /\ Claimed(row).status = "processing"
           /\ \A result \in Results :
                /\ RowOK(Settled(row, result))
                /\ Settled(row, result).task = row.task
                /\ Settled(row, result).status = "completed" => result = "Completed"
<1>1. ASSUME row.status = "pending"
      PROVE  /\ RowOK(Claimed(row))
             /\ Claimed(row).task = row.task /\ Claimed(row).status = "processing"
  <2>1. row \in Row /\ row.attempts < MaxAttempts
    BY <1>1, Zenon DEF RowOK
  <2>2. row.attempts + 1 \in 0..MaxAttempts
    BY <2>1, ConstantsAssumption DEF Row
  <2> QED
    BY <2>1, <2>2, Zenon DEF RowOK, Claimed, Row
<1>2. ASSUME NEW result \in Results
      PROVE  /\ RowOK(Settled(row, result))
             /\ Settled(row, result).task = row.task
             /\ Settled(row, result).status = "completed" => result = "Completed"
  BY ConstantsAssumption DEF RowOK, Settled, Row, Results
<1> QED
  BY <1>1, <1>2, Zenon

(* A settlement leaves every row well-typed. *)
LEMMA SettleType ==
    ASSUME NEW x, NEW result \in Results, NEW rows, \A row \in rows : RowOK(row),
           Settle(x, result, rows)
    PROVE  \A row \in outbox' : RowOK(row)
BY RowSteps DEF Settle, Replace

(* A rejection is answered with one of the three results. *)
LEMMA RejectionResultType ==
    ASSUME NEW error
    PROVE  RejectionResult(error) \in Results
BY Zenon DEF RejectionResult, Results

(* Every task a well-typed execution publishes makes a well-typed row. *)
LEMMA PublishedType ==
    ASSUME TypeOK, NEW task \in Task \cup {NoTask}, NEW seq \in Nat
    PROVE  \A row \in Published(task, seq) : RowOK(row)
BY ConstantsAssumption DEF TypeOK, RowOK, Published, Row

(* A started command makes a well-typed execution. *)
LEMMA BeginType ==
    ASSUME TypeOK, NEW cmd \in Command, NEW task \in Task \cup {NoTask},
           NEW caller \in Caller, Begin(cmd, task, caller)
    PROVE  \A x \in executions' : ExecutionOK(x)
<1>1. Decide(cmd).event \in Event /\ (Decide(cmd).event.type = "AccountCreated") = OnAccount(cmd)
  BY DecideType, Zenon DEF Begin
<1>2. Version(cmd) \in Nat
  BY Zenon DEF Version, TypeOK, Command
<1>3. 1 \in 1..MaxCommandAttempts
  BY ConstantsAssumption
<1> DEFINE new == [cmd |-> cmd, task |-> task, caller |-> caller, base |-> Version(cmd),
                   event |-> Decide(cmd).event, attempt |-> 1]
<1>4. new \in Execution /\ new.event = Decide(cmd).event /\ new.cmd = cmd
  BY <1>1, <1>2, <1>3, Zenon DEF Execution
<1>5. ExecutionOK(new)
  BY <1>1, <1>4, Zenon DEF ExecutionOK
<1> QED
  BY <1>5, Zenon DEF Begin, TypeOK, ExecutionOK

(* The state a commit stores is a phase unless the application panicked. *)
LEMMA CommittedType ==
    ASSUME NEW p \in Phase, NEW ev \in Event, ev.type # "AccountCreated", NEW seq \in Nat,
           Committed(p, ev, seq) # Panicked
    PROVE  Committed(p, ev, seq) \in Phase
<1>1. ASSUME NEW q \in Phase \cup {Panicked}
      PROVE  Apply(q, ev) \in Phase \cup {Panicked}
  BY <1>1 DEF Apply, Event, Phase, AwaitingCode, AwaitingProfile, CreatingAccount,
              AccountCreated, Absent, Panicked
<1> QED
  BY <1>1 DEF Committed

(* A step that leaves the aggregates alone keeps the types if it leaves    *)
(* well-typed rows and executions.                                         *)
LEMMA TypeOfWork ==
    ASSUME TypeOK, UNCHANGED <<reservation, version, account>>,
           \A row \in outbox' : RowOK(row), \A x \in executions' : ExecutionOK(x),
           issued' \subseteq AccountIds, granted' = granted
    PROVE  TypeOK'
BY Zenon DEF TypeOK, RowOK, ExecutionOK, OnAccount

(* TypeOK, row by row and execution by execution. *)
LEMMA TypeOKRows ==
    ASSUME TypeOK
    PROVE  (\A row \in outbox : RowOK(row)) /\ (\A x \in executions : ExecutionOK(x))
BY Zenon DEF TypeOK, RowOK, ExecutionOK

(* Rows after a claim, alone or with its settlement. *)
LEMMA DeliveredType ==
    ASSUME TypeOK, NEW row \in outbox, row.status = "pending", NEW new,
           new = Claimed(row) \/ \E result \in Results : new = Settled(Claimed(row), result)
    PROVE  \A q \in Replace(outbox, row, new) : RowOK(q)
<1>1. RowOK(Claimed(row))
  BY RowSteps, TypeOKRows, Zenon
<1>2. RowOK(new)
  BY <1>1, RowSteps, Zenon
<1> QED
  BY <1>2, TypeOKRows, Zenon DEF Replace

(* The two continuation handlers keep the types. *)
LEMMA ContinueType ==
    ASSUME TypeOK, NEW row \in outbox, row.status = "pending", NEW cmd \in Command,
           NEW task \in Task \cup {NoTask}, Continue(row, cmd, task)
    PROVE  TypeOK'
<1> USE DEF Continue
<1>1. CASE Begin(cmd, task, Delivery(row.task)) /\ outbox' = Replace(outbox, row, Claimed(row))
  <2>1. Delivery(row.task) \in Caller
    BY TypeOKRows, Zenon DEF RowOK, Row, Delivery, Caller
  <2>2. \A x \in executions' : ExecutionOK(x)
    BY <1>1, <2>1, BeginType, Zenon
  <2>3. \A q \in outbox' : RowOK(q)
    BY <1>1, DeliveredType, Zenon
  <2> QED
    BY <2>2, <2>3, TypeOfWork, Zenon DEF TypeOK
<1>2. CASE /\ UNCHANGED executions
           /\ \/ outbox' = Replace(outbox, row, Claimed(row))
              \/ outbox' = Replace(outbox, row,
                             Settled(Claimed(row), RejectionResult(Decide(cmd).error)))
  <2>1. \A q \in outbox' : RowOK(q)
    BY <1>2, DeliveredType, RejectionResultType, Zenon
  <2>2. \A x \in executions' : ExecutionOK(x)
    BY <1>2, TypeOKRows, Zenon
  <2> QED
    BY <2>1, <2>2, TypeOfWork, Zenon DEF TypeOK
<1> QED
  BY <1>1, <1>2, Zenon

(* The part of a commit that answers the caller. *)
LEMMA AnswerType ==
    ASSUME TypeOK, NEW x \in executions, NEW seq \in Nat, Answer(x, Published(x.task, seq))
    PROVE  /\ \A row \in outbox' : RowOK(row)
           /\ \A g \in granted' : g \in [email : Emails, account_id : AccountIds, token : Tokens]
<1>1. x \in Execution
  BY TypeOKRows, Zenon DEF ExecutionOK
<1>2. \A row \in Published(x.task, seq) : RowOK(row)
  BY <1>1, PublishedType, Zenon DEF Execution
<1>3. \A row \in outbox' : RowOK(row)
  BY <1>2, SettleType, Zenon DEF Answer, Results
<1>4. x.caller.kind = "Confirmation" => x.caller.token \in Tokens
  BY <1>1 DEF Execution, Caller, Request, Nobody
<1>5. x.cmd.email \in Emails /\ x.cmd.account_id \in AccountIds
  BY <1>1, Zenon DEF Execution, Command
<1> QED
  BY <1>3, <1>4, <1>5 DEF Answer, TypeOK

(* The empty store is well-typed. *)
LEMMA TypeOKInit == Init => TypeOK
BY ConstantsAssumption DEF Init, TypeOK, Phase, Account, NoAccount

(* Every step keeps the types. *)
LEMMA TypeOKStep == TypeOK /\ [Next]_vars => TypeOK'
<1> SUFFICES ASSUME TypeOK, [Next]_vars PROVE TypeOK'
  BY Zenon
<1>1. ASSUME NEW e \in Emails, NEW id \in AccountIds, NEW code \in Codes,
             ReserveEmail(e, id, code) \/ RequestNewVerificationCode(e, id, code)
      PROVE  TypeOK'
  <2>1. PICK type \in {"ReserveEmail", "RequestVerificationCode"} :
          Begin([type |-> type, email |-> e, account_id |-> id, verification_code |-> code],
                SendVerificationCodeTask(e, id, code), Request)
    BY <1>1, Zenon DEF ReserveEmail, RequestNewVerificationCode
  <2>2. /\ [type |-> type, email |-> e, account_id |-> id, verification_code |-> code] \in Command
        /\ SendVerificationCodeTask(e, id, code) \in Task /\ Request \in Caller
    BY Zenon DEF Command, Task, SendVerificationCodeTask, Caller
  <2>3. \A x \in executions' : ExecutionOK(x)
    BY <2>1, <2>2, BeginType, Zenon
  <2> QED
    BY <1>1, <2>3, TypeOfWork, TypeOKRows, Zenon DEF ReserveEmail, RequestNewVerificationCode, TypeOK
<1>2. ASSUME NEW e \in Emails, NEW id \in AccountIds, NEW code \in Codes, NEW token \in Tokens,
             ConfirmEmail(e, id, code, token)
      PROVE  TypeOK'
  <2>1. /\ [type |-> "VerifyEmail", email |-> e, account_id |-> id, code |-> code,
            token_digest |-> Digest(token)] \in Command
        /\ Confirmation(token) \in Caller
    BY Zenon DEF Command, Confirmation, Caller, TokenDigest
  <2>2. \A x \in executions' : ExecutionOK(x)
    BY <1>2, <2>1, BeginType, Zenon DEF ConfirmEmail
  <2> QED
    BY <1>2, <2>2, TypeOfWork, TypeOKRows, Zenon DEF ConfirmEmail, TypeOK
<1>3. ASSUME NEW e \in Emails, NEW id \in AccountIds, NEW token \in Tokens,
             NEW sub \in Submissions, NEW t \in Instants, SubmitProfile(e, id, token, sub, t)
      PROVE  TypeOK'
  <2> DEFINE profile == RegistrationProfile(sub.first_name, sub.last_name, sub.date_of_birth,
                                            DateNaive(t))
  <2>1. DateNaive(t) \in Nat
    BY ConstantsAssumption DEF DateNaive
  <2>2. profile \in Profile
    BY <2>1, ConstantsAssumption, TrimFacts, Zenon DEF Name
  <2> HIDE DEF profile
  <2>3. /\ [type |-> "SubmitRegistrationProfile", email |-> e, account_id |-> id,
            token_digest |-> Digest(token), profile |-> profile] \in Command
        /\ CreateAccountTask(e, id, profile) \in Task /\ Request \in Caller
    BY <2>2, Zenon DEF Command, Caller, TokenDigest, Task, CreateAccountTask
  <2>4. Begin([type |-> "SubmitRegistrationProfile", email |-> e, account_id |-> id,
               token_digest |-> Digest(token), profile |-> profile],
              CreateAccountTask(e, id, profile), Request)
    BY <1>3, Zenon DEF SubmitProfile, profile
  <2>5. \A x \in executions' : ExecutionOK(x)
    BY <2>3, <2>4, BeginType, Zenon
  <2> QED
    BY <1>3, <2>5, TypeOfWork, TypeOKRows, Zenon DEF SubmitProfile, TypeOK
<1>4. ASSUME NEW row \in outbox, DeliverSendVerificationCode(row)
      PROVE  TypeOK'
  <2>1. \A q \in outbox' : RowOK(q)
    BY <1>4, DeliveredType, Zenon DEF DeliverSendVerificationCode, Results
  <2> QED
    BY <1>4, <2>1, TypeOfWork, TypeOKRows, Zenon DEF DeliverSendVerificationCode, TypeOK
<1>5. ASSUME NEW row \in outbox, NEW t \in Instants, DeliverCreateAccount(row, t)
      PROVE  TypeOK'
  <2> DEFINE cmd == [type |-> "CreateAccount", email |-> row.task.email,
                     account_id |-> row.task.account_id, profile |-> row.task.profile,
                     created_at |-> t]
             task == RecordAccountCreatedTask(row.task.email, row.task.account_id,
                                              row.task.profile, t)
  <2>1. cmd \in Command /\ task \in Task
    BY <1>5, TypeOKRows, Zenon DEF RowOK, Row, Task, Command, RecordAccountCreatedTask, DeliverCreateAccount
  <2>2. Continue(row, cmd, task) /\ row.status = "pending"
    BY <1>5, Zenon DEF DeliverCreateAccount
  <2> QED
    BY <2>1, <2>2, ContinueType, Zenon
<1>6. ASSUME NEW row \in outbox, DeliverRecordAccountCreated(row)
      PROVE  TypeOK'
  <2> DEFINE cmd == [type |-> "RecordAccountCreated", email |-> row.task.email,
                     account_id |-> row.task.account_id, profile |-> row.task.profile,
                     created_at |-> row.task.created_at]
  <2>1. cmd \in Command
    BY <1>6, TypeOKRows, Zenon DEF RowOK, Row, Task, Command, DeliverRecordAccountCreated
  <2>2. Continue(row, cmd, NoTask) /\ row.status = "pending"
    BY <1>6, Zenon DEF DeliverRecordAccountCreated
  <2> QED
    BY <2>1, <2>2, ContinueType, Zenon
<1>7. ASSUME NEW x \in executions, CommitReservation(x)
      PROVE  TypeOK'
  <2> DEFINE e == x.cmd.email
             phase == Committed(reservation[e], x.event, x.base + 1)
  <2>1. ExecutionOK(x) /\ x.base + 1 \in Nat /\ e \in Emails
    BY TypeOKRows DEF ExecutionOK, Execution, Command
  <2>2. phase \in Phase
    BY <1>7, <2>1, CommittedType, Zenon DEF CommitReservation, ExecutionOK, Execution, TypeOK
  <2>3. /\ \A row \in outbox' : RowOK(row)
        /\ \A g \in granted' : g \in [email : Emails, account_id : AccountIds, token : Tokens]
    BY <1>7, <2>1, AnswerType, Zenon DEF CommitReservation
  <2>4. /\ reservation' \in [Emails -> Phase] /\ version' \in [Emails -> Nat]
        /\ account' = account /\ issued' = issued
    BY <1>7, <2>1, <2>2, Zenon DEF CommitReservation, TypeOK
  <2>5. \A y \in executions' : ExecutionOK(y)
    BY <1>7, TypeOKRows, Zenon DEF CommitReservation
  <2> QED
    BY <2>3, <2>4, <2>5, Zenon DEF TypeOK, RowOK, ExecutionOK, OnAccount
<1>8. ASSUME NEW x \in executions, CommitAccount(x)
      PROVE  TypeOK'
  <2>1. ExecutionOK(x) /\ x.base + 1 \in Nat /\ x.cmd.account_id \in AccountIds
    BY TypeOKRows DEF ExecutionOK, Execution, Command
  <2>2. x.event \in Event /\ x.event.type = "AccountCreated"
    BY <1>8, <2>1, Zenon DEF CommitAccount, ExecutionOK, Execution
  <2>3. \A a : ApplyAccountCreated(a, x.event) \in Account
    BY <2>2, Zenon DEF ApplyAccountCreated, CreatedAccount, Account, Event
  <2>4. /\ \A row \in outbox' : RowOK(row)
        /\ \A g \in granted' : g \in [email : Emails, account_id : AccountIds, token : Tokens]
    BY <1>8, <2>1, AnswerType, Zenon DEF CommitAccount
  <2>5. account' \in [AccountIds -> Account]
    BY <1>8, <2>1, <2>3, Zenon DEF CommitAccount, TypeOK
  <2>6. reservation' = reservation /\ version' = version /\ issued' = issued
    BY <1>8, Zenon DEF CommitAccount
  <2>7. \A y \in executions' : ExecutionOK(y)
    BY <1>8, TypeOKRows, Zenon DEF CommitAccount
  <2> QED
    BY <2>4, <2>5, <2>6, <2>7, Zenon DEF TypeOK, RowOK, ExecutionOK, OnAccount
<1>9. ASSUME NEW x \in executions, ApplyPanics(x)
      PROVE  TypeOK'
  BY <1>9, TypeOfWork, TypeOKRows, Zenon DEF ApplyPanics, TypeOK
<1>10. ASSUME NEW x \in executions, Conflict(x)
       PROVE  TypeOK'
  <2>0. ExecutionOK(x)
    BY TypeOKRows, Zenon
  <2>1. CASE /\ x.attempt < MaxCommandAttempts /\ Decide(x.cmd).accepted
             /\ executions' = Replace(executions, x,
                  [x EXCEPT !.base = Version(x.cmd), !.event = Decide(x.cmd).event,
                            !.attempt = @ + 1])
             /\ UNCHANGED outbox
    <3>1. /\ Decide(x.cmd).event \in Event
          /\ (Decide(x.cmd).event.type = "AccountCreated") = OnAccount(x.cmd)
      BY <2>0, <2>1, DecideType, Zenon DEF ExecutionOK, Execution
    <3>2. Version(x.cmd) \in Nat
      BY <2>0, Zenon DEF Version, TypeOK, ExecutionOK, Execution, Command
    <3>3. x.attempt + 1 \in 1..MaxCommandAttempts
      BY <2>0, <2>1, ConstantsAssumption DEF ExecutionOK, Execution
    <3> DEFINE y == [x EXCEPT !.base = Version(x.cmd), !.event = Decide(x.cmd).event,
                              !.attempt = @ + 1]
    <3>4. y \in Execution /\ y.event = Decide(x.cmd).event /\ y.cmd = x.cmd
      BY <2>0, <3>1, <3>2, <3>3, Zenon DEF ExecutionOK, Execution
    <3>5. ExecutionOK(y)
      BY <3>1, <3>4, Zenon DEF ExecutionOK
    <3>6. \A z \in executions' : ExecutionOK(z)
      BY <2>1, <3>5, TypeOKRows, Zenon DEF Replace
    <3> QED
      BY <1>10, <2>1, <3>6, TypeOfWork, TypeOKRows, Zenon DEF Conflict, TypeOK
  <2>2. CASE executions' = executions \ {x} /\ \E result \in Results : Settle(x, result, outbox)
    <3>1. \A row \in outbox' : RowOK(row)
      BY <2>2, SettleType, TypeOKRows, Zenon
    <3> QED
      BY <1>10, <2>2, <3>1, TypeOfWork, TypeOKRows, Zenon DEF Conflict, TypeOK
  <2> QED
    BY <1>10, <2>1, <2>2, RejectionResultType, Zenon DEF Conflict, Results
<1>11. ASSUME NEW x \in executions, Fail(x)
       PROVE  TypeOK'
  <2>1. \A row \in outbox' : RowOK(row)
    BY <1>11, SettleType, TypeOKRows, Zenon DEF Fail, Results
  <2> QED
    BY <1>11, <2>1, TypeOfWork, TypeOKRows, Zenon DEF Fail, TypeOK
<1>12. ASSUME NEW x \in executions, TimeOut(x)
       PROVE  TypeOK'
  <2>1. \A row \in outbox' : RowOK(row)
    BY <1>12, SettleType, TypeOKRows, Zenon DEF TimeOut, Results
  <2>2. ExecutionOK([x EXCEPT !.caller = Nobody])
    BY TypeOKRows, Zenon DEF ExecutionOK, Execution, Caller
  <2> QED
    BY <1>12, <2>1, <2>2, TypeOfWork, TypeOKRows, Zenon DEF TimeOut, TypeOK, Replace
<1>13. ASSUME NEW row \in outbox, RecoverExpired(row)
       PROVE  TypeOK'
  <2>1. RowOK(Settled(row, "Retry"))
    BY RowSteps, TypeOKRows, Zenon DEF Results
  <2>2. \A x \in executions : ExecutionOK([x EXCEPT !.caller = Nobody])
    BY TypeOKRows, Zenon DEF ExecutionOK, Execution, Caller
  <2>3. \A x \in executions' : ExecutionOK(x)
    BY <1>13, <2>2, TypeOKRows, Zenon DEF RecoverExpired
  <2> QED
    BY <1>13, <2>1, <2>3, TypeOfWork, TypeOKRows, Zenon DEF RecoverExpired, TypeOK, Replace
<1>14. ASSUME NEW row \in outbox, RequeueFailed(row)
       PROVE  TypeOK'
  <2>0. row \in Row /\ 0 \in 0..MaxAttempts /\ 0 < MaxAttempts
    BY TypeOKRows, ConstantsAssumption DEF RowOK
  <2>1. RowOK([row EXCEPT !.status = "pending", !.attempts = 0])
    BY <2>0, Zenon DEF RowOK, Row
  <2> QED
    BY <1>14, <2>1, TypeOfWork, TypeOKRows, Zenon DEF RequeueFailed, TypeOK, Replace
<1>15. CASE UNCHANGED vars
  BY <1>15, Zenon DEF vars, TypeOK, OnAccount
<1> QED
  BY <1>1, <1>2, <1>3, <1>4, <1>5, <1>6, <1>7, <1>8, <1>9, <1>10, <1>11, <1>12, <1>13, <1>14,
     <1>15, Zenon DEF Next, Http, Deliver, Finish, Disturb, Recover, Requeue

(* Every reachable state is well-typed: no commit stores the remains of a  *)
(* panic, and no row is claimed more than max_attempts times.              *)
THEOREM TypeCorrect == Spec => []TypeOK
<1> QED
  BY TypeOKInit, TypeOKStep, PTL DEF Spec
====
