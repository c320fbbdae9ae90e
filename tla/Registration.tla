---- MODULE Registration ----
(***************************************************************************)
(* The registration workflow: the HTTP operations and the outbox task      *)
(* handlers of the account service, over the two event-sourced aggregates  *)
(* and the transactional outbox.                                           *)
(*                                                                         *)
(* Every command is executed in two steps that other commands interleave   *)
(* with: it loads the aggregate and decides (the execution joins           *)
(* `executions`), and later it commits its one event and its task against  *)
(* the version it loaded, meets a conflict, or is lost.  Task rows are     *)
(* delivered at least once, in any order and concurrently.                 *)
(***************************************************************************)
EXTENDS UserAccount, FiniteSets

CONSTANTS
    Emails,              \* canonical addresses, the ids of EmailReservation
    AccountIds,          \* values the account id generator can return
    Codes,               \* verification codes a client may type
    Tokens,              \* raw account creation tokens
    Submissions,         \* [first_name, last_name, date_of_birth] a client may post
    Instants,            \* readings of the service clock
    DayLength,           \* instants in one calendar day
    SnapshotInterval,    \* PostgresCommandConfig::snapshot_interval
    MaxCommandAttempts,  \* AggregateConflictRetryPolicy::max_attempts
    MaxAttempts,         \* transactional_outbox.max_attempts
    UniqueIds,           \* whether the generator never repeats an id
    MaxInFlight,         \* bound: commands executing at once
    MaxEvents            \* bound: stream length past which no new code is requested

VARIABLES
    reservation,  \* phase of each email, as the next load will see it
    version,      \* number of events in each email's stream
    account,      \* UserAccount of each account id
    outbox,       \* rows of transactional_outbox
    executions,   \* commands that have loaded and not yet finished
    issued,       \* account ids the generator has returned
    granted       \* tokens returned to clients by ConfirmEmail

vars == <<reservation, version, account, outbox, executions, issued, granted>>

ASSUME ConstantsAssumption ==
    /\ Codes \subseteq Nat /\ Instants \subseteq Nat
    /\ DayLength \in Nat \ {0} /\ SnapshotInterval \in Nat \ {0}
    /\ MaxCommandAttempts \in Nat \ {0} /\ MaxAttempts \in Nat \ {0}
    /\ UniqueIds \in BOOLEAN /\ MaxInFlight \in Nat /\ MaxEvents \in Nat
    /\ \A s \in Submissions :
            s \in [first_name : [text : STRING, padded : BOOLEAN],
                   last_name : [text : STRING, padded : BOOLEAN], date_of_birth : Nat]

----------------------------------------------------------------------------
(* Data the services build. *)

Digest(token) == [sha256 |-> token]

DateNaive(instant) == instant \div DayLength

NoTask == [kind |-> "None"]

SendVerificationCodeTask(e, id, code) ==
    [kind |-> "SendVerificationCode", email |-> e, account_id |-> id,
     verification_code |-> code]

CreateAccountTask(e, id, profile) ==
    [kind |-> "CreateAccount", email |-> e, account_id |-> id, profile |-> profile]

RecordAccountCreatedTask(e, id, profile, at) ==
    [kind |-> "RecordAccountCreated", email |-> e, account_id |-> id,
     profile |-> profile, created_at |-> at]

(* Who waits for an execution: a request, a confirmation that will return  *)
(* its token, the delivery of a task row, or nobody any more.              *)
Request == [kind |-> "Request"]

Confirmation(token) == [kind |-> "Confirmation", token |-> token]

Delivery(task) == [kind |-> "Delivery", task |-> task]

Nobody == [kind |-> "Nobody"]

----------------------------------------------------------------------------
(* The command executor. *)

Decide(cmd) ==
    LET p == reservation[cmd.email]
        id == cmd.account_id
    IN  CASE cmd.type = "ReserveEmail" -> HandleReserve(p, id, cmd.verification_code)
          [] cmd.type = "RequestVerificationCode" ->
                HandleRequestVerificationCode(p, id, cmd.verification_code)
          [] cmd.type = "VerifyEmail" -> HandleVerify(p, id, cmd.code, cmd.token_digest)
          [] cmd.type = "SubmitRegistrationProfile" ->
                HandleSubmitProfile(p, id, cmd.token_digest, cmd.profile)
          [] cmd.type = "RecordAccountCreated" ->
                HandleRecordAccountCreated(p, id, cmd.profile, cmd.created_at)
          [] cmd.type = "CreateAccount" ->
                HandleCreateAccount(account[id], id, cmd.email, cmd.profile, cmd.created_at)

OnAccount(cmd) == cmd.type = "CreateAccount"

(* Length of the stream the command writes to. *)
Version(cmd) ==
    IF OnAccount(cmd) THEN (IF account[cmd.account_id].created THEN 1 ELSE 0)
    ELSE version[cmd.email]

Begin(cmd, task, caller) ==
    /\ Cardinality(executions) < MaxInFlight
    /\ Decide(cmd).accepted
    /\ executions' = executions \cup
          {[cmd |-> cmd, task |-> task, caller |-> caller, base |-> Version(cmd),
            event |-> Decide(cmd).event, attempt |-> 1]}

(* State left by an accepted event.  At a snapshot the framework applies   *)
(* the event a second time to the state it already changed.                *)
SnapshotDue(seq) == seq % SnapshotInterval = 0

Committed(p, ev, seq) ==
    IF SnapshotDue(seq) THEN Apply(Apply(p, ev), ev) ELSE Apply(p, ev)

Published(task, seq) ==
    IF task = NoTask THEN outbox
    ELSE outbox \cup {[task |-> task, seq |-> seq, status |-> "pending", attempts |-> 0]}

----------------------------------------------------------------------------
(* Task rows. *)

Claimed(row) == [row EXCEPT !.status = "processing", !.attempts = @ + 1]

(* Retry is also what recovery does to a row whose lease expired. *)
Settled(row, result) ==
    [row EXCEPT !.status = CASE result = "Completed" -> "completed"
                             [] result = "Permanent" -> "failed"
                             [] result = "Retry" ->
                                  IF row.attempts >= MaxAttempts THEN "failed" ELSE "pending"]

Replace(rows, row, new) == (rows \ {row}) \cup {new}

(* The answer of execution x reaches the row it was delivered from, unless *)
(* the settlement is lost with its worker or nobody waits for x any more.  *)
Settle(x, result, rows) ==
    \/ outbox' = rows
    \/ \E row \in rows :
          /\ row.status = "processing"
          /\ x.caller = Delivery(row.task)
          /\ outbox' = Replace(rows, row, Settled(row, result))

(* ContinuationError: which domain rejections acknowledge a task. *)
RejectionResult(error) ==
    IF error \in {"AlreadyCreated", "AccountCreationAlreadyCompleted"}
    THEN "Completed" ELSE "Permanent"

----------------------------------------------------------------------------
(* HTTP operations.  A rejected command changes nothing. *)

NewAccountId(id) == UniqueIds => id \notin issued

ReserveEmail(e, id, code) ==
    /\ NewAccountId(id) /\ CodeFormatOk(code)
    /\ Begin([type |-> "ReserveEmail", email |-> e, account_id |-> id,
              verification_code |-> code],
             SendVerificationCodeTask(e, id, code), Request)
    /\ issued' = issued \cup {id}
    /\ UNCHANGED <<reservation, version, account, outbox, granted>>

RequestNewVerificationCode(e, id, code) ==
    /\ version[e] < MaxEvents
    /\ NewAccountId(id) /\ CodeFormatOk(code)
    /\ Begin([type |-> "RequestVerificationCode", email |-> e, account_id |-> id,
              verification_code |-> code],
             SendVerificationCodeTask(e, id, code), Request)
    /\ issued' = issued \cup {id}
    /\ UNCHANGED <<reservation, version, account, outbox, granted>>

ConfirmEmail(e, id, code, token) ==
    /\ CodeFormatOk(code)
    /\ Begin([type |-> "VerifyEmail", email |-> e, account_id |-> id, code |-> code,
              token_digest |-> Digest(token)],
             NoTask, Confirmation(token))
    /\ UNCHANGED <<reservation, version, account, outbox, issued, granted>>

(* Wrong variant: the task is stored before the command commits. *)
SubmitProfilePublishesFirst(e, id, token, s, now) ==
    LET profile == RegistrationProfile(s.first_name, s.last_name, s.date_of_birth,
                                       DateNaive(now))
    IN  /\ Begin([type |-> "SubmitRegistrationProfile", email |-> e, account_id |-> id,
                  token_digest |-> Digest(token), profile |-> profile], NoTask, Request)
        /\ outbox' = Published(CreateAccountTask(e, id, profile), version[e] + 1)
        /\ UNCHANGED <<reservation, version, account, issued, granted>>

(* Wrong variant: the task carries the names as the client typed them. *)
SubmitProfileUntrimmed(e, id, token, s, now) ==
    LET profile == [first_name |-> s.first_name, last_name |-> s.last_name,
                    date_of_birth |-> s.date_of_birth, validation_date |-> DateNaive(now)]
    IN  /\ Begin([type |-> "SubmitRegistrationProfile", email |-> e, account_id |-> id,
                  token_digest |-> Digest(token), profile |-> profile],
                 CreateAccountTask(e, id, profile), Request)
        /\ UNCHANGED <<reservation, version, account, outbox, issued, granted>>

SubmitProfile(e, id, token, s, now) ==
    LET profile == RegistrationProfile(s.first_name, s.last_name, s.date_of_birth,
                                       DateNaive(now))
    IN  /\ Begin([type |-> "SubmitRegistrationProfile", email |-> e, account_id |-> id,
                  token_digest |-> Digest(token), profile |-> profile],
                 CreateAccountTask(e, id, profile), Request)
        /\ UNCHANGED <<reservation, version, account, outbox, issued, granted>>

----------------------------------------------------------------------------
(* Task deliveries: a row is claimed and its handler runs to its load. *)

DeliverSendVerificationCode(row) ==
    /\ row.status = "pending" /\ row.task.kind = "SendVerificationCode"
    /\ \/ outbox' = Replace(outbox, row, Claimed(row))
       \/ \E result \in IF CodeFormatOk(row.task.verification_code)
                        THEN {"Completed", "Retry"} ELSE {"Permanent"} :
             outbox' = Replace(outbox, row, Settled(Claimed(row), result))
    /\ UNCHANGED <<reservation, version, account, executions, issued, granted>>

(* The part the two continuation handlers share: an accepted command goes  *)
(* on executing, a rejected one is settled (or its settlement is lost).    *)
Continue(row, cmd, task) ==
    /\ \/ /\ Begin(cmd, task, Delivery(row.task))
          /\ outbox' = Replace(outbox, row, Claimed(row))
       \/ /\ ~Decide(cmd).accepted
          /\ \/ outbox' = Replace(outbox, row, Claimed(row))
             \/ outbox' = Replace(outbox, row,
                             Settled(Claimed(row), RejectionResult(Decide(cmd).error)))
          /\ UNCHANGED executions
    /\ UNCHANGED <<reservation, version, account, issued, granted>>

(* One reading of the clock serves the command and the completion task. *)
DeliverCreateAccount(row, created_at) ==
    LET t == row.task
    IN  /\ row.status = "pending" /\ t.kind = "CreateAccount"
        /\ Continue(row,
             [type |-> "CreateAccount", email |-> t.email, account_id |-> t.account_id,
              profile |-> t.profile, created_at |-> created_at],
             RecordAccountCreatedTask(t.email, t.account_id, t.profile, created_at))

DeliverRecordAccountCreated(row) ==
    LET t == row.task
    IN  /\ row.status = "pending" /\ t.kind = "RecordAccountCreated"
        /\ Continue(row,
             [type |-> "RecordAccountCreated", email |-> t.email,
              account_id |-> t.account_id, profile |-> t.profile,
              created_at |-> t.created_at],
             NoTask)

----------------------------------------------------------------------------
(* What becomes of an execution. *)

(* The reply to a committed command may be lost; it then reads as          *)
(* Unavailable, which a delivery settles as Retry.                         *)
Answer(x, rows) ==
    \/ /\ Settle(x, "Completed", rows)
       /\ granted' = IF x.caller.kind = "Confirmation"
                     THEN granted \cup {[email |-> x.cmd.email,
                                         account_id |-> x.cmd.account_id,
                                         token |-> x.caller.token]}
                     ELSE granted
    \/ Settle(x, "Retry", rows) /\ UNCHANGED granted

(* Wrong variant: the event is stored whatever the stream's version. *)
CommitReservationUnchecked(x) ==
    LET e == x.cmd.email
        phase == Committed(reservation[e], x.event, version[e] + 1)
    IN  /\ ~OnAccount(x.cmd)
        /\ phase # Panicked
        /\ reservation' = [reservation EXCEPT ![e] = phase]
        /\ version' = [version EXCEPT ![e] = @ + 1]
        /\ executions' = executions \ {x}
        /\ Answer(x, Published(x.task, version[e] + 1))
        /\ UNCHANGED <<account, issued>>

CommitReservation(x) ==
    LET e == x.cmd.email
        seq == x.base + 1
        phase == Committed(reservation[e], x.event, seq)
    IN  /\ ~OnAccount(x.cmd) /\ x.base = Version(x.cmd)
        /\ phase # Panicked
        /\ reservation' = [reservation EXCEPT ![e] = phase]
        /\ version' = [version EXCEPT ![e] = seq]
        /\ executions' = executions \ {x}
        /\ Answer(x, Published(x.task, seq))
        /\ UNCHANGED <<account, issued>>

(* Wrong variant: the account is written whatever its version. *)
CommitAccountUnchecked(x) ==
    LET id == x.cmd.account_id
    IN  /\ OnAccount(x.cmd)
        /\ account' = [account EXCEPT ![id] = ApplyAccountCreated(@, x.event)]
        /\ executions' = executions \ {x}
        /\ Answer(x, Published(x.task, Version(x.cmd) + 1))
        /\ UNCHANGED <<reservation, version, issued>>

CommitAccount(x) ==
    LET id == x.cmd.account_id
    IN  /\ OnAccount(x.cmd) /\ x.base = Version(x.cmd)
        /\ account' = [account EXCEPT ![id] = ApplyAccountCreated(@, x.event)]
        /\ executions' = executions \ {x}
        /\ Answer(x, Published(x.task, x.base + 1))
        /\ UNCHANGED <<reservation, version, issued>>

(* The second application at a snapshot panics before anything is          *)
(* persisted; the worker dies and its row waits for lease recovery.        *)
ApplyPanics(x) ==
    /\ ~OnAccount(x.cmd) /\ x.base = Version(x.cmd)
    /\ Committed(reservation[x.cmd.email], x.event, x.base + 1) = Panicked
    /\ executions' = executions \ {x}
    /\ UNCHANGED <<reservation, version, account, outbox, issued, granted>>

(* Wrong variant: a rejection on reload is taken for an earlier success. *)
ConflictAnswersOk(x) ==
    /\ x.base # Version(x.cmd)
    /\ ~Decide(x.cmd).accepted
    /\ executions' = executions \ {x}
    /\ Answer(x, outbox)
    /\ UNCHANGED <<reservation, version, account, issued>>

(* Another event took the sequence number: reload and decide again with    *)
(* the same command, up to the attempts of the retry policy.               *)
Conflict(x) ==
    /\ x.base # Version(x.cmd)
    /\ \/ /\ x.attempt < MaxCommandAttempts /\ Decide(x.cmd).accepted
          /\ executions' = Replace(executions, x,
                [x EXCEPT !.base = Version(x.cmd), !.event = Decide(x.cmd).event,
                          !.attempt = @ + 1])
          /\ UNCHANGED outbox
       \/ /\ x.attempt < MaxCommandAttempts /\ ~Decide(x.cmd).accepted
          /\ Settle(x, RejectionResult(Decide(x.cmd).error), outbox)
          /\ executions' = executions \ {x}
       \/ /\ x.attempt = MaxCommandAttempts
          /\ Settle(x, "Retry", outbox)
          /\ executions' = executions \ {x}
    /\ UNCHANGED <<reservation, version, account, issued, granted>>

(* Wrong variant: an unavailable store acknowledges the task. *)
FailAcknowledges(x) ==
    /\ Settle(x, "Completed", outbox)
    /\ executions' = executions \ {x}
    /\ UNCHANGED <<reservation, version, account, issued, granted>>

(* The store fails before the commit, or the process stops. *)
Fail(x) ==
    /\ Settle(x, "Retry", outbox)
    /\ executions' = executions \ {x}
    /\ UNCHANGED <<reservation, version, account, issued, granted>>

(* The handler's time is up and the row is settled for retry, or a client  *)
(* has gone: the statement already sent to the database goes on.           *)
TimeOut(x) ==
    /\ x.caller # Nobody
    /\ executions' = Replace(executions, x, [x EXCEPT !.caller = Nobody])
    /\ Settle(x, "Retry", outbox)
    /\ UNCHANGED <<reservation, version, account, issued, granted>>

----------------------------------------------------------------------------
(* Lease recovery and the operator's requeue. *)

(* Wrong variants: recovery passes over rows on their last attempt; the    *)
(* requeue does not reset the attempts.                                    *)
RecoverExpiredSkipsLast(row) ==
    /\ row.status = "processing" /\ row.attempts < MaxAttempts
    /\ outbox' = Replace(outbox, row, Settled(row, "Retry"))
    /\ executions' = {IF x.caller = Delivery(row.task) THEN [x EXCEPT !.caller = Nobody]
                      ELSE x : x \in executions}
    /\ UNCHANGED <<reservation, version, account, issued, granted>>

RequeueFailedKeepsAttempts(row) ==
    /\ row.status = "failed"
    /\ outbox' = Replace(outbox, row, [row EXCEPT !.status = "pending"])
    /\ UNCHANGED <<reservation, version, account, executions, issued, granted>>

RecoverExpired(row) ==
    /\ row.status = "processing"
    /\ outbox' = Replace(outbox, row, Settled(row, "Retry"))
    /\ executions' = {IF x.caller = Delivery(row.task) THEN [x EXCEPT !.caller = Nobody]
                      ELSE x : x \in executions}
    /\ UNCHANGED <<reservation, version, account, issued, granted>>

RequeueFailed(row) ==
    /\ row.status = "failed"
    /\ outbox' = Replace(outbox, row, [row EXCEPT !.status = "pending", !.attempts = 0])
    /\ UNCHANGED <<reservation, version, account, executions, issued, granted>>

----------------------------------------------------------------------------
Init ==
    /\ reservation = [e \in Emails |-> Absent]
    /\ version = [e \in Emails |-> 0]
    /\ account = [id \in AccountIds |-> NoAccount]
    /\ outbox = {} /\ executions = {} /\ issued = {} /\ granted = {}

Http ==
    \E e \in Emails, id \in AccountIds :
        \/ \E code \in Codes : \/ ReserveEmail(e, id, code)
                               \/ RequestNewVerificationCode(e, id, code)
                               \/ \E token \in Tokens : ConfirmEmail(e, id, code, token)
        \/ \E token \in Tokens, s \in Submissions, now \in Instants :
              SubmitProfile(e, id, token, s, now)

Deliver ==
    \E row \in outbox : \/ DeliverSendVerificationCode(row)
                        \/ \E now \in Instants : DeliverCreateAccount(row, now)
                        \/ DeliverRecordAccountCreated(row)

Finish ==
    \E x \in executions : \/ CommitReservation(x) \/ CommitAccount(x)
                          \/ ApplyPanics(x) \/ Conflict(x)

Disturb == \E x \in executions : Fail(x) \/ TimeOut(x)

Recover == \E row \in outbox : RecoverExpired(row)

Requeue == \E row \in outbox : RequeueFailed(row)

Next == Http \/ Deliver \/ Finish \/ Disturb \/ Recover \/ Requeue

Spec == Init /\ [][Next]_vars

(* What the scheduling gives: the poller keeps claiming rows, oldest first, *)
(* and keeps recovering expired leases; a command that runs finishes.       *)
DeliverFor(e, kind) ==
    \E row \in outbox :
        /\ row.task.email = e /\ row.task.kind = kind
        /\ \/ \E now \in Instants : DeliverCreateAccount(row, now)
           \/ DeliverRecordAccountCreated(row)

FinishFor(e) ==
    \E x \in executions :
        /\ x.cmd.email = e
        /\ CommitReservation(x) \/ CommitAccount(x) \/ ApplyPanics(x) \/ Conflict(x)

RecoverFor(e) == \E row \in outbox : row.task.email = e /\ RecoverExpired(row)

Fairness ==
    \A e \in Emails :
        /\ WF_vars(FinishFor(e)) /\ WF_vars(RecoverFor(e))
        /\ \A kind \in {"CreateAccount", "RecordAccountCreated"} :
              SF_vars(DeliverFor(e, kind))

FairSpec == Spec /\ Fairness

----------------------------------------------------------------------------
(* Types. *)

Name == [text : STRING, padded : BOOLEAN]

Profile == [first_name : Name, last_name : Name, date_of_birth : Nat, validation_date : Nat]

TokenDigest == {Digest(t) : t \in Tokens}

Phase ==
    {Absent}
    \cup [phase : {"AwaitingCode"}, account_id : AccountIds, verification_code : Codes]
    \cup [phase : {"AwaitingProfile"}, account_id : AccountIds, token_digest : TokenDigest]
    \cup [phase : {"CreatingAccount"}, account_id : AccountIds,
          consumed_token_digest : TokenDigest, accepted_profile : Profile]
    \cup [phase : {"AccountCreated"}, account_id : AccountIds,
          consumed_token_digest : TokenDigest, accepted_profile : Profile,
          created_at : Instants]

Account ==
    {NoAccount}
    \cup [created : {TRUE}, account_id : AccountIds, email : Emails, profile : Profile,
          created_at : Instants]

Task ==
    [kind : {"SendVerificationCode"}, email : Emails, account_id : AccountIds,
     verification_code : Codes]
    \cup [kind : {"CreateAccount"}, email : Emails, account_id : AccountIds,
          profile : Profile]
    \cup [kind : {"RecordAccountCreated"}, email : Emails, account_id : AccountIds,
          profile : Profile, created_at : Instants]

Row ==
    [task : Task, seq : Nat, status : {"pending", "processing", "completed", "failed"},
     attempts : 0..MaxAttempts]

Command ==
    [type : {"ReserveEmail", "RequestVerificationCode"}, email : Emails,
     account_id : AccountIds, verification_code : Codes]
    \cup [type : {"VerifyEmail"}, email : Emails, account_id : AccountIds, code : Codes,
          token_digest : TokenDigest]
    \cup [type : {"SubmitRegistrationProfile"}, email : Emails, account_id : AccountIds,
          token_digest : TokenDigest, profile : Profile]
    \cup [type : {"CreateAccount", "RecordAccountCreated"}, email : Emails,
          account_id : AccountIds, profile : Profile, created_at : Instants]

Event ==
    [type : {"EmailReserved", "VerificationCodeRequested", "VerificationRestarted"},
     account_id : AccountIds, verification_code : Codes]
    \cup [type : {"EmailVerified"}, account_id : AccountIds, token_digest : TokenDigest]
    \cup [type : {"RegistrationProfileAccepted"}, account_id : AccountIds,
          consumed_token_digest : TokenDigest, profile : Profile]
    \cup [type : {"AccountCreationCompleted"}, account_id : AccountIds,
          created_at : Instants]
    \cup [type : {"AccountCreated"}, account_id : AccountIds, email : Emails,
          profile : Profile, created_at : Instants]

Caller ==
    {Request, Nobody} \cup [kind : {"Confirmation"}, token : Tokens]
    \cup [kind : {"Delivery"}, task : Task]

Execution ==
    [cmd : Command, task : Task \cup {NoTask}, caller : Caller, base : Nat, event : Event,
     attempt : 1..MaxCommandAttempts]

(* Every variable has its type; in particular no stored phase is the      *)
(* remains of a panicked application, and a row never counts more claims  *)
(* than max_attempts.                                                     *)
TypeOK ==
    /\ reservation \in [Emails -> Phase]
    /\ version \in [Emails -> Nat]
    /\ account \in [AccountIds -> Account]
    /\ \A row \in outbox : row \in Row /\ (row.status = "pending" => row.attempts < MaxAttempts)
    /\ \A x \in executions :
          x \in Execution /\ (x.event.type = "AccountCreated") = OnAccount(x.cmd)
    /\ issued \subseteq AccountIds
    /\ \A g \in granted : g \in [email : Emails, account_id : AccountIds, token : Tokens]

----------------------------------------------------------------------------
(* Safety. *)

(* Email e has accepted profile p under account id. *)
Accepted(e, id, p) ==
    /\ ProfileAccepted(reservation[e])
    /\ reservation[e].account_id = id
    /\ reservation[e].accepted_profile = p

(* An account exists only for the id and the profile its email's           *)
(* reservation accepted, so an email never has two accounts: neither a     *)
(* superseded id nor a repeated or late create_account makes another.      *)
AccountFollowsAcceptance ==
    \A id \in AccountIds :
        account[id].created =>
            /\ account[id].account_id = id
            /\ Accepted(account[id].email, id, account[id].profile)

(* A reservation that reports its account created agrees with the account  *)
(* on id, email, profile and creation instant, whichever of several        *)
(* deliveries with different clock readings created it.                    *)
CompletionMatchesAccount ==
    \A e \in Emails :
        LET p == reservation[e]
        IN  p.phase = "AccountCreated" =>
                account[p.account_id] =
                    CreatedAccount(p.account_id, e, p.accepted_profile, p.created_at)

(* A registration between acceptance and completion always has a task row  *)
(* that is not completed: no acknowledgement closes the last work of a     *)
(* registration that is still open.                                        *)
OpenRegistrationHasWork ==
    \A e \in Emails :
        reservation[e].phase = "CreatingAccount" =>
            \E row \in outbox :
                /\ row.task.kind \in {"CreateAccount", "RecordAccountCreated"}
                /\ row.task.email = e /\ row.task.account_id = reservation[e].account_id
                /\ row.status # "completed"

(* Delivering a completion task, at any time and any number of times, is   *)
(* accepted or recognised as a repeat: RecordAccountCreated never ends in  *)
(* a mismatch (the task's profile was trimmed where the accepted one was,  *)
(* and its instant is the account's).                                      *)
CompletionTaskNeverMismatches ==
    \A row \in outbox :
        row.task.kind = "RecordAccountCreated" =>
            LET t == row.task
                d == HandleRecordAccountCreated(reservation[t.email], t.account_id,
                                                t.profile, t.created_at)
            IN  d.accepted \/ d.error = "AccountCreationAlreadyCompleted"

(* With unique ids a creation task never meets another account's data.     *)
CreationTaskNeverMismatches ==
    \A row \in outbox :
        row.task.kind = "CreateAccount" =>
            \A now \in Instants :
                LET t == row.task
                    d == HandleCreateAccount(account[t.account_id], t.account_id, t.email,
                                             t.profile, now)
                IN  d.accepted \/ d.error = "AlreadyCreated"

(* What holds of a continuation row: its registration was accepted as the  *)
(* row says, and a completed row's effect is in the aggregates.            *)
RowJustified(row) ==
    LET t == row.task
    IN  /\ t.kind = "CreateAccount" =>
              /\ Accepted(t.email, t.account_id, t.profile)
              /\ TrimmedProfile(t.profile) = t.profile
              /\ row.status = "completed" =>
                    account[t.account_id].created /\ account[t.account_id].email = t.email
        /\ t.kind = "RecordAccountCreated" =>
              /\ account[t.account_id] =
                    CreatedAccount(t.account_id, t.email, t.profile, t.created_at)
              /\ row.status = "completed" => reservation[t.email].phase = "AccountCreated"

(* The command of x, if it was delivered, is the one its row asks for.     *)
CommandOfTask(cmd, t) ==
    /\ t.kind \in {"CreateAccount", "RecordAccountCreated"} /\ cmd.type = t.kind
    /\ cmd.email = t.email /\ cmd.account_id = t.account_id /\ cmd.profile = t.profile
    /\ t.kind = "RecordAccountCreated" => cmd.created_at = t.created_at

(* What holds of an execution: if no event overtook it, its decision is    *)
(* the one the aggregate would take now; its task is the one its command   *)
(* publishes; a continuation command has its reason in the aggregates.     *)
ExecutionJustified(x) ==
    LET c == x.cmd
    IN  /\ x.base <= Version(c)
        /\ x.base = Version(c) => Decide(c).accepted /\ x.event = Decide(c).event
        /\ c.type \in {"ReserveEmail", "RequestVerificationCode", "VerifyEmail"} =>
              x.task.kind \in {"None", "SendVerificationCode"}
        /\ c.type = "SubmitRegistrationProfile" =>
              /\ x.task = CreateAccountTask(c.email, c.account_id, c.profile)
              /\ TrimmedProfile(c.profile) = c.profile
        /\ c.type = "CreateAccount" =>
              /\ x.task = RecordAccountCreatedTask(c.email, c.account_id, c.profile, c.created_at)
              /\ TrimmedProfile(c.profile) = c.profile
              /\ Accepted(c.email, c.account_id, c.profile)
        /\ c.type = "RecordAccountCreated" =>
              /\ x.task = NoTask
              /\ account[c.account_id] =
                    CreatedAccount(c.account_id, c.email, c.profile, c.created_at)
        /\ x.caller.kind = "Delivery" => CommandOfTask(c, x.caller.task)

(* Every acceptance published its creation task, every account its         *)
(* completion task.                                                        *)
TasksPublished ==
    /\ \A e \in Emails :
          LET p == reservation[e]
          IN  ProfileAccepted(p) =>
                \E row \in outbox :
                    row.task = CreateAccountTask(e, p.account_id, p.accepted_profile)
    /\ \A id \in AccountIds :
          LET a == account[id]
          IN  a.created =>
                \E row \in outbox :
                    row.task = RecordAccountCreatedTask(a.email, id, a.profile, a.created_at)

(* The inductive invariant: every row and every execution in flight is     *)
(* justified by the stored aggregates, and nothing was left unpublished.   *)
WorkJustified ==
    /\ \A row \in outbox : RowJustified(row)
    /\ \A x \in executions : ExecutionJustified(x)
    /\ TasksPublished
    /\ AccountFollowsAcceptance
    /\ CompletionMatchesAccount

(* A token that ConfirmEmail returned is the one the reservation expects,  *)
(* or has consumed, as long as its account id is current: conflict retries *)
(* and lost replies never hand a client a token the store does not hold.   *)
GrantedTokenIsCurrent ==
    \A g \in granted :
        LET p == reservation[g.email]
        IN  p.phase # "Absent" /\ p.account_id = g.account_id =>
                IF ProfileAccepted(p) THEN p.consumed_token_digest = Digest(g.token)
                ELSE p.phase = "AwaitingProfile" /\ p.token_digest = Digest(g.token)

(* Once a profile is accepted, no step changes the id, the consumed token  *)
(* or the profile, and a recorded creation instant stays.                  *)
AcceptanceIsFinal ==
    [][\A e \in Emails :
          ProfileAccepted(reservation[e]) =>
            /\ ProfileAccepted(reservation'[e])
            /\ reservation'[e].account_id = reservation[e].account_id
            /\ reservation'[e].consumed_token_digest = reservation[e].consumed_token_digest
            /\ reservation'[e].accepted_profile = reservation[e].accepted_profile
            /\ reservation[e].phase = "AccountCreated" => reservation'[e] = reservation[e]]_vars

(* An account id that a newer code has superseded never becomes current    *)
(* again, even by a command that loaded the stream before it moved on.     *)
SupersededIdNeverReturns ==
    [][\A e \in Emails :
          LET p == reservation[e]
              q == reservation'[e]
          IN  p # q /\ q.phase # "Absent" /\ (p.phase = "Absent" \/ p.account_id # q.account_id) =>
                ~\E row \in outbox : row.task.email = e /\ row.task.account_id = q.account_id]_vars

(* What is recorded of a registration and of an account, without codes and *)
(* tokens.                                                                 *)
Recorded(p) ==
    CASE p.phase = "Absent" -> [stage |-> "none"]
      [] p.phase = "AwaitingCode" -> [stage |-> "claimed", account_id |-> p.account_id]
      [] p.phase = "AwaitingProfile" -> [stage |-> "verified", account_id |-> p.account_id]
      [] p.phase = "CreatingAccount" ->
            [stage |-> "accepted", account_id |-> p.account_id, profile |-> p.accepted_profile]
      [] p.phase = "AccountCreated" ->
            [stage |-> "recorded", account_id |-> p.account_id, profile |-> p.accepted_profile,
             created_at |-> p.created_at]

Opened(a) ==
    [account_id |-> a.account_id, email |-> a.email, profile |-> a.profile, created_at |-> a.created_at]

ValidProfiles == {p \in Profile : ProfileError(p) = "none"}

Opening == INSTANCE AccountOpening WITH
    Profiles <- ValidProfiles,
    registration <- [e \in Emails |-> Recorded(reservation[e])],
    accounts <- {Opened(account[id]) : id \in {id \in AccountIds : account[id].created}}

(* Commands that are overtaken or repeated, replies that are lost, tasks   *)
(* that are delivered again or late: all of it amounts to the steps of     *)
(* AccountOpening, one at a time.  No address skips verification, gets an  *)
(* account it did not ask for, or a record that differs from its account.  *)
AccountsAreOpenedOnce == Opening!Spec

(* Applying an accepted event a second time, as the snapshot path does     *)
(* when the commit reaches the interval, leaves the state it left the      *)
(* first time.                                                             *)
SnapshotReapplicationTolerated ==
    \A x \in executions :
        ~OnAccount(x.cmd) /\ x.base = Version(x.cmd) /\ SnapshotDue(x.base + 1) =>
            LET once == Apply(reservation[x.cmd.email], x.event)
            IN  Apply(once, x.event) = once

(* An accepted profile eventually leads to a completed registration or to  *)
(* a failed row an operator can see and requeue; it is never left behind.  *)
AcceptedProfileResolves ==
    \A e \in Emails :
        ProfileAccepted(reservation[e]) ~>
            \/ reservation[e].phase = "AccountCreated"
            \/ \E row \in outbox : row.task.email = e /\ row.status = "failed"
====
