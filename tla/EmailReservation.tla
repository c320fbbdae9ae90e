---- MODULE EmailReservation ----
(***************************************************************************)
(* The EmailReservation aggregate: its phases, the decision each command   *)
(* handler takes on a phase, and the effect of each event.  A decision is  *)
(* either Accept(event) (the handler calls sink.write once and returns Ok) *)
(* or Reject(error) (an early return).  The email itself is the aggregate  *)
(* id, so neither commands nor events repeat it here.                      *)
(***************************************************************************)
EXTENDS Integers

Accept(event) == [accepted |-> TRUE, event |-> event]

Reject(error) == [accepted |-> FALSE, error |-> error]

----------------------------------------------------------------------------
(* Profiles.  A name is its trimmed text and whether blanks surround it.   *)

NoText == "no text"

Trim(name) == [name EXCEPT !.padded = FALSE]

IsEmpty(name) == name = [text |-> NoText, padded |-> FALSE]

RegistrationProfile(first, last, dob, on) ==
    [first_name |-> Trim(first), last_name |-> Trim(last),
     date_of_birth |-> dob, validation_date |-> on]

TrimmedProfile(p) ==
    RegistrationProfile(p.first_name, p.last_name, p.date_of_birth, p.validation_date)

(* The three checks both aggregates make on a trimmed profile. *)
ProfileError(p) ==
    CASE IsEmpty(p.first_name) -> "EmptyFirstName"
      [] ~IsEmpty(p.first_name) /\ IsEmpty(p.last_name) -> "EmptyLastName"
      [] ~IsEmpty(p.first_name) /\ ~IsEmpty(p.last_name)
            /\ p.date_of_birth > p.validation_date -> "FutureDateOfBirth"
      [] OTHER -> "none"

CodeFormatOk(code) == code \in 1000000..9999999

----------------------------------------------------------------------------
(* Phases. *)

Absent == [phase |-> "Absent"]

AwaitingCode(id, code) ==
    [phase |-> "AwaitingCode", account_id |-> id, verification_code |-> code]

AwaitingProfile(id, digest) ==
    [phase |-> "AwaitingProfile", account_id |-> id, token_digest |-> digest]

CreatingAccount(id, digest, profile) ==
    [phase |-> "CreatingAccount", account_id |-> id,
     consumed_token_digest |-> digest, accepted_profile |-> profile]

AccountCreated(id, digest, profile, at) ==
    [phase |-> "AccountCreated", account_id |-> id,
     consumed_token_digest |-> digest, accepted_profile |-> profile, created_at |-> at]

(* What remains of an aggregate whose event application panicked. *)
Panicked == [phase |-> "Panicked"]

ProfileAccepted(p) == p.phase \in {"CreatingAccount", "AccountCreated"}

----------------------------------------------------------------------------
(* Command handlers. *)

HandleReserve(p, id, code) ==
    CASE p.phase # "Absent" -> Reject("AlreadyReserved")
      [] p.phase = "Absent" /\ ~CodeFormatOk(code) -> Reject("InvalidVerificationCodeFormat")
      [] OTHER -> Accept([type |-> "EmailReserved", account_id |-> id,
                          verification_code |-> code])

(* Wrong variant: the phases after acceptance restart verification too. *)
RequestVerificationCodeInAnyPhase(p, id, code) ==
    IF p.phase = "Absent" THEN Reject("NotReserved")
    ELSE IF p.account_id = id THEN Reject("AccountIdUnchanged")
    ELSE Accept([type |-> "VerificationRestarted", account_id |-> id,
                 verification_code |-> code])

(* Wrong variant: a verified address is refused a new code. *)
RequestVerificationCodeUntilVerified(p, id, code) ==
    IF p.phase = "Absent" THEN Reject("NotReserved")
    ELSE IF p.account_id = id THEN Reject("AccountIdUnchanged")
    ELSE IF p.phase = "AwaitingCode"
    THEN Accept([type |-> "VerificationCodeRequested", account_id |-> id, verification_code |-> code])
    ELSE Reject("AccountCreationStarted")

HandleRequestVerificationCode(p, id, code) ==
    IF p.phase = "Absent" THEN Reject("NotReserved")
    ELSE IF p.account_id = id THEN Reject("AccountIdUnchanged")
    ELSE IF ~CodeFormatOk(code) THEN Reject("InvalidVerificationCodeFormat")
    ELSE CASE p.phase = "AwaitingCode" ->
                Accept([type |-> "VerificationCodeRequested", account_id |-> id,
                        verification_code |-> code])
           [] p.phase = "AwaitingProfile" ->
                Accept([type |-> "VerificationRestarted", account_id |-> id,
                        verification_code |-> code])
           [] OTHER -> Reject("AccountCreationStarted")

HandleVerify(p, id, code, digest) ==
    CASE p.phase = "Absent" -> Reject("NotReserved")
      [] ProfileAccepted(p) -> Reject("AccountCreationStarted")
      [] p.phase \in {"AwaitingCode", "AwaitingProfile"} /\ p.account_id # id ->
            Reject("NotCurrentAccountId")
      [] p.phase = "AwaitingProfile" /\ p.account_id = id -> Reject("AlreadyVerified")
      [] p.phase = "AwaitingCode" /\ p.account_id = id ->
            IF p.verification_code # code
            THEN Reject("InvalidVerificationCode")
            ELSE Accept([type |-> "EmailVerified", account_id |-> id, token_digest |-> digest])

HandleSubmitProfile(p, id, digest, submitted) ==
    LET profile == TrimmedProfile(submitted)
    IN  IF p.phase = "Absent" THEN Reject("NotReserved")
        ELSE IF p.account_id # id THEN Reject("NotCurrentAccountId")
        ELSE CASE p.phase = "AwaitingCode" -> Reject("NotAwaitingProfile")
               [] ProfileAccepted(p) ->
                    IF p.consumed_token_digest # digest
                    THEN Reject("InvalidAccountCreationToken")
                    ELSE Reject("ProfileAlreadySubmitted")
               [] p.phase = "AwaitingProfile" ->
                    IF p.token_digest # digest THEN Reject("InvalidAccountCreationToken")
                    ELSE IF ProfileError(profile) # "none" THEN Reject(ProfileError(profile))
                    ELSE Accept([type |-> "RegistrationProfileAccepted", account_id |-> id,
                                 consumed_token_digest |-> digest, profile |-> profile])

HandleRecordAccountCreated(p, id, profile, at) ==
    CASE p.phase = "Absent" -> Reject("NotReserved")
      [] p.phase \in {"AwaitingCode", "AwaitingProfile"} -> Reject("NotAwaitingProfile")
      [] ProfileAccepted(p) ->
            IF p.account_id # id \/ p.accepted_profile # profile
            THEN Reject("AccountCreationMismatch")
            ELSE IF p.phase = "CreatingAccount"
            THEN Accept([type |-> "AccountCreationCompleted", account_id |-> id,
                         created_at |-> at])
            ELSE IF p.created_at = at
            THEN Reject("AccountCreationAlreadyCompleted")
            ELSE Reject("AccountCreationMismatch")

----------------------------------------------------------------------------
(* Event application.  Completion reads the accepted profile from the      *)
(* phase it is applied to and panics on any other phase.                   *)

Apply(p, ev) ==
    CASE ev.type \in {"EmailReserved", "VerificationCodeRequested", "VerificationRestarted"} ->
            AwaitingCode(ev.account_id, ev.verification_code)
      [] ev.type = "EmailVerified" -> AwaitingProfile(ev.account_id, ev.token_digest)
      [] ev.type = "RegistrationProfileAccepted" ->
            CreatingAccount(ev.account_id, ev.consumed_token_digest, ev.profile)
      [] ev.type = "AccountCreationCompleted" ->
            IF p.phase = "CreatingAccount"
            THEN AccountCreated(ev.account_id, p.consumed_token_digest,
                                p.accepted_profile, ev.created_at)
            ELSE Panicked
====
