---- MODULE UserAccount ----
(***************************************************************************)
(* The UserAccount aggregate: at most one creation per account id.  The    *)
(* four profile fields of the account stay together as one profile record. *)
(***************************************************************************)
EXTENDS EmailReservation

NoAccount == [created |-> FALSE]

CreatedAccount(id, email, profile, at) ==
    [created |-> TRUE, account_id |-> id, email |-> email,
     profile |-> profile, created_at |-> at]

(* Wrong variants: an existing account is not looked at; a repeat must     *)
(* have the same instant.                                                  *)
CreateAccountUnconditionally(a, id, email, submitted, at) ==
    Accept([type |-> "AccountCreated", account_id |-> id, email |-> email,
            profile |-> TrimmedProfile(submitted), created_at |-> at])

CreateAccountRepeatAtSameInstant(a, id, email, submitted, at) ==
    IF a.created
    THEN IF a = CreatedAccount(id, email, TrimmedProfile(submitted), at)
         THEN Reject("AlreadyCreated")
         ELSE Reject("AlreadyExistsWithDifferentData")
    ELSE CreateAccountUnconditionally(a, id, email, submitted, at)

(* An exact repeat ignores created_at: a redelivery selects a new instant. *)
HandleCreateAccount(a, id, email, submitted, at) ==
    LET profile == TrimmedProfile(submitted)
    IN  IF a.created
        THEN IF a.account_id = id /\ a.email = email /\ a.profile = profile
             THEN Reject("AlreadyCreated")
             ELSE Reject("AlreadyExistsWithDifferentData")
        ELSE IF ProfileError(profile) # "none" THEN Reject(ProfileError(profile))
        ELSE Accept([type |-> "AccountCreated", account_id |-> id, email |-> email,
                     profile |-> profile, created_at |-> at])

ApplyAccountCreated(a, ev) ==
    CreatedAccount(ev.account_id, ev.email, ev.profile, ev.created_at)
====
