---- MODULE HttpProofs ----
(***************************************************************************)
(* Proofs about Http: no answer is 500, a mailbox is reserved and its      *)
(* profile accepted once, and a submission answered by 202 stands.         *)
(***************************************************************************)
EXTENDS Http, TLAPS

Operations == {"reserve", "request_code", "verify", "submit_profile"}

Digests == {Digest(token) : token \in Tokens}

(* Profiles as the handler builds them, already trimmed. *)
ProfileOf(s) == RegistrationProfile(s.first_name, s.last_name, s.date_of_birth, Today)

Profiles == {ProfileOf(s) : s \in Submissions}

Phases ==
    {Absent}
    \cup [phase : {"AwaitingCode"}, account_id : AccountIds, verification_code : Codes]
    \cup [phase : {"AwaitingProfile"}, account_id : AccountIds, token_digest : Digests]
    \cup [phase : {"CreatingAccount"}, account_id : AccountIds,
          consumed_token_digest : Digests, accepted_profile : Profiles]

(* The rejections that can reach each operation. *)
Rejections(op) ==
    CASE op = "reserve" -> {"AlreadyReserved"}
      [] op = "request_code" -> {"NotReserved", "AccountIdUnchanged", "AccountCreationStarted"}
      [] op = "verify" -> {"NotReserved", "NotCurrentAccountId", "AlreadyVerified",
                           "AccountCreationStarted", "InvalidVerificationCode"}
      [] op = "submit_profile" -> {"NotReserved", "NotCurrentAccountId", "NotAwaitingProfile",
                                   "InvalidAccountCreationToken", "ProfileAlreadySubmitted",
                                   "EmptyFirstName", "EmptyLastName", "FutureDateOfBirth"}

Outcomes == {None, "Ok"} \cup GatewayErrors \cup UNION {Rejections(op) : op \in Operations}

NewCodeRequests ==
    [op : {"reserve", "request_code"}, key : Keys, account_id : AccountIds, code : Codes, outcome : Outcomes]

ConfirmRequests ==
    [op : {"verify"}, key : Keys, account_id : AccountIds, code : Codes \cup Guesses,
     token : Tokens, outcome : Outcomes]

SubmitRequests ==
    [op : {"submit_profile"}, key : Keys, account_id : AccountIds, token : Tokens,
     profile : Profiles, outcome : Outcomes]

Requests == NewCodeRequests \cup ConfirmRequests \cup SubmitRequests

TypeOK ==
    /\ reservation \in [Keys -> Phases]
    /\ request \in [Clients -> Requests \cup {Idle}]
    /\ late \in [Clients -> Requests \cup {Idle}]
    /\ held \in Tokens \cup {None}
    /\ reserved \subseteq Keys
    /\ accepted \subseteq SubmitRequests

(* The registration has what the request submitted. *)
Stands(r) ==
    /\ ProfileAccepted(reservation[r.key])
    /\ reservation[r.key].account_id = r.account_id
    /\ reservation[r.key].accepted_profile = r.profile

(* Every request has an outcome of its operation, and one that submitted   *)
(* a profile and succeeded stands, before it is answered and after.        *)
HttpInv ==
    /\ TypeOK
    /\ \A c \in Clients : request[c] # Idle =>
          /\ request[c].outcome \in {None, "Ok"} \cup GatewayErrors \cup Rejections(request[c].op)
          /\ request[c].op = "submit_profile" /\ request[c].outcome = "Ok" => Stands(request[c])
    /\ \A r \in accepted : Stands(r)
    /\ ~internal

(* The operations that succeed once for an address, the addresses they     *)
(* were confirmed for, and a phase that they have led to.                  *)
Single == {"reserve", "submit_profile"}

Confirmed(op) == IF op = "reserve" THEN reserved ELSE {r.key : r \in accepted}

Done(op, p) == IF op = "reserve" THEN p.phase # "Absent" ELSE ProfileAccepted(p)

(* Where one of them was confirmed, or succeeded and is not answered yet,  *)
(* it is done, and no second request has succeeded.                        *)
OnceFor(op) ==
    /\ \A key \in Confirmed(op) : key \in Keys /\ Done(op, reservation[key])
    /\ \A c \in Clients : Succeeded(op, request[c]) =>
          /\ Done(op, reservation[request[c].key])
          /\ request[c].key \notin Confirmed(op)
          /\ \A d \in Clients \ {c} : Succeeded(op, request[d]) => request[d].key # request[c].key

OnceInv == \A op \in Single : OnceFor(op)

----------------------------------------------------------------------------
(* Addresses and profiles. *)

LEMMA ParseGivesKeys ==
    ASSUME NEW spelling \in Spellings, Parse(spelling) # NoKey
    PROVE  Parse(spelling) \in Keys
  BY Zenon DEF Keys

LEMMA KeysAreMailboxes ==
    ASSUME NEW k \in Keys
    PROVE  k = <<k[1], FALSE, FALSE>>
<1>1. PICK spelling \in Spellings : k = Parse(spelling) /\ k # NoKey
  BY Zenon DEF Keys
<1>2. k = <<spelling.mailbox, FALSE, FALSE>>
  BY <1>1, Zenon DEF Parse
<1> QED
  BY <1>2, Zenon

LEMMA MineAreAddresses == ASSUME NEW email \in Mine PROVE Parse(email) \in Keys
  BY ParseGivesKeys, Zenon DEF Mine

LEMMA ProfileIsSubmission == Profile \in Submissions
  BY UserAssumption, Zenon DEF Profile

(* What the handler trimmed, the aggregate trims in vain. *)
LEMMA TrimmedOnce ==
    ASSUME NEW p \in Profiles
    PROVE  TrimmedProfile(p) = p
<1>1. PICK s \in Submissions : p = ProfileOf(s)
  BY Zenon DEF Profiles
<1>2. \A name : Trim(Trim(name)) = Trim(name)
  BY Zenon DEF Trim
<1>3. /\ p.first_name = Trim(s.first_name) /\ p.last_name = Trim(s.last_name)
      /\ p.date_of_birth = s.date_of_birth /\ p.validation_date = Today
  BY <1>1, Zenon DEF ProfileOf, RegistrationProfile
<1> QED
  BY <1>1, <1>2, <1>3, Zenon DEF TrimmedProfile, ProfileOf, RegistrationProfile

LEMMA ProfileErrors ==
    ASSUME NEW p
    PROVE  ProfileError(p) \in {"EmptyFirstName", "EmptyLastName", "FutureDateOfBirth", "none"}
  BY Zenon DEF ProfileError

----------------------------------------------------------------------------
(* Decisions.  An accepted command leads to a phase, and is never decided  *)
(* once a profile was accepted; a rejection is one the operation expects.  *)
DecisionIsExpected(p, r, d) ==
    \/ /\ d.accepted /\ Apply(p, d.event) \in Phases /\ ~ProfileAccepted(p)
       /\ Apply(p, d.event).phase # "Absent"
       /\ r.op = "reserve" => p.phase = "Absent"
       /\ r.op = "submit_profile" =>
             Apply(p, d.event) = CreatingAccount(r.account_id, Digest(r.token), r.profile)
    \/ ~d.accepted /\ d.error \in Rejections(r.op)

LEMMA PhaseNames ==
    ASSUME NEW p \in Phases
    PROVE  /\ p.phase \in {"Absent", "AwaitingCode", "AwaitingProfile", "CreatingAccount"}
           /\ ProfileAccepted(p) <=> p.phase = "CreatingAccount"
  BY DEF Phases, Absent, ProfileAccepted

LEMMA NewCodePhase ==
    ASSUME NEW id \in AccountIds, NEW code \in Codes
    PROVE  AwaitingCode(id, code) \in Phases /\ AwaitingCode(id, code).phase # "Absent"
  BY Zenon DEF AwaitingCode, Phases

LEMMA CodesAreWellFormed == ASSUME NEW code \in Codes PROVE CodeFormatOk(code)
  BY HttpAssumption, Zenon

LEMMA ReserveExpected ==
    ASSUME NEW p \in Phases, NEW r \in NewCodeRequests, r.op = "reserve"
    PROVE  DecisionIsExpected(p, r, Handle(p, r))
<1>1. r.account_id \in AccountIds /\ r.code \in Codes /\ CodeFormatOk(r.code)
  BY CodesAreWellFormed, Zenon DEF NewCodeRequests
<1>2. Handle(p, r) = HandleReserve(p, r.account_id, r.code)
  BY Zenon DEF Handle
<1>3. CASE p.phase # "Absent"
  <2>1. Handle(p, r) = [accepted |-> FALSE, error |-> "AlreadyReserved"]
    BY <1>2, <1>3, Zenon DEF HandleReserve, Reject
  <2> QED
    BY <2>1 DEF DecisionIsExpected, Rejections
<1>4. CASE p.phase = "Absent"
  <2> DEFINE ev == [type |-> "EmailReserved", account_id |-> r.account_id, verification_code |-> r.code]
  <2>1. Handle(p, r) = [accepted |-> TRUE, event |-> ev]
    BY <1>1, <1>2, <1>4, Zenon DEF HandleReserve, Accept
  <2>2. Apply(p, ev) = AwaitingCode(r.account_id, r.code)
    BY Zenon DEF Apply
  <2> HIDE DEF ev
  <2>3. ~ProfileAccepted(p)
    BY <1>4, Zenon DEF ProfileAccepted
  <2> QED
    BY <1>1, <1>4, <2>1, <2>2, <2>3, NewCodePhase DEF DecisionIsExpected
<1> QED
  BY <1>3, <1>4, Zenon

LEMMA RequestCodeExpected ==
    ASSUME NEW p \in Phases, NEW r \in NewCodeRequests, r.op = "request_code"
    PROVE  DecisionIsExpected(p, r, Handle(p, r))
<1>1. r.account_id \in AccountIds /\ r.code \in Codes /\ CodeFormatOk(r.code)
  BY CodesAreWellFormed, Zenon DEF NewCodeRequests
<1>2. Handle(p, r) = HandleRequestVerificationCode(p, r.account_id, r.code)
  BY Zenon DEF Handle
<1>3. p.phase \in {"Absent", "AwaitingCode", "AwaitingProfile", "CreatingAccount"}
  BY PhaseNames, Zenon
<1>4. ASSUME NEW error \in {"NotReserved", "AccountIdUnchanged", "AccountCreationStarted"},
             Handle(p, r) = Reject(error)
      PROVE  DecisionIsExpected(p, r, Handle(p, r))
  BY <1>4 DEF DecisionIsExpected, Rejections, Reject
<1>5. CASE p.phase = "Absent"
  BY <1>2, <1>4, <1>5, Zenon DEF HandleRequestVerificationCode
<1>6. CASE p.phase # "Absent" /\ p.account_id = r.account_id
  BY <1>2, <1>4, <1>6, Zenon DEF HandleRequestVerificationCode
<1>7. CASE p.phase = "CreatingAccount" /\ p.account_id # r.account_id
  BY <1>1, <1>2, <1>4, <1>7, Zenon DEF HandleRequestVerificationCode
<1>8. CASE p.phase \in {"AwaitingCode", "AwaitingProfile"} /\ p.account_id # r.account_id
  <2>1. PICK type \in {"VerificationCodeRequested", "VerificationRestarted"} :
            Handle(p, r) = Accept([type |-> type, account_id |-> r.account_id, verification_code |-> r.code])
    BY <1>1, <1>2, <1>8, Zenon DEF HandleRequestVerificationCode
  <2> DEFINE ev == [type |-> type, account_id |-> r.account_id, verification_code |-> r.code]
  <2>2. Handle(p, r).accepted /\ Handle(p, r).event = ev
    BY <2>1 DEF Accept
  <2>3. Apply(p, ev) = AwaitingCode(r.account_id, r.code)
    BY Zenon DEF Apply
  <2> HIDE DEF ev
  <2>4. ~ProfileAccepted(p)
    BY <1>8, Zenon DEF ProfileAccepted
  <2> QED
    BY <1>1, <2>2, <2>3, <2>4, NewCodePhase, Zenon DEF DecisionIsExpected
<1> QED
  BY <1>3, <1>5, <1>6, <1>7, <1>8, Zenon

LEMMA VerifyExpected ==
    ASSUME NEW p \in Phases, NEW r \in ConfirmRequests
    PROVE  DecisionIsExpected(p, r, Handle(p, r))
<1>1. r.op = "verify" /\ r.account_id \in AccountIds /\ Digest(r.token) \in Digests
  BY Zenon DEF ConfirmRequests, Digests
<1>2. Handle(p, r) = HandleVerify(p, r.account_id, r.code, Digest(r.token))
  BY <1>1, Zenon DEF Handle
<1>3. p.phase \in {"Absent", "AwaitingCode", "AwaitingProfile", "CreatingAccount"}
  BY PhaseNames, Zenon
<1>4. ASSUME NEW error \in {"NotReserved", "NotCurrentAccountId", "AlreadyVerified",
                            "AccountCreationStarted", "InvalidVerificationCode"},
             Handle(p, r) = Reject(error)
      PROVE  DecisionIsExpected(p, r, Handle(p, r))
  BY <1>1, <1>4 DEF DecisionIsExpected, Rejections, Reject
<1>5. CASE p.phase = "Absent"
  BY <1>2, <1>4, <1>5, Zenon DEF HandleVerify, ProfileAccepted
<1>6. CASE p.phase = "CreatingAccount"
  BY <1>2, <1>4, <1>6, Zenon DEF HandleVerify, ProfileAccepted
<1>7. CASE p.phase \in {"AwaitingCode", "AwaitingProfile"} /\ p.account_id # r.account_id
  BY <1>2, <1>4, <1>7, Zenon DEF HandleVerify, ProfileAccepted
<1>8. CASE p.phase = "AwaitingProfile" /\ p.account_id = r.account_id
  BY <1>2, <1>4, <1>8, Zenon DEF HandleVerify, ProfileAccepted
<1>9. CASE p.phase = "AwaitingCode" /\ p.account_id = r.account_id /\ p.verification_code # r.code
  BY <1>2, <1>4, <1>9, Zenon DEF HandleVerify, ProfileAccepted
<1>10. CASE p.phase = "AwaitingCode" /\ p.account_id = r.account_id /\ p.verification_code = r.code
  <2> DEFINE ev == [type |-> "EmailVerified", account_id |-> r.account_id, token_digest |-> Digest(r.token)]
  <2>1. Handle(p, r) = Accept(ev)
    BY <1>2, <1>10, Zenon DEF HandleVerify, ProfileAccepted
  <2>2. Handle(p, r).accepted /\ Handle(p, r).event = ev
    BY <2>1 DEF Accept
  <2>3. Apply(p, ev) = AwaitingProfile(r.account_id, Digest(r.token))
    BY Zenon DEF Apply
  <2>4. /\ AwaitingProfile(r.account_id, Digest(r.token)) \in Phases
        /\ AwaitingProfile(r.account_id, Digest(r.token)).phase # "Absent"
    BY <1>1, Zenon DEF AwaitingProfile, Phases
  <2> HIDE DEF ev
  <2>5. ~ProfileAccepted(p)
    BY <1>10, Zenon DEF ProfileAccepted
  <2> QED
    BY <1>1, <2>2, <2>3, <2>4, <2>5, Zenon DEF DecisionIsExpected
<1> QED
  BY <1>3, <1>5, <1>6, <1>7, <1>8, <1>9, <1>10, Zenon

LEMMA SubmitExpected ==
    ASSUME NEW p \in Phases, NEW r \in SubmitRequests
    PROVE  DecisionIsExpected(p, r, Handle(p, r))
<1>1. r.op = "submit_profile" /\ r.account_id \in AccountIds /\ Digest(r.token) \in Digests /\ r.profile \in Profiles
  BY Zenon DEF SubmitRequests, Digests
<1>2. Handle(p, r) = HandleSubmitProfile(p, r.account_id, Digest(r.token), r.profile)
  BY <1>1, Zenon DEF Handle
<1>3. p.phase \in {"Absent", "AwaitingCode", "AwaitingProfile", "CreatingAccount"}
  BY PhaseNames
<1>4. TrimmedProfile(r.profile) = r.profile
  BY <1>1, TrimmedOnce, Zenon
<1>5. ASSUME NEW error \in {"NotReserved", "NotCurrentAccountId", "NotAwaitingProfile",
                            "InvalidAccountCreationToken", "ProfileAlreadySubmitted",
                            "EmptyFirstName", "EmptyLastName", "FutureDateOfBirth"},
             Handle(p, r) = Reject(error)
      PROVE  DecisionIsExpected(p, r, Handle(p, r))
  BY <1>1, <1>5 DEF DecisionIsExpected, Rejections, Reject
<1>6. CASE p.phase = "Absent"
  BY <1>2, <1>5, <1>6, Zenon DEF HandleSubmitProfile
<1>7. CASE p.phase # "Absent" /\ p.account_id # r.account_id
  BY <1>2, <1>5, <1>7, Zenon DEF HandleSubmitProfile
<1>8. CASE p.phase = "AwaitingCode" /\ p.account_id = r.account_id
  BY <1>2, <1>5, <1>8, Zenon DEF HandleSubmitProfile, ProfileAccepted
<1>9. CASE p.phase = "CreatingAccount" /\ p.account_id = r.account_id
  BY <1>2, <1>5, <1>9, Zenon DEF HandleSubmitProfile, ProfileAccepted
<1>10. CASE p.phase = "AwaitingProfile" /\ p.account_id = r.account_id
  <2>1. CASE p.token_digest # Digest(r.token)
    BY <1>2, <1>5, <1>10, <2>1, Zenon DEF HandleSubmitProfile, ProfileAccepted
  <2>2. CASE p.token_digest = Digest(r.token) /\ ProfileError(r.profile) # "none"
    <3>1. Handle(p, r) = Reject(ProfileError(r.profile))
      BY <1>2, <1>4, <1>10, <2>2, Zenon DEF HandleSubmitProfile, ProfileAccepted
    <3> QED
      BY <1>5, <2>2, <3>1, ProfileErrors, Zenon
  <2>3. CASE p.token_digest = Digest(r.token) /\ ProfileError(r.profile) = "none"
    <3> DEFINE ev == [type |-> "RegistrationProfileAccepted", account_id |-> r.account_id,
                      consumed_token_digest |-> Digest(r.token), profile |-> r.profile]
    <3>1. Handle(p, r) = Accept(ev)
      BY <1>2, <1>4, <1>10, <2>3, Zenon DEF HandleSubmitProfile, ProfileAccepted
    <3>2. Handle(p, r).accepted /\ Handle(p, r).event = ev
      BY <3>1 DEF Accept
    <3>3. Apply(p, ev) = CreatingAccount(r.account_id, Digest(r.token), r.profile)
      BY Zenon DEF Apply
    <3>4. /\ CreatingAccount(r.account_id, Digest(r.token), r.profile) \in Phases
          /\ CreatingAccount(r.account_id, Digest(r.token), r.profile).phase # "Absent"
      BY <1>1, Zenon DEF CreatingAccount, Phases
    <3> HIDE DEF ev
    <3>5. ~ProfileAccepted(p)
      BY <1>10, Zenon DEF ProfileAccepted
    <3> QED
      BY <1>1, <3>2, <3>3, <3>4, <3>5, Zenon DEF DecisionIsExpected
  <2> QED
    BY <2>1, <2>2, <2>3, Zenon
<1> QED
  BY <1>3, <1>6, <1>7, <1>8, <1>9, <1>10, Zenon

LEMMA HandleExpected ==
    ASSUME NEW p \in Phases, NEW r \in Requests
    PROVE  DecisionIsExpected(p, r, Handle(p, r))
<1>1. CASE r \in NewCodeRequests
  <2>1. r.op = "reserve" \/ r.op = "request_code"
    BY <1>1, Zenon DEF NewCodeRequests
  <2> QED
    BY <1>1, <2>1, ReserveExpected, RequestCodeExpected, Zenon
<1> QED
  BY <1>1, VerifyExpected, SubmitExpected, Zenon DEF Requests

----------------------------------------------------------------------------
(* Statuses.  What an operation can come to is never answered by 500. *)

LEMMA ExpectedStatus ==
    ASSUME NEW op \in Operations, NEW outcome \in {"Ok"} \cup GatewayErrors \cup Rejections(op)
    PROVE  Status(op, outcome) # 500
<1>1. CASE outcome = "Ok"
  BY <1>1 DEF Status
<1>2. CASE op = "reserve" /\ outcome # "Ok"
  <2>1. outcome \in {"Conflict", "Unavailable", "AlreadyReserved"}
    BY <1>2, Zenon DEF GatewayErrors, Rejections
  <2>2. EmailReservationsError(ServiceError(op, outcome)) = outcome
    BY <1>2, <2>1, Zenon DEF EmailReservationsError, ServiceError, ReserveError, GatewayErrors
  <2>3. Status(op, outcome) = EmailReservationsStatus(outcome)
    BY <1>2, <2>2, Zenon DEF Status, ErrorStatus
  <2> QED
    BY <2>1, <2>3 DEF EmailReservationsStatus
<1>3. CASE op = "request_code" /\ outcome # "Ok"
  <2>1. outcome \in {"Conflict", "Unavailable", "NotReserved", "AccountIdUnchanged", "AccountCreationStarted"}
    BY <1>3, Zenon DEF GatewayErrors, Rejections
  <2>2. PICK kind \in {"Conflict", "Unavailable", "NotReserved", "AccountCreationStarted"} :
            EmailReservationsError(ServiceError(op, outcome)) = kind
    BY <1>3, <2>1, Zenon DEF EmailReservationsError, ServiceError, RequestCodeError, GatewayErrors
  <2>3. Status(op, outcome) = EmailReservationsStatus(kind)
    BY <1>3, <2>2, Zenon DEF Status, ErrorStatus
  <2> QED
    BY <2>2, <2>3 DEF EmailReservationsStatus
<1>4. CASE op = "verify" /\ outcome # "Ok"
  <2>1. outcome \in {"Conflict", "Unavailable", "NotReserved", "NotCurrentAccountId", "AlreadyVerified",
                     "AccountCreationStarted", "InvalidVerificationCode"}
    BY <1>4, Zenon DEF GatewayErrors, Rejections
  <2>2. ServiceError(op, outcome) = outcome
    BY <1>4, <2>1, Zenon DEF ServiceError, ConfirmError, GatewayErrors
  <2>3. PICK kind \in {"Conflict", "Unavailable", "NotReserved", "NotCurrentAccountId", "AlreadyVerified",
                       "AccountCreationStarted", "InvalidCode"} :
            EmailReservationsError(ServiceError(op, outcome)) = kind
    BY <2>1, <2>2, Zenon DEF EmailReservationsError
  <2>4. Status(op, outcome) = EmailReservationsStatus(kind)
    BY <1>4, <2>3, Zenon DEF Status, ErrorStatus
  <2> QED
    BY <2>3, <2>4 DEF EmailReservationsStatus
<1>5. CASE op = "submit_profile" /\ outcome # "Ok"
  <2>1. outcome \in {"Conflict", "Unavailable", "NotReserved", "NotCurrentAccountId", "NotAwaitingProfile",
                     "InvalidAccountCreationToken", "ProfileAlreadySubmitted",
                     "EmptyFirstName", "EmptyLastName", "FutureDateOfBirth"}
    BY <1>5, Zenon DEF GatewayErrors, Rejections
  <2>2. PICK kind \in {"Conflict", "Unavailable", "RegistrationNotFound", "RegistrationNotCurrent",
                       "EmailNotVerified", "InvalidProfile", "InvalidAccountCreationToken",
                       "ProfileAlreadySubmitted"} :
            UserAccountsError(outcome) = kind
    BY <2>1, Zenon DEF UserAccountsError, GatewayErrors
  <2>3. Status(op, outcome) = UserAccountsStatus(kind)
    BY <1>5, <2>2, Zenon DEF Status, ErrorStatus
  <2> QED
    BY <2>2, <2>3 DEF UserAccountsStatus
<1> QED
  BY <1>1, <1>2, <1>3, <1>4, <1>5, Zenon DEF Operations

LEMMA RefusalStatus ==
    ASSUME NEW body, Refusal(body) # None
    PROVE  ErrorStatus(body.op, Refusal(body)) # 500
<1>1. CASE body.op = "submit_profile"
  <2>1. Refusal(body) \in {"InvalidRequest", "InvalidEmail", "InvalidProfile"}
    BY <1>1, Zenon DEF Refusal, SubmissionRefusal
  <2> QED
    BY <1>1, <2>1 DEF ErrorStatus, UserAccountsStatus
<1>2. CASE body.op # "submit_profile"
  <2>1. Refusal(body) \in {"InvalidRequest", "InvalidEmail", "InvalidCode"}
    BY <1>2, Zenon DEF Refusal, VerificationRefusal, AddressRefusal
  <2> QED
    BY <1>2, <2>1 DEF ErrorStatus, EmailReservationsStatus
<1> QED
  BY <1>1, <1>2

----------------------------------------------------------------------------
(* The invariant is inductive. *)

LEMMA RequestFacts ==
    ASSUME NEW r \in Requests
    PROVE  r # Idle /\ r.op \in Operations /\ r.key \in Keys /\ r.outcome \in Outcomes
  BY DEF Requests, NewCodeRequests, ConfirmRequests, SubmitRequests, Idle, None, Operations

(* What a stored command did, in the executor or late. *)
LEMMA CommitEffects ==
    ASSUME TypeOK, NEW r \in Requests, Commit(r)
    PROVE  /\ reservation' \in [Keys -> Phases] /\ late' \in [Clients -> Requests \cup {Idle}]
           /\ r.key \in Keys /\ \A k \in Keys : k # r.key => reservation'[k] = reservation[k]
           /\ ~ProfileAccepted(reservation[r.key]) /\ reservation'[r.key].phase # "Absent"
           /\ r.op = "reserve" => reservation[r.key].phase = "Absent"
           /\ r.op = "submit_profile" =>
                 reservation'[r.key] = CreatingAccount(r.account_id, Digest(r.token), r.profile)
<1>1. r.key \in Keys /\ reservation[r.key] \in Phases /\ reservation \in [Keys -> Phases]
  BY RequestFacts, Zenon DEF TypeOK
<1>2. PICK q : q = Apply(reservation[r.key], Decision(r).event)
  BY Zenon
<1>3. /\ q \in Phases /\ ~ProfileAccepted(reservation[r.key]) /\ q.phase # "Absent"
      /\ r.op = "reserve" => reservation[r.key].phase = "Absent"
      /\ r.op = "submit_profile" => q = CreatingAccount(r.account_id, Digest(r.token), r.profile)
  BY <1>1, <1>2, HandleExpected, Zenon DEF DecisionIsExpected, Commit, Decision
<1>4. reservation' = [reservation EXCEPT ![r.key] = q]
  BY <1>2, Zenon DEF Commit
<1>5. reservation'[r.key] = q /\ reservation' \in [Keys -> Phases]
      /\ \A k \in Keys : k # r.key => reservation'[k] = reservation[k]
  BY <1>1, <1>3, <1>4, Zenon
<1>6. late' \in [Clients -> Requests \cup {Idle}]
  BY Zenon DEF Commit, TypeOK
<1> QED
  BY <1>1, <1>3, <1>5, <1>6, Zenon

(* A submission is changed by nothing but its own command: once a profile  *)
(* is accepted no command is.                                              *)
LEMMA StandingStays ==
    ASSUME TypeOK, NEW r \in Requests, Commit(r), NEW s \in SubmitRequests, Stands(s)
    PROVE  /\ ProfileAccepted(reservation'[s.key])
           /\ reservation'[s.key].account_id = s.account_id
           /\ reservation'[s.key].accepted_profile = s.profile
<1>1. s.key # r.key /\ s.key \in Keys
  BY CommitEffects, Zenon DEF Stands, SubmitRequests
<1>2. reservation'[s.key] = reservation[s.key]
  BY <1>1, CommitEffects, Zenon
<1> QED
  BY <1>2, Zenon DEF Stands

(* What was done stays done, and is not done twice. *)
LEMMA DoneStays ==
    ASSUME TypeOK, NEW r \in Requests, Commit(r), NEW op \in Single
    PROVE  /\ \A k \in Keys : Done(op, reservation[k]) => Done(op, reservation'[k])
           /\ r.op = op => ~Done(op, reservation[r.key]) /\ Done(op, reservation'[r.key])
<1>1. ASSUME NEW k \in Keys, Done(op, reservation[k]) PROVE Done(op, reservation'[k])
  <2>1. CASE k # r.key
    BY <1>1, <2>1, CommitEffects, Zenon
  <2>2. CASE k = r.key
    BY <1>1, <2>2, CommitEffects, Zenon DEF Done
  <2> QED
    BY <2>1, <2>2, Zenon
<1>2. ASSUME r.op = op PROVE ~Done(op, reservation[r.key]) /\ Done(op, reservation'[r.key])
  <2>1. CASE op = "reserve"
    BY <1>2, <2>1, CommitEffects, Zenon DEF Done
  <2>2. CASE op = "submit_profile"
    <3>1. ProfileAccepted(CreatingAccount(r.account_id, Digest(r.token), r.profile))
      BY Zenon DEF ProfileAccepted, CreatingAccount
    <3>2. reservation'[r.key] = CreatingAccount(r.account_id, Digest(r.token), r.profile)
      BY <1>2, <2>2, CommitEffects, Zenon
    <3>3. ~ProfileAccepted(reservation[r.key])
      BY CommitEffects, Zenon
    <3> QED
      BY <2>2, <3>1, <3>2, <3>3, Zenon DEF Done
  <2> QED
    BY <2>1, <2>2, Zenon DEF Single
<1> QED
  BY <1>1, <1>2, Zenon

(* The outcome of a command is recorded in its request. *)
LEMMA OutcomeType ==
    ASSUME NEW r \in Requests, NEW o \in Outcomes
    PROVE  /\ [r EXCEPT !.outcome = o] \in Requests
           /\ [r EXCEPT !.outcome = o].outcome = o /\ [r EXCEPT !.outcome = o].op = r.op
           /\ [r EXCEPT !.outcome = o].key = r.key
           /\ r \in SubmitRequests =>
                 /\ [r EXCEPT !.outcome = o] \in SubmitRequests
                 /\ [r EXCEPT !.outcome = o].account_id = r.account_id
                 /\ [r EXCEPT !.outcome = o].profile = r.profile
           /\ r.op = "submit_profile" => r \in SubmitRequests
<1>1. CASE r \in NewCodeRequests
  BY <1>1, Zenon DEF Requests, NewCodeRequests, SubmitRequests
<1>2. CASE r \in ConfirmRequests
  BY <1>2, Zenon DEF Requests, ConfirmRequests, SubmitRequests
<1>3. CASE r \in SubmitRequests
  BY <1>3, Zenon DEF Requests, SubmitRequests
<1> QED
  BY <1>1, <1>2, <1>3, Zenon DEF Requests

LEMMA ExpectedIsOutcome ==
    ASSUME NEW op \in Operations
    PROVE  {None, "Ok"} \cup GatewayErrors \cup Rejections(op) \subseteq Outcomes
  BY Zenon DEF Outcomes

LEMMA SentIsRequest ==
    ASSUME TypeOK, NEW c \in Clients, request[c] # Idle
    PROVE  request[c] \in Requests
  BY Zenon DEF TypeOK

LEMMA SucceededIsRequest ==
    ASSUME TypeOK, NEW op \in Single, NEW c \in Clients, Succeeded(op, request[c])
    PROVE  request[c] \in Requests
<1>1. request[c] # Idle
  BY DEF Succeeded, Single, Idle, None
<1> QED
  BY <1>1, SentIsRequest, Zenon

(* The command is not stored, or was rejected. *)
LEMMA RefusedKeeps ==
    ASSUME HttpInv, NEW c \in Clients, request[c] # Idle,
           NEW o \in GatewayErrors \cup Rejections(request[c].op),
           request' = [request EXCEPT ![c].outcome = o], late' \in [Clients -> Requests \cup {Idle}],
           UNCHANGED <<reservation, internal, held, reserved, accepted>>
    PROVE  HttpInv'
<1> DEFINE r == request[c]
           r2 == [r EXCEPT !.outcome = o]
<1>0. r \in Requests /\ r.op \in Operations
  BY SentIsRequest, RequestFacts, Zenon DEF HttpInv
<1>1. o \in Outcomes /\ o # "Ok"
  <2>1. o # "Ok"
    BY <1>0, Zenon DEF Operations, Rejections, GatewayErrors
  <2> QED
    BY <1>0, <2>1, ExpectedIsOutcome, Zenon
<1>2. r2 \in Requests /\ r2.outcome = o /\ r2.op = r.op
  BY <1>0, <1>1, OutcomeType, Zenon
<1>3. /\ request'[c] = r2 /\ (\A d \in Clients : d # c => request'[d] = request[d])
      /\ request' = [d \in Clients |-> request'[d]]
  BY Zenon DEF HttpInv, TypeOK
<1> HIDE DEF r2
<1>4. TypeOK'
  BY <1>2, <1>3, Zenon DEF HttpInv, TypeOK
<1>5. \A d \in Clients : request'[d] # Idle =>
          /\ request'[d].outcome \in {None, "Ok"} \cup GatewayErrors \cup Rejections(request'[d].op)
          /\ request'[d].op = "submit_profile" /\ request'[d].outcome = "Ok" => Stands(request'[d])
  BY <1>1, <1>2, <1>3 DEF HttpInv
<1>6. reservation' = reservation /\ accepted' = accepted
  BY Zenon
<1>7. \A d \in Clients : request'[d].op = "submit_profile" /\ request'[d].outcome = "Ok"
          /\ request'[d] # Idle => Stands(request[d])'
  BY <1>5, <1>6, Zenon DEF Stands
<1>8. (\A a \in accepted : Stands(a))'
  BY <1>6 DEF HttpInv, Stands
<1> QED
  BY <1>4, <1>5, <1>7, <1>8 DEF HttpInv

(* Submissions that were answered still stand when a command is stored. *)
LEMMA AcceptedStay ==
    ASSUME HttpInv, NEW r \in Requests, Commit(r), accepted' = accepted
    PROVE  (\A a \in accepted : Stands(a))'
<1>1. ASSUME NEW a \in accepted
      PROVE  /\ ProfileAccepted(reservation'[a.key])
             /\ reservation'[a.key].account_id = a.account_id
             /\ reservation'[a.key].accepted_profile = a.profile
  <2>1. a \in SubmitRequests /\ Stands(a) /\ TypeOK
    BY Zenon DEF HttpInv, TypeOK
  <2> QED
    BY <2>1, StandingStays, Zenon
<1> QED
  BY <1>1, Zenon DEF Stands

(* The event is stored; the executor may or may not learn of it. *)
LEMMA StoredKeeps ==
    ASSUME HttpInv, NEW c \in Clients, request[c] # Idle, Commit(request[c]),
           NEW o \in {"Ok", "Unavailable"}, request' = [request EXCEPT ![c].outcome = o],
           UNCHANGED <<internal, held, reserved, accepted>>
    PROVE  HttpInv'
<1> DEFINE r == request[c]
           r2 == [r EXCEPT !.outcome = o]
<1>0. r \in Requests /\ r.op \in Operations /\ TypeOK
  BY SentIsRequest, RequestFacts, Zenon DEF HttpInv
<1>1. o \in Outcomes /\ o \in {None, "Ok"} \cup GatewayErrors
  BY Zenon DEF Outcomes, GatewayErrors
<1>2. /\ r2 \in Requests /\ r2.outcome = o /\ r2.op = r.op /\ r2.key = r.key
      /\ r.op = "submit_profile" => r2 \in SubmitRequests /\ r2.account_id = r.account_id /\ r2.profile = r.profile
  BY <1>0, <1>1, OutcomeType, Zenon
<1>3. /\ request'[c] = r2 /\ (\A d \in Clients : d # c => request'[d] = request[d])
      /\ request' = [d \in Clients |-> request'[d]]
  BY Zenon DEF HttpInv, TypeOK
<1> HIDE DEF r2
<1>4. /\ reservation' \in [Keys -> Phases] /\ late' \in [Clients -> Requests \cup {Idle}]
      /\ r.op = "submit_profile" => reservation'[r.key] = CreatingAccount(r.account_id, Digest(r.token), r.profile)
  BY <1>0, CommitEffects, Zenon
<1>8. TypeOK'
  BY <1>2, <1>3, <1>4, Zenon DEF HttpInv, TypeOK
<1>9. (\A a \in accepted : Stands(a))'
  BY <1>0, AcceptedStay, Zenon
<1>10. ASSUME NEW d \in Clients, request'[d] # Idle
       PROVE  request'[d].outcome \in {None, "Ok"} \cup GatewayErrors \cup Rejections(request'[d].op)
  BY <1>1, <1>2, <1>3, <1>10 DEF HttpInv
<1>11. ASSUME NEW d \in Clients, request'[d] # Idle,
              request'[d].op = "submit_profile", request'[d].outcome = "Ok"
       PROVE  /\ ProfileAccepted(reservation'[request'[d].key])
              /\ reservation'[request'[d].key].account_id = request'[d].account_id
              /\ reservation'[request'[d].key].accepted_profile = request'[d].profile
  <2>1. CASE d = c
    <3>1. r.op = "submit_profile" /\ request'[d] = r2
      BY <1>2, <1>3, <1>11, <2>1
    <3>2. reservation'[r2.key] = CreatingAccount(r.account_id, Digest(r.token), r.profile)
      BY <1>2, <1>4, <3>1, Zenon
    <3>3. PICK q : q = reservation'[r2.key]
      BY Zenon
    <3>4. ProfileAccepted(q) /\ q.account_id = r.account_id /\ q.accepted_profile = r.profile
      BY <3>2, <3>3 DEF CreatingAccount, ProfileAccepted
    <3>5. r2.account_id = r.account_id /\ r2.profile = r.profile
      BY <1>2, <3>1
    <3> QED
      BY <3>1, <3>3, <3>4, <3>5, Zenon
  <2>2. CASE d # c
    <3>1. request'[d] = request[d] /\ Stands(request[d])
      BY <1>3, <1>11, <2>2 DEF HttpInv
    <3>2. request[d] \in SubmitRequests
      <4>1. request[d] \in Requests
        BY <1>11, <3>1, SentIsRequest, Zenon DEF HttpInv
      <4> QED
        BY <1>11, <3>1, <4>1, OutcomeType, Zenon DEF Requests, NewCodeRequests, ConfirmRequests
    <3>3. PICK s \in SubmitRequests : s = request[d]
      BY <3>2, Zenon
    <3>4. Stands(s)
      BY <3>1, <3>3, Zenon
    <3>5. /\ ProfileAccepted(reservation'[s.key])
          /\ reservation'[s.key].account_id = s.account_id
          /\ reservation'[s.key].accepted_profile = s.profile
      BY <1>0, <3>4, StandingStays, Zenon
    <3> QED
      BY <3>1, <3>3, <3>5, Zenon
  <2> QED
    BY <2>1, <2>2, Zenon
<1>12. \A d \in Clients : (request[d] # Idle /\ request[d].op = "submit_profile" /\ request[d].outcome = "Ok"
           => Stands(request[d]))'
  BY <1>11, Zenon DEF Stands
<1> QED
  BY <1>8, <1>9, <1>10, <1>12 DEF HttpInv

(* A command nobody waits for is stored, or rolled back. *)
LEMMA LateKeeps ==
    ASSUME HttpInv, NEW c \in Clients, LateCommit(c)
    PROVE  HttpInv'
<1>1. /\ late[c] \in Requests /\ TypeOK /\ request \in [Clients -> Requests \cup {Idle}]
      /\ UNCHANGED <<request, internal, held, reserved, accepted>>
  BY Zenon DEF HttpInv, TypeOK, LateCommit
<1>2. CASE Commit(late[c])
  <2>1. TypeOK'
    BY <1>1, <1>2, CommitEffects, Zenon DEF TypeOK
  <2>2. (\A a \in accepted : Stands(a))'
    BY <1>1, <1>2, AcceptedStay, Zenon
  <2>3. ASSUME NEW d \in Clients, request[d] # Idle, request[d].op = "submit_profile", request[d].outcome = "Ok"
        PROVE  /\ ProfileAccepted(reservation'[request[d].key])
               /\ reservation'[request[d].key].account_id = request[d].account_id
               /\ reservation'[request[d].key].accepted_profile = request[d].profile
    <3>1. request[d] \in SubmitRequests /\ Stands(request[d])
      BY <1>1, <2>3, Zenon DEF HttpInv, Requests, NewCodeRequests, ConfirmRequests
    <3> QED
      BY <1>1, <1>2, <3>1, StandingStays, Zenon
  <2>4. \A d \in Clients : (request[d] # Idle /\ request[d].op = "submit_profile" /\ request[d].outcome = "Ok"
            => Stands(request[d]))'
    BY <1>1, <2>3, Zenon DEF Stands
  <2> QED
    BY <1>1, <2>1, <2>2, <2>4, Zenon DEF HttpInv
<1>3. CASE late' = [late EXCEPT ![c] = Idle] /\ UNCHANGED reservation
  <2>1. TypeOK'
    BY <1>1, <1>3, Zenon DEF TypeOK
  <2> QED
    BY <1>1, <1>3, <2>1, Zenon DEF HttpInv, Stands
<1> QED
  BY <1>2, <1>3, Zenon DEF LateCommit

(* An answer is sent or lost. *)
LEMMA EndedKeeps ==
    ASSUME HttpInv, NEW c \in Clients, Answer(c) \/ AnswerIsLost(c)
    PROVE  HttpInv'
<1> DEFINE r == request[c]
<1>0. /\ r \in Requests /\ r.op \in Operations /\ r.outcome # None /\ r.key \in Keys
      /\ r.outcome \in {"Ok"} \cup GatewayErrors \cup Rejections(r.op)
      /\ r.op = "submit_profile" /\ r.outcome = "Ok" => Stands(r)
  BY SentIsRequest, RequestFacts, Zenon DEF HttpInv, Answer, AnswerIsLost
<1>1. ~internal'
  <2>1. CASE Answer(c)
    <3>1. internal' = (internal \/ Status(r.op, r.outcome) = 500)
      BY <2>1, Zenon DEF Answer, Respond
    <3>2. PICK op \in Operations : op = r.op
      BY <1>0, Zenon
    <3>3. PICK outcome \in {"Ok"} \cup GatewayErrors \cup Rejections(op) : outcome = r.outcome
      BY <1>0, <3>2, Zenon
    <3>4. Status(op, outcome) # 500
      BY ExpectedStatus
    <3> HIDE DEF r
    <3> QED
      BY <3>1, <3>2, <3>3, <3>4, Zenon DEF HttpInv
  <2>2. CASE AnswerIsLost(c)
    BY <2>2, Zenon DEF AnswerIsLost, HttpInv
  <2> QED
    BY <2>1, <2>2, Zenon
<1>2. /\ request' = [request EXCEPT ![c] = Idle] /\ reservation' = reservation /\ late' = late
      /\ held' = held \/ (r.op = "verify" /\ held' = r.token)
      /\ reserved' = reserved \/ reserved' = reserved \cup {r.key}
      /\ accepted' = accepted
         \/ (r.op = "submit_profile" /\ r.outcome = "Ok" /\ accepted' = accepted \cup {r})
  BY Zenon DEF Answer, AnswerIsLost, Succeeded
<1>3. r.op = "verify" => r.token \in Tokens
  BY <1>0, Zenon DEF Requests, NewCodeRequests, ConfirmRequests, SubmitRequests
<1>4. r.op = "submit_profile" => r \in SubmitRequests
  BY <1>0, OutcomeType, Zenon DEF Requests, NewCodeRequests, ConfirmRequests
<1>5. TypeOK'
  <2>1. reserved' \subseteq Keys
    BY <1>0, <1>2, Zenon DEF HttpInv, TypeOK
  <2>2. accepted' \subseteq SubmitRequests
    BY <1>2, <1>4, Zenon DEF HttpInv, TypeOK
  <2>3. held' \in Tokens \cup {None}
    BY <1>2, <1>3, Zenon DEF HttpInv, TypeOK
  <2> QED
    BY <1>2, <2>1, <2>2, <2>3, Zenon DEF HttpInv, TypeOK
<1>6. \A d \in Clients : request'[d] = Idle \/ request'[d] = request[d]
  BY <1>2 DEF HttpInv, TypeOK
<1>7. \A a \in accepted' : Stands(a)
  BY <1>0, <1>2, Zenon DEF HttpInv
<1>8. (\A a \in accepted : Stands(a))'
  BY <1>2, <1>7, Zenon DEF Stands
<1>9. \A d \in Clients : (request[d] # Idle =>
          /\ request[d].outcome \in {None, "Ok"} \cup GatewayErrors \cup Rejections(request[d].op)
          /\ request[d].op = "submit_profile" /\ request[d].outcome = "Ok" => Stands(request[d]))'
  BY <1>2, <1>6 DEF HttpInv, Stands
<1> QED
  BY <1>1, <1>5, <1>8, <1>9, Zenon DEF HttpInv

(* A request is refused, or sent with no outcome yet. *)
NothingDecided ==
    /\ UNCHANGED <<reservation, reserved, accepted>>
    /\ \A c \in Clients : request'[c] = request[c] \/ request'[c].outcome = None

LEMMA SentKeeps ==
    ASSUME HttpInv, NEW c \in Clients, NEW body, Arrive(c, body),
           Refusal(body) = None => Commands(body) \subseteq Requests /\ \A r \in Commands(body) : r.outcome = None
    PROVE  HttpInv' /\ NothingDecided
<1>1. UNCHANGED <<reservation, late, held, reserved, accepted>>
  BY Zenon DEF Arrive
<1>2. CASE Refusal(body) # None
  <2>1. ~internal' /\ request' = request
    BY <1>2, RefusalStatus, Zenon DEF Arrive, Respond, HttpInv
  <2>2. NothingDecided
    BY <1>1, <2>1, Zenon DEF NothingDecided
  <2>3. HttpInv'
    BY <1>1, <2>1 DEF HttpInv, TypeOK, Stands
  <2> QED
    BY <2>2, <2>3, Zenon
<1>3. CASE Refusal(body) = None
  <2>1. PICK r \in Requests : request' = [request EXCEPT ![c] = r] /\ r.outcome = None
    BY <1>3, Zenon DEF Arrive
  <2>2. internal' = internal
    BY <1>3, Zenon DEF Arrive
  <2>3. /\ request'[c] = r /\ (\A d \in Clients : d # c => request'[d] = request[d])
        /\ request' \in [Clients -> Requests \cup {Idle}]
    BY <2>1 DEF HttpInv, TypeOK
  <2>4. TypeOK'
    BY <1>1, <2>3, Zenon DEF HttpInv, TypeOK
  <2>5. \A d \in Clients : (request[d] # Idle =>
          /\ request[d].outcome \in {None, "Ok"} \cup GatewayErrors \cup Rejections(request[d].op)
          /\ request[d].op = "submit_profile" /\ request[d].outcome = "Ok" => Stands(request[d]))'
    <3>1. TAKE d \in Clients
    <3>2. CASE d = c
      BY <2>1, <2>3, <3>2, Zenon DEF None
    <3>3. CASE d # c
      BY <1>1, <2>3, <3>3 DEF HttpInv, Stands
    <3> QED
      BY <3>2, <3>3, Zenon
  <2>6. (\A a \in accepted : Stands(a))'
    BY <1>1, Zenon DEF HttpInv, Stands
  <2>7. HttpInv'
    BY <2>2, <2>4, <2>5, <2>6 DEF HttpInv
  <2>8. NothingDecided
    BY <1>1, <2>1, <2>3, Zenon DEF NothingDecided
  <2> QED
    BY <2>7, <2>8, Zenon
<1> QED
  BY <1>2, <1>3, Zenon

(* Command sets of well-formed bodies.  A body that is not refused has an  *)
(* address.                                                                *)
LEMMA NotRefusedHasKey ==
    ASSUME NEW body, body.email \in Spellings, Refusal(body) = None
    PROVE  Parse(body.email) \in Keys
<1>1. Parse(body.email) # NoKey
  BY Zenon DEF Refusal, VerificationRefusal, SubmissionRefusal, AddressRefusal, NoAddress, None
<1> QED
  BY <1>1, ParseGivesKeys, Zenon

LEMMA NewCodeCommandsType ==
    ASSUME NEW body, body.op \in {"reserve", "request_code"}, Parse(body.email) \in Keys
    PROVE  Commands(body) \subseteq Requests /\ \A r \in Commands(body) : r.outcome = None
<1>1. Commands(body) = NewCodeCommands(body)
  BY Zenon DEF Commands
<1>2. ASSUME NEW r \in NewCodeCommands(body) PROVE r \in Requests /\ r.outcome = None
  <2>1. PICK id \in AccountIds, code \in Codes :
            r = [op |-> body.op, key |-> Parse(body.email), account_id |-> id, code |-> code, outcome |-> None]
    BY <1>2 DEF NewCodeCommands
  <2>2. None \in Outcomes
    BY Zenon DEF Outcomes
  <2> QED
    BY <2>1, <2>2, Zenon DEF Requests, NewCodeRequests
<1> QED
  BY <1>1, <1>2, Zenon

LEMMA ConfirmCommandsType ==
    ASSUME NEW body, body.op = "verify", Parse(body.email) \in Keys, body.account_id \in AccountIds,
           body.code \in Codes \cup Guesses
    PROVE  Commands(body) \subseteq Requests /\ \A r \in Commands(body) : r.outcome = None
<1>1. Commands(body) = ConfirmCommands(body)
  BY Zenon DEF Commands
<1>2. ASSUME NEW r \in ConfirmCommands(body) PROVE r \in Requests /\ r.outcome = None
  <2>1. PICK token \in Tokens :
            r = [op |-> body.op, key |-> Parse(body.email), account_id |-> body.account_id,
                 code |-> body.code, token |-> token, outcome |-> None]
    BY <1>2, Zenon DEF ConfirmCommands
  <2>2. None \in Outcomes
    BY Zenon DEF Outcomes
  <2> QED
    BY <2>1, <2>2, Zenon DEF Requests, ConfirmRequests
<1> QED
  BY <1>1, <1>2, Zenon

LEMMA SubmitCommandType ==
    ASSUME NEW body, body.op = "submit_profile", Parse(body.email) \in Keys,
           body.account_id \in AccountIds, body.token \in Tokens, body.submission \in Submissions
    PROVE  Commands(body) \subseteq Requests /\ \A r \in Commands(body) : r.outcome = None
<1>1. Commands(body) = {SubmitCommand(body)}
  BY Zenon DEF Commands
<1>2. ProfileOf(body.submission) \in Profiles /\ None \in Outcomes
  BY Zenon DEF Profiles, Outcomes
<1>3. SubmitCommand(body) = [op |-> body.op, key |-> Parse(body.email), account_id |-> body.account_id,
                             token |-> body.token, profile |-> ProfileOf(body.submission), outcome |-> None]
  BY Zenon DEF SubmitCommand, ProfileOf
<1>4. SubmitCommand(body) \in Requests /\ SubmitCommand(body).outcome = None
  BY <1>2, <1>3 DEF Requests, SubmitRequests
<1> QED
  BY <1>1, <1>4, Zenon

LEMMA OtherSendsKeeps == ASSUME HttpInv, OtherSends PROVE HttpInv' /\ NothingDecided
<1>1. PICK body \in Bodies : Arrive("other", body)
  BY Zenon DEF OtherSends
<1>2. body.email \in Spellings
  BY Zenon DEF Bodies
<1>3. Refusal(body) = None => Commands(body) \subseteq Requests /\ \A r \in Commands(body) : r.outcome = None
  <2>1. SUFFICES ASSUME Refusal(body) = None
                 PROVE  Commands(body) \subseteq Requests /\ \A r \in Commands(body) : r.outcome = None
    BY Zenon
  <2>2. Parse(body.email) \in Keys
    BY <1>2, <2>1, NotRefusedHasKey, Zenon
  <2>3. CASE body \in [op : {"reserve", "request_code"}, email : Spellings, readable : BOOLEAN]
    <3>1. body.op \in {"reserve", "request_code"}
      BY <2>3, Zenon
    <3> QED
      BY <2>2, <3>1, NewCodeCommandsType
  <2>4. CASE body \in [op : {"verify"}, email : Spellings, readable : BOOLEAN, uuid : BOOLEAN,
                       account_id : AccountIds, code : Guesses]
    <3>1. body.op = "verify" /\ body.account_id \in AccountIds /\ body.code \in Codes \cup Guesses
      BY <2>4, Zenon
    <3> QED
      BY <2>2, <3>1, ConfirmCommandsType, Zenon
  <2>5. CASE body \in [op : {"submit_profile"}, email : Spellings, readable : BOOLEAN, uuid : BOOLEAN,
                       date : BOOLEAN, account_id : AccountIds, token : Tokens, submission : Submissions]
    <3>1. /\ body.op = "submit_profile" /\ body.account_id \in AccountIds /\ body.token \in Tokens
          /\ body.submission \in Submissions
      BY <2>5, Zenon
    <3> QED
      BY <2>2, <3>1, SubmitCommandType, Zenon
  <2> QED
    BY <2>3, <2>4, <2>5, Zenon DEF Bodies
<1> QED
  BY <1>1, <1>3, SentKeeps, Zenon DEF Clients

LEMMA UserSendsKeeps == ASSUME HttpInv, UserSends PROVE HttpInv' /\ NothingDecided
<1>1. PICK email \in Mine :
          /\ ~ProfileAccepted(reservation[Parse(email)])
          /\ Arrive("user", UserBody(email, reservation[Parse(email)]))
  BY Zenon DEF UserSends
<1>2. Parse(email) \in Keys
  BY MineAreAddresses, Zenon
<1>3. PICK p \in Phases : p = reservation[Parse(email)]
  BY <1>2, Zenon DEF HttpInv, TypeOK
<1>4. PICK body : body = UserBody(email, p)
  BY Zenon
<1>5. Commands(body) \subseteq Requests /\ \A r \in Commands(body) : r.outcome = None
  <2>1. CASE p.phase = "Absent"
    <3>1. body = [op |-> "reserve", email |-> email, readable |-> TRUE]
      BY <1>4, <2>1, Zenon DEF UserBody
    <3>2. body.op = "reserve" /\ body.email = email
      BY <3>1, Zenon
    <3> QED
      BY <1>2, <3>2, NewCodeCommandsType
  <2>2. CASE p.phase = "AwaitingCode"
    <3>1. body = [op |-> "verify", email |-> email, readable |-> TRUE, uuid |-> TRUE,
                      account_id |-> p.account_id, code |-> p.verification_code]
      BY <1>4, <2>2, Zenon DEF UserBody
    <3>2. p.account_id \in AccountIds /\ p.verification_code \in Codes
      BY <2>2 DEF Phases, Absent
    <3>3. /\ body.op = "verify" /\ body.email = email /\ body.account_id = p.account_id
          /\ body.code = p.verification_code
      BY <3>1, Zenon
    <3> QED
      BY <1>2, <3>2, <3>3, ConfirmCommandsType, Zenon
  <2>3. CASE p.phase = "AwaitingProfile" /\ p.token_digest # Digest(held)
    <3>1. body = [op |-> "request_code", email |-> email, readable |-> TRUE]
      BY <1>4, <2>3, Zenon DEF UserBody
    <3>2. body.op = "request_code" /\ body.email = email
      BY <3>1, Zenon
    <3> QED
      BY <1>2, <3>2, NewCodeCommandsType
  <2>4. CASE p.phase = "AwaitingProfile" /\ p.token_digest = Digest(held)
    <3>1. body = [op |-> "submit_profile", email |-> email, readable |-> TRUE, uuid |-> TRUE, date |-> TRUE,
                      account_id |-> p.account_id, token |-> held, submission |-> Profile]
      BY <1>4, <2>4, Zenon DEF UserBody
    <3>2. p.account_id \in AccountIds /\ p.token_digest \in Digests
      BY <2>4 DEF Phases, Absent
    <3>3. PICK token \in Tokens : Digest(held) = Digest(token)
      BY <2>4, <3>2, Zenon DEF Digests
    <3>4. Digest(held).sha256 = held /\ Digest(token).sha256 = token
      BY Zenon DEF Digest
    <3>5. held \in Tokens
      BY <3>3, <3>4, Zenon
    <3>6. /\ body.op = "submit_profile" /\ body.email = email /\ body.account_id = p.account_id
          /\ body.token = held /\ body.submission = Profile
      BY <3>1, Zenon
    <3> QED
      BY <1>2, <3>2, <3>5, <3>6, ProfileIsSubmission, SubmitCommandType, Zenon
  <2> QED
    BY <1>1, <1>3, <2>1, <2>2, <2>3, <2>4, PhaseNames, Zenon
<1> QED
  BY <1>1, <1>3, <1>4, <1>5, SentKeeps, Zenon DEF Clients

LEMMA HttpInit == ASSUME Init PROVE HttpInv
<1>1. Absent \in Phases
  BY Zenon DEF Phases
<1>2. TypeOK
  BY <1>1, Zenon DEF Init, TypeOK
<1> QED
  BY <1>2 DEF Init, HttpInv

LEMMA HttpStep == ASSUME HttpInv, [Next]_vars PROVE HttpInv'
<1>1. CASE RegistrationStatus \/ UNCHANGED vars
  <2>0. PICK status : status = 501 /\ status # 500
    OBVIOUS
  <2>1. Respond(status) \/ internal' = internal
    BY <1>1, <2>0, Zenon DEF RegistrationStatus, vars
  <2>2. ~internal'
    BY <2>0, <2>1, Zenon DEF Respond, HttpInv
  <2>3. UNCHANGED <<reservation, request, late, held, reserved, accepted>>
    BY <1>1, Zenon DEF RegistrationStatus, vars
  <2> QED
    BY <2>2, <2>3 DEF HttpInv, TypeOK, Stands
<1>2. ASSUME NEW c \in Clients, Execute(c) PROVE HttpInv'
  <2>1. request[c] # Idle /\ UNCHANGED <<internal, held, reserved, accepted>>
    BY <1>2, Zenon DEF Execute, Sent
  <2>2. CASE Commit(request[c]) /\ request' = [request EXCEPT ![c].outcome = "Ok"]
    BY <2>1, <2>2, StoredKeeps, Zenon
  <2>3. CASE /\ ~Decision(request[c]).accepted /\ UNCHANGED <<reservation, late>>
             /\ request' = [request EXCEPT ![c].outcome = Decision(request[c]).error]
    <3>1. request[c] \in Requests /\ reservation[request[c].key] \in Phases
      BY <2>1, SentIsRequest, RequestFacts, Zenon DEF HttpInv, TypeOK
    <3>2. Decision(request[c]).error \in Rejections(request[c].op)
      BY <2>3, <3>1, HandleExpected, Zenon DEF Decision, DecisionIsExpected
    <3>3. late' \in [Clients -> Requests \cup {Idle}]
      BY <2>3, Zenon DEF HttpInv, TypeOK
    <3> QED
      BY <2>1, <2>3, <3>2, <3>3, RefusedKeeps, Zenon
  <2> QED
    BY <1>2, <2>2, <2>3, Zenon DEF Execute
<1>3. ASSUME NEW c \in Clients, ExecuteFails(c) PROVE HttpInv'
  <2>1. request[c] # Idle /\ request[c] \in Requests /\ UNCHANGED <<internal, held, reserved, accepted>>
    BY <1>3, SentIsRequest, Zenon DEF ExecuteFails, Sent, HttpInv
  <2>2. ASSUME NEW error \in GatewayErrors, reservation' = reservation,
               late' = late \/ late' = [late EXCEPT ![c] = request[c]],
               request' = [request EXCEPT ![c].outcome = error]
        PROVE  HttpInv'
    <3>1. late' \in [Clients -> Requests \cup {Idle}]
      BY <2>1, <2>2, Zenon DEF HttpInv, TypeOK
    <3> QED
      BY <2>1, <2>2, <3>1, RefusedKeeps, Zenon
  <2>3. CASE Commit(request[c]) /\ request' = [request EXCEPT ![c].outcome = "Unavailable"]
    BY <2>1, <2>3, StoredKeeps, Zenon
  <2> QED
    BY <1>3, <2>2, <2>3, Zenon DEF ExecuteFails, GatewayErrors
<1> QED
  BY <1>1, <1>2, <1>3, LateKeeps, EndedKeeps, OtherSendsKeeps, UserSendsKeeps, Zenon DEF Next

----------------------------------------------------------------------------
(* The inductive invariant: the outcome of a request is one its operation  *)
(* lists, and a submission that succeeded stands.                          *)
THEOREM HttpInvariant == Spec => []HttpInv
<1>1. Init => HttpInv
  BY HttpInit, Zenon
<1>2. HttpInv /\ [Next]_vars => HttpInv'
  BY HttpStep, Zenon
<1> QED
  BY <1>1, <1>2, PTL DEF Spec

(* No request is answered by 500, for any number of addresses, ids, codes, *)
(* tokens and submissions, in any order of the steps of the clients.       *)
THEOREM NoInternalError == Spec => []NeverInternal
<1>1. HttpInv => NeverInternal
  BY Zenon DEF HttpInv, NeverInternal
<1> QED
  BY <1>1, HttpInvariant, PTL

(* Nothing succeeds anew and nothing is undone: at most c is answered. *)
LEMMA NoSecondSuccess ==
    ASSUME HttpInv, OnceInv, NEW op \in Single,
           \A k \in Keys : Done(op, reservation[k]) => Done(op, reservation'[k]),
           NEW c \in Clients,
           \A d \in Clients : Succeeded(op, request'[d]) => request'[d] = request[d],
           \/ Confirmed(op)' = Confirmed(op)
           \/ /\ Succeeded(op, request[c]) /\ ~Succeeded(op, request'[c])
              /\ Confirmed(op)' = Confirmed(op) \cup {request[c].key}
    PROVE  OnceFor(op)'
<1>1. \A d \in Clients : Succeeded(op, request[d]) => request[d].key \in Keys
  BY SucceededIsRequest, RequestFacts, Zenon DEF HttpInv
<1>2. OnceFor(op)
  BY Zenon DEF OnceInv
<1>3. ASSUME NEW k \in Confirmed(op)' PROVE k \in Keys /\ Done(op, reservation'[k])
  BY <1>1, <1>2, <1>3, Zenon DEF OnceFor
<1>4. ASSUME NEW d \in Clients, Succeeded(op, request'[d])
      PROVE  /\ Done(op, reservation'[request'[d].key])
             /\ request'[d].key \notin Confirmed(op)'
             /\ \A e \in Clients \ {d} : Succeeded(op, request'[e]) => request'[e].key # request'[d].key
  <2>1. request'[d] = request[d] /\ Succeeded(op, request[d])
    BY <1>4, Zenon
  <2>2. Done(op, reservation'[request'[d].key])
    BY <1>1, <1>2, <2>1, Zenon DEF OnceFor
  <2>3. request'[d].key \notin Confirmed(op)'
    <3>1. request[d].key \notin Confirmed(op)
      BY <1>2, <2>1, Zenon DEF OnceFor
    <3>2. CASE Confirmed(op)' = Confirmed(op)
      BY <2>1, <3>1, <3>2, Zenon
    <3>3. CASE /\ Succeeded(op, request[c]) /\ ~Succeeded(op, request'[c])
               /\ Confirmed(op)' = Confirmed(op) \cup {request[c].key}
      <4>1. c # d
        BY <1>4, <3>3, Zenon
      <4>2. request[c].key # request[d].key
        BY <1>2, <2>1, <3>3, <4>1, Zenon DEF OnceFor
      <4> QED
        BY <2>1, <3>1, <3>3, <4>2, Zenon
    <3> QED
      BY <3>2, <3>3, Zenon
  <2>4. ASSUME NEW e \in Clients \ {d}, Succeeded(op, request'[e]) PROVE request'[e].key # request'[d].key
    BY <1>2, <2>1, <2>4, Zenon DEF OnceFor
  <2> QED
    BY <2>2, <2>3, <2>4, Zenon
<1> QED
  BY <1>3, <1>4, Zenon DEF OnceFor, Succeeded, Done

(* A command of the operation is stored and its request succeeds: nobody's *)
(* had before.                                                             *)
LEMMA FirstSuccess ==
    ASSUME HttpInv, OnceInv, NEW op \in Single, NEW c \in Clients, request[c] # Idle, Commit(request[c]),
           request[c].op = op, request' = [request EXCEPT ![c].outcome = "Ok"], UNCHANGED <<reserved, accepted>>
    PROVE  OnceFor(op)'
<1>1. PICK r \in Requests : r = request[c]
  BY SentIsRequest, Zenon DEF HttpInv
<1>2. PICK r2 : r2 = [r EXCEPT !.outcome = "Ok"]
  BY Zenon
<1>3. r2.key = r.key /\ r.key \in Keys
  <2>1. "Ok" \in Outcomes
    BY Zenon DEF Outcomes
  <2> QED
    BY <1>2, <2>1, OutcomeType, RequestFacts, Zenon
<1>4. request'[c] = r2 /\ \A d \in Clients : d # c => request'[d] = request[d]
  BY <1>1, <1>2, Zenon DEF HttpInv, TypeOK
<1>5. /\ \A k \in Keys : Done(op, reservation[k]) => Done(op, reservation'[k])
      /\ ~Done(op, reservation[r.key]) /\ Done(op, reservation'[r.key])
  BY <1>1, DoneStays, Zenon DEF HttpInv
<1>6. OnceFor(op) /\ Confirmed(op)' = Confirmed(op)
  BY Zenon DEF OnceInv, Confirmed
<1>7. \A d \in Clients : Succeeded(op, request[d]) => request[d].key \in Keys /\ request[d].key # r.key
  BY <1>5, <1>6, SucceededIsRequest, RequestFacts, Zenon DEF HttpInv, OnceFor
<1>8. ASSUME NEW k \in Confirmed(op)' PROVE k \in Keys /\ Done(op, reservation'[k])
  BY <1>5, <1>6, <1>8, Zenon DEF OnceFor
<1>9. ASSUME NEW d \in Clients, Succeeded(op, request'[d])
      PROVE  /\ Done(op, reservation'[request'[d].key])
             /\ request'[d].key \notin Confirmed(op)'
             /\ \A e \in Clients \ {d} : Succeeded(op, request'[e]) => request'[e].key # request'[d].key
  <2>1. CASE d = c
    <3>1. request'[d].key = r.key
      BY <1>3, <1>4, <2>1, Zenon
    <3>2. r.key \notin Confirmed(op)
      BY <1>5, <1>6, Zenon DEF OnceFor
    <3>3. \A e \in Clients \ {d} : Succeeded(op, request'[e]) => request'[e].key # r.key
      BY <1>4, <1>7, <2>1, Zenon
    <3> QED
      BY <1>5, <1>6, <3>1, <3>2, <3>3, Zenon
  <2>2. CASE d # c
    <3>1. request'[d] = request[d] /\ Succeeded(op, request[d])
      BY <1>4, <1>9, <2>2, Zenon
    <3>2. Done(op, reservation'[request'[d].key]) /\ request'[d].key \notin Confirmed(op)'
      BY <1>5, <1>6, <1>7, <3>1, Zenon DEF OnceFor
    <3>3. ASSUME NEW e \in Clients \ {d}, Succeeded(op, request'[e]) PROVE request'[e].key # request'[d].key
      <4>1. CASE e = c
        BY <1>3, <1>4, <1>7, <3>1, <4>1, Zenon
      <4>2. CASE e # c
        BY <1>4, <1>6, <3>1, <3>3, <4>2, Zenon DEF OnceFor
      <4> QED
        BY <4>1, <4>2, Zenon
    <3> QED
      BY <3>2, <3>3, Zenon
  <2> QED
    BY <2>1, <2>2, Zenon
<1> QED
  BY <1>8, <1>9, Zenon DEF OnceFor, Succeeded, Done

(* A request of another operation, or with another outcome than Ok. *)
LEMMA NotSucceeded ==
    ASSUME HttpInv, NEW c \in Clients, request[c] # Idle, NEW o \in Outcomes, NEW op \in Single,
           o # "Ok" \/ request[c].op # op, request' = [request EXCEPT ![c].outcome = o]
    PROVE  \A d \in Clients : Succeeded(op, request'[d]) => request'[d] = request[d]
<1>1. PICK r \in Requests : r = request[c]
  BY SentIsRequest, Zenon DEF HttpInv
<1>2. PICK r2 : r2 = [r EXCEPT !.outcome = o]
  BY Zenon
<1>3. r2.outcome = o /\ r2.op = r.op
  BY <1>2, OutcomeType, Zenon
<1>4. request'[c] = r2 /\ \A d \in Clients : d # c => request'[d] = request[d]
  BY <1>1, <1>2, Zenon DEF HttpInv, TypeOK
<1> QED
  BY <1>1, <1>3, <1>4, Zenon DEF Succeeded

LEMMA OnceExecuted ==
    ASSUME HttpInv, OnceInv, NEW c \in Clients, Execute(c) \/ ExecuteFails(c), NEW op \in Single
    PROVE  OnceFor(op)'
<1>1. /\ request[c] # Idle /\ request[c] \in Requests /\ request[c].op \in Operations /\ TypeOK
      /\ reservation[request[c].key] \in Phases /\ UNCHANGED <<reserved, accepted>>
  BY SentIsRequest, RequestFacts, Zenon DEF Execute, ExecuteFails, Sent, HttpInv, TypeOK
<1>2. Confirmed(op)' = Confirmed(op)
  BY <1>1, Zenon DEF Confirmed
<1>3. PICK o \in Outcomes :
          /\ request' = [request EXCEPT ![c].outcome = o]
          /\ (Commit(request[c]) \/ (reservation' = reservation /\ o # "Ok"))
  <2>1. Execute(c) /\ ~Decision(request[c]).accepted =>
            Decision(request[c]).error \in Rejections(request[c].op)
    BY <1>1, HandleExpected, Zenon DEF Decision, DecisionIsExpected
  <2>2. GatewayErrors \cup Rejections(request[c].op) \cup {"Ok", "Unavailable"} \subseteq Outcomes \ {None}
    BY <1>1, Zenon DEF Outcomes, GatewayErrors, Rejections, Operations, None
  <2>3. "Ok" \notin GatewayErrors \cup Rejections(request[c].op)
    BY <1>1, Zenon DEF GatewayErrors, Rejections, Operations
  <2>4. CASE Execute(c)
    BY <2>1, <2>2, <2>3, <2>4, Zenon DEF Execute
  <2>5. CASE ExecuteFails(c)
    BY <2>2, <2>3, <2>5, Zenon DEF ExecuteFails
  <2> QED
    BY <2>4, <2>5, Zenon
<1>4. \A k \in Keys : Done(op, reservation[k]) => Done(op, reservation'[k])
  BY <1>1, <1>3, DoneStays, Zenon
<1>5. CASE o # "Ok" \/ request[c].op # op
  <2>1. \A d \in Clients : Succeeded(op, request'[d]) => request'[d] = request[d]
    BY <1>1, <1>3, <1>5, NotSucceeded, Zenon
  <2> QED
    BY <1>2, <1>4, <2>1, NoSecondSuccess, Zenon
<1>6. CASE o = "Ok" /\ request[c].op = op
  BY <1>1, <1>3, <1>6, FirstSuccess, Zenon
<1> QED
  BY <1>5, <1>6, Zenon

LEMMA OnceAnswered ==
    ASSUME HttpInv, OnceInv, NEW c \in Clients, Answer(c) \/ AnswerIsLost(c), NEW op \in Single
    PROVE  OnceFor(op)'
<1>1. /\ request' = [request EXCEPT ![c] = Idle] /\ reservation' = reservation
      /\ reserved' = reserved \/ (Succeeded("reserve", request[c]) /\ reserved' = reserved \cup {request[c].key})
      /\ accepted' = accepted
         \/ (Succeeded("submit_profile", request[c]) /\ accepted' = accepted \cup {request[c]})
  BY Zenon DEF Answer, AnswerIsLost
<1>2. /\ request'[c] = Idle /\ \A d \in Clients : d # c => request'[d] = request[d]
  BY <1>1, Zenon DEF HttpInv, TypeOK
<1>3. ~Succeeded(op, Idle)
  BY DEF Succeeded, Single, Idle, None
<1>4. \A d \in Clients : Succeeded(op, request'[d]) => request'[d] = request[d]
  BY <1>2, <1>3, Zenon
<1>5. \/ Confirmed(op)' = Confirmed(op)
      \/ /\ Succeeded(op, request[c]) /\ ~Succeeded(op, request'[c])
         /\ Confirmed(op)' = Confirmed(op) \cup {request[c].key}
  <2>1. CASE op = "reserve"
    BY <1>1, <1>2, <1>3, <2>1, Zenon DEF Confirmed
  <2>2. CASE op = "submit_profile"
    <3>1. CASE accepted' = accepted
      BY <2>2, <3>1, Zenon DEF Confirmed
    <3>2. CASE Succeeded("submit_profile", request[c]) /\ accepted' = accepted \cup {request[c]}
      <4>1. {r.key : r \in accepted'} = {r.key : r \in accepted} \cup {request[c].key}
        BY <3>2, Zenon
      <4> QED
        BY <1>2, <1>3, <2>2, <3>2, <4>1, Zenon DEF Confirmed
    <3> QED
      BY <1>1, <3>1, <3>2, Zenon
  <2> QED
    BY <2>1, <2>2, Zenon DEF Single
<1> QED
  BY <1>1, <1>4, <1>5, NoSecondSuccess, Zenon

LEMMA OnceStep == ASSUME HttpInv, OnceInv, [Next]_vars PROVE OnceInv'
<1>1. SUFFICES ASSUME NEW op \in Single PROVE OnceFor(op)'
  BY Zenon DEF OnceInv
<1>2. CASE \E c \in Clients : LateCommit(c)
  <2>1. PICK c \in Clients : LateCommit(c)
    BY <1>2, Zenon
  <2>2. late[c] \in Requests /\ TypeOK /\ UNCHANGED <<request, reserved, accepted>>
    BY <2>1, Zenon DEF LateCommit, HttpInv, TypeOK
  <2>3. \A k \in Keys : Done(op, reservation[k]) => Done(op, reservation'[k])
    BY <2>1, <2>2, DoneStays, Zenon DEF LateCommit
  <2>4. Confirmed(op)' = Confirmed(op)
    BY <2>2, Zenon DEF Confirmed
  <2> QED
    BY <2>2, <2>3, <2>4, NoSecondSuccess, Zenon
<1>3. ASSUME NEW c \in Clients,
             reservation' = reservation, reserved' = reserved, accepted' = accepted,
             \A d \in Clients : request'[d] = request[d] \/ request'[d].outcome = None
      PROVE  OnceFor(op)'
  <2>1. \A d \in Clients : Succeeded(op, request'[d]) => request'[d] = request[d]
    BY <1>3, Zenon DEF Succeeded, None
  <2>2. Confirmed(op)' = Confirmed(op)
    BY <1>3, Zenon DEF Confirmed
  <2> QED
    BY <1>3, <2>1, <2>2, NoSecondSuccess, Zenon
<1>4. CASE RegistrationStatus \/ UNCHANGED vars
  BY <1>3, <1>4, Zenon DEF RegistrationStatus, vars, Clients
<1>5. CASE UserSends \/ OtherSends
  BY <1>3, <1>5, OtherSendsKeeps, UserSendsKeeps, Zenon DEF NothingDecided, Clients
<1> QED
  BY <1>2, <1>4, <1>5, OnceExecuted, OnceAnswered, Zenon DEF Next

(* At most one reservation of a mailbox and one submission for it are ever *)
(* confirmed, however it is spelled and whichever answers are lost.        *)
THEOREM OnlyOneConfirmed == Spec => []ConfirmedOnce
<1>1. Init => OnceInv
  BY DEF Init, OnceInv, OnceFor, Single, Confirmed, Succeeded, Idle, None
<1>2. HttpInv /\ OnceInv /\ [Next]_vars => OnceInv'
  BY OnceStep, Zenon
<1>3. HttpInv /\ OnceInv => ConfirmedOnce
  <2>1. SUFFICES ASSUME HttpInv, OnceInv, NEW c \in Clients, NEW op \in Single, Succeeded(op, request[c])
                 PROVE  /\ \A key \in Confirmed(op) : key[1] # request[c].key[1]
                        /\ \A d \in Clients \ {c} : Succeeded(op, request[d]) => request[d].key[1] # request[c].key[1]
    BY Zenon DEF ConfirmedOnce, Single, Confirmed
  <2>2. OnceFor(op) /\ request[c].key \in Keys
    BY <2>1, SucceededIsRequest, RequestFacts, Zenon DEF OnceInv, HttpInv
  <2>3. ASSUME NEW k \in Keys, k[1] = request[c].key[1] PROVE k = request[c].key
    BY <2>2, <2>3, KeysAreMailboxes, Zenon
  <2>4. \A key \in Confirmed(op) : key \in Keys /\ key # request[c].key
    BY <2>1, <2>2, Zenon DEF OnceFor
  <2>5. ASSUME NEW d \in Clients \ {c}, Succeeded(op, request[d])
        PROVE  request[d].key \in Keys /\ request[d].key # request[c].key
    BY <2>1, <2>2, <2>5, SucceededIsRequest, RequestFacts, Zenon DEF OnceFor, HttpInv
  <2> QED
    BY <2>3, <2>4, <2>5, Zenon
<1> QED
  BY <1>1, <1>2, <1>3, HttpInvariant, PTL DEF Spec

(* A submission that was answered by 202 stands, whatever other requests   *)
(* for the address were under way.                                         *)
THEOREM SubmissionStands == Spec => []AcceptedSubmissionStands
<1>1. HttpInv => AcceptedSubmissionStands
  BY Zenon DEF HttpInv, AcceptedSubmissionStands, Stands
<1> QED
  BY <1>1, HttpInvariant, PTL
====
