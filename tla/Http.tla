---- MODULE Http ----
(***************************************************************************)
(* The HTTP operations as clients see them: what a handler refuses before  *)
(* it calls the service, what the service makes of the outcome of its      *)
(* command, and the status of the answer.                                  *)
(*                                                                         *)
(* A command is atomic here, or ends in Conflict or Unavailable, the       *)
(* latter although it was stored, or will be later: what AtomicCommands    *)
(* promises and EventStore implements.  One client, the user, owns the     *)
(* mailbox, can read the current code there, and spells the address now    *)
(* one way, now another.  Other clients know the address by its spellings  *)
(* and send anything, a bounded number of times.                           *)
(***************************************************************************)
EXTENDS EmailReservation, FiniteSets

CONSTANTS
    Spellings,    \* of addresses: [mailbox, upper, padded, quoted, valid]
    AccountIds,
    Codes,        \* codes that are generated
    Guesses,      \* codes a client may send
    Tokens,
    Submissions,  \* [first_name, last_name, date_of_birth]
    Today,        \* the service clock's date
    MaxOthers     \* bound: requests of other clients

VARIABLES
    reservation,  \* phase of each aggregate
    request,      \* the request each client has in flight
    late,         \* a command of each client that PostgreSQL may still commit
    internal,     \* a request was answered by 500
    held,         \* the account creation token the user got last
    others,       \* requests other clients have sent
    reserved,     \* the addresses whose reservation was answered by 202
    accepted      \* the submissions answered by 202

vars == <<reservation, request, late, internal, held, others, reserved, accepted>>

ASSUME HttpAssumption ==
    /\ (\A code \in Codes : CodeFormatOk(code)) /\ Cardinality(AccountIds) > 1 /\ Cardinality(Tokens) > 2
    /\ MaxOthers \in Nat

Clients == {"user", "other"}

None == "none"

NoKey == <<>>

----------------------------------------------------------------------------
(* Addresses.  The key of an aggregate is the address as it was parsed.    *)

(* Wrong variant: the address keeps its case.                              *)
ParseKeepingCase(spelling) ==
    IF spelling.quoted \/ ~spelling.valid THEN NoKey
    ELSE <<spelling.mailbox, spelling.upper, FALSE>>

(* Quotes are refused; blanks around it and upper case are dropped. *)
Parse(spelling) ==
    IF spelling.quoted \/ ~spelling.valid THEN NoKey ELSE <<spelling.mailbox, FALSE, FALSE>>

Keys == {Parse(spelling) : spelling \in Spellings} \ {NoKey}

----------------------------------------------------------------------------
(* Requests and their commands. *)

Idle == [op |-> None]

(* Path and JSON can be read or not, and so can the id and the date.       *)
Bodies ==
    [op : {"reserve", "request_code"}, email : Spellings, readable : BOOLEAN]
    \cup [op : {"verify"}, email : Spellings, readable : BOOLEAN, uuid : BOOLEAN,
          account_id : AccountIds, code : Guesses]
    \cup [op : {"submit_profile"}, email : Spellings, readable : BOOLEAN, uuid : BOOLEAN, date : BOOLEAN,
          account_id : AccountIds, token : Tokens, submission : Submissions]

NoAddress(body) == Parse(body.email) = NoKey

(* What each handler refuses by itself, in its order: verify parses the id *)
(* before the address, submit_profile the address before the id.           *)
AddressRefusal(body) ==
    IF ~body.readable THEN "InvalidRequest" ELSE IF NoAddress(body) THEN "InvalidEmail" ELSE None

VerificationRefusal(body) ==
    IF ~body.readable \/ ~body.uuid THEN "InvalidRequest"
    ELSE IF NoAddress(body) THEN "InvalidEmail"
    ELSE IF ~CodeFormatOk(body.code) THEN "InvalidCode" ELSE None

SubmissionRefusal(body) ==
    IF ~body.readable THEN "InvalidRequest"
    ELSE IF NoAddress(body) THEN "InvalidEmail"
    ELSE IF ~body.uuid THEN "InvalidRequest"
    ELSE IF ~body.date THEN "InvalidProfile" ELSE None

Refusal(body) ==
    CASE body.op = "verify" -> VerificationRefusal(body)
      [] body.op = "submit_profile" -> SubmissionRefusal(body)
      [] OTHER -> AddressRefusal(body)

(* The commands of the use cases.  An id or token that was just generated  *)
(* is none of those in use; it may be that of a late command, as only one  *)
(* of the two can be stored.                                               *)
NewCodeCommands(body) ==
    {[op |-> body.op, key |-> Parse(body.email), account_id |-> id, code |-> code, outcome |-> None] :
         id \in {id \in AccountIds : reservation[Parse(body.email)].phase # "Absent"
                     => id # reservation[Parse(body.email)].account_id},
         code \in Codes}

ConfirmCommands(body) ==
    {[op |-> body.op, key |-> Parse(body.email), account_id |-> body.account_id,
      code |-> body.code, token |-> token, outcome |-> None] :
         token \in {token \in Tokens : token # held /\ \A c \in Clients :
                        request[c].op = "verify" => request[c].token # token}}

SubmitCommand(body) ==
    [op |-> body.op, key |-> Parse(body.email), account_id |-> body.account_id, token |-> body.token,
     profile |-> RegistrationProfile(body.submission.first_name, body.submission.last_name,
                                     body.submission.date_of_birth, Today),
     outcome |-> None]

Commands(body) ==
    CASE body.op \in {"reserve", "request_code"} -> NewCodeCommands(body)
      [] body.op = "verify" -> ConfirmCommands(body)
      [] body.op = "submit_profile" -> {SubmitCommand(body)}

Digest(token) == [sha256 |-> token]

Handle(p, command) ==
    CASE command.op = "reserve" -> HandleReserve(p, command.account_id, command.code)
      [] command.op = "request_code" -> HandleRequestVerificationCode(p, command.account_id, command.code)
      [] command.op = "verify" -> HandleVerify(p, command.account_id, command.code, Digest(command.token))
      [] command.op = "submit_profile" ->
            HandleSubmitProfile(p, command.account_id, Digest(command.token), command.profile)

----------------------------------------------------------------------------
(* Answers. *)

GatewayErrors == {"Conflict", "Unavailable"}

(* The use cases: which rejections they expect, and as what. *)
ReserveError(error) ==
    IF error \in GatewayErrors \cup {"AlreadyReserved"} THEN error ELSE "UnexpectedDomainRejection"

RequestCodeError(error) ==
    CASE error = "AccountIdUnchanged" -> "Conflict"
      [] error \in GatewayErrors \cup {"NotReserved", "AccountCreationStarted"} -> error
      [] OTHER -> "UnexpectedDomainRejection"

ConfirmError(error) ==
    IF error \in GatewayErrors \cup {"NotReserved", "NotCurrentAccountId", "AlreadyVerified",
                                     "AccountCreationStarted", "InvalidVerificationCode"}
    THEN error ELSE "UnexpectedDomainRejection"

ServiceError(op, error) ==
    CASE op = "reserve" -> ReserveError(error)
      [] op = "request_code" -> RequestCodeError(error)
      [] op = "verify" -> ConfirmError(error)

(* The errors of the two HTTP modules. *)
EmailReservationsError(error) ==
    CASE error = "InvalidVerificationCode" -> "InvalidCode"
      [] error = "UnexpectedDomainRejection" -> "Internal"
      [] OTHER -> error

(* Wrong variant: a profile before verification is not expected.           *)
UserAccountsErrorWithoutVerification(error) ==
    CASE error = "NotReserved" -> "RegistrationNotFound"
      [] error = "NotCurrentAccountId" -> "RegistrationNotCurrent"
      [] error \in {"EmptyFirstName", "EmptyLastName", "FutureDateOfBirth"} -> "InvalidProfile"
      [] error \in GatewayErrors \cup {"InvalidAccountCreationToken", "ProfileAlreadySubmitted"} -> error
      [] OTHER -> "Internal"

UserAccountsError(error) ==
    CASE error = "NotReserved" -> "RegistrationNotFound"
      [] error = "NotCurrentAccountId" -> "RegistrationNotCurrent"
      [] error = "NotAwaitingProfile" -> "EmailNotVerified"
      [] error \in {"EmptyFirstName", "EmptyLastName", "FutureDateOfBirth"} -> "InvalidProfile"
      [] error \in GatewayErrors \cup {"InvalidAccountCreationToken", "ProfileAlreadySubmitted"} -> error
      [] OTHER -> "Internal"

EmailReservationsStatus(kind) ==
    CASE kind = "InvalidRequest" -> 400
      [] kind \in {"NotReserved", "NotCurrentAccountId"} -> 404
      [] kind \in {"AlreadyReserved", "AlreadyVerified", "AccountCreationStarted"} -> 409
      [] kind \in {"InvalidEmail", "InvalidCode"} -> 422
      [] kind = "Conflict" -> 429
      [] kind = "Internal" -> 500
      [] kind = "Unavailable" -> 503

UserAccountsStatus(kind) ==
    CASE kind = "InvalidRequest" -> 400
      [] kind = "InvalidAccountCreationToken" -> 403
      [] kind \in {"RegistrationNotFound", "RegistrationNotCurrent"} -> 404
      [] kind \in {"EmailNotVerified", "ProfileAlreadySubmitted"} -> 409
      [] kind \in {"InvalidEmail", "InvalidProfile"} -> 422
      [] kind = "Conflict" -> 429
      [] kind = "Internal" -> 500
      [] kind = "Unavailable" -> 503

ErrorStatus(op, kind) ==
    IF op = "submit_profile" THEN UserAccountsStatus(kind) ELSE EmailReservationsStatus(kind)

Status(op, outcome) ==
    CASE outcome = "Ok" -> IF op = "verify" THEN 200 ELSE 202
      [] outcome # "Ok" /\ op = "submit_profile" -> ErrorStatus(op, UserAccountsError(outcome))
      [] outcome # "Ok" /\ op # "submit_profile" -> ErrorStatus(op, EmailReservationsError(ServiceError(op, outcome)))

Respond(status) == internal' = (internal \/ status = 500)

----------------------------------------------------------------------------
(* Steps. *)

(* A request arrives and is refused, or its command is sent. *)
Arrive(client, body) ==
    /\ request[client] = Idle
    /\ \/ /\ Refusal(body) # None /\ Respond(ErrorStatus(body.op, Refusal(body))) /\ UNCHANGED request
       \/ /\ Refusal(body) = None /\ UNCHANGED internal
          /\ \E command \in Commands(body) : request' = [request EXCEPT ![client] = command]
    /\ UNCHANGED <<reservation, late, held, reserved, accepted>>

(* GET of a registration's status. *)
RegistrationStatus ==
    /\ others < MaxOthers /\ others' = others + 1
    /\ Respond(501)
    /\ UNCHANGED <<reservation, request, late, held, reserved, accepted>>

Sent(client) == request[client] # Idle /\ request[client].outcome = None

Decision(command) == Handle(reservation[command.key], command)

(* The event of the command is stored.  It takes the next sequence of the  *)
(* stream, so no statement that was decided before can be stored after it. *)
Commit(command) ==
    /\ Decision(command).accepted
    /\ reservation' = [reservation EXCEPT ![command.key] = Apply(@, Decision(command).event)]
    /\ late' = [c \in Clients |-> IF late[c] # Idle /\ late[c].key = command.key THEN Idle ELSE late[c]]

(* The command is decided and its event stored; the executor learns of it. *)
Execute(client) ==
    /\ Sent(client)
    /\ \/ /\ Commit(request[client])
          /\ request' = [request EXCEPT ![client].outcome = "Ok"]
       \/ /\ ~Decision(request[client]).accepted
          /\ request' = [request EXCEPT ![client].outcome = Decision(request[client]).error]
          /\ UNCHANGED <<reservation, late>>
    /\ UNCHANGED <<internal, held, others, reserved, accepted>>

(* The attempts are used up, or the database fails: before the event is    *)
(* stored, after it, or while PostgreSQL still works on the statement.     *)
ExecuteFails(client) ==
    /\ Sent(client)
    /\ \/ /\ \E error \in GatewayErrors : request' = [request EXCEPT ![client].outcome = error]
          /\ UNCHANGED <<reservation, late>>
       \/ /\ Commit(request[client])
          /\ request' = [request EXCEPT ![client].outcome = "Unavailable"]
       \/ /\ Decision(request[client]).accepted /\ late[client] = Idle
          /\ late' = [late EXCEPT ![client] = request[client]]
          /\ request' = [request EXCEPT ![client].outcome = "Unavailable"]
          /\ UNCHANGED reservation
    /\ UNCHANGED <<internal, held, others, reserved, accepted>>

(* A statement nobody waits for any more is committed, or rolled back. *)
LateCommit(client) ==
    /\ late[client] # Idle
    /\ \/ Commit(late[client])
       \/ late' = [late EXCEPT ![client] = Idle] /\ UNCHANGED reservation
    /\ UNCHANGED <<request, internal, held, others, reserved, accepted>>

Succeeded(op, r) == r.op = op /\ r.outcome = "Ok"

(* The answer is sent and arrives. *)
Answer(client) ==
    /\ request[client] # Idle /\ request[client].outcome # None
    /\ LET r == request[client]
       IN  /\ Respond(Status(r.op, r.outcome))
           /\ held' = IF client = "user" /\ Succeeded("verify", r) THEN r.token ELSE held
           /\ reserved' = IF Succeeded("reserve", r) THEN reserved \cup {r.key} ELSE reserved
           /\ accepted' = IF Succeeded("submit_profile", r) THEN accepted \cup {r} ELSE accepted
    /\ request' = [request EXCEPT ![client] = Idle]
    /\ UNCHANGED <<reservation, late, others>>

(* The connection is gone: the command may have been stored. *)
AnswerIsLost(client) ==
    /\ request[client] # Idle /\ request[client].outcome # None
    /\ request' = [request EXCEPT ![client] = Idle]
    /\ UNCHANGED <<reservation, late, internal, held, others, reserved, accepted>>

----------------------------------------------------------------------------
(* The user follows the answers: reserves, types the code, asks for a new  *)
(* one when the address is verified but the token never came, submits.     *)

(* The user has an address and a valid profile. *)
ASSUME UserAssumption ==
    /\ \E spelling \in Spellings : Parse(spelling) # NoKey
    /\ \E s \in Submissions :
          ProfileError(RegistrationProfile(s.first_name, s.last_name, s.date_of_birth, Today)) = None

Profile ==
    CHOOSE s \in Submissions :
        ProfileError(RegistrationProfile(s.first_name, s.last_name, s.date_of_birth, Today)) = None

Mailbox == (CHOOSE spelling \in Spellings : Parse(spelling) # NoKey).mailbox

Mine == {spelling \in Spellings : spelling.mailbox = Mailbox /\ Parse(spelling) # NoKey}

UserBody(email, p) ==
    CASE p.phase = "Absent" -> [op |-> "reserve", email |-> email, readable |-> TRUE]
      [] p.phase = "AwaitingCode" ->
            [op |-> "verify", email |-> email, readable |-> TRUE, uuid |-> TRUE,
             account_id |-> p.account_id, code |-> p.verification_code]
      [] p.phase = "AwaitingProfile" /\ p.token_digest # Digest(held) ->
            [op |-> "request_code", email |-> email, readable |-> TRUE]
      [] p.phase = "AwaitingProfile" /\ p.token_digest = Digest(held) ->
            [op |-> "submit_profile", email |-> email, readable |-> TRUE, uuid |-> TRUE, date |-> TRUE,
             account_id |-> p.account_id, token |-> held, submission |-> Profile]

UserSends ==
    /\ \E email \in Mine :
          /\ ~ProfileAccepted(reservation[Parse(email)])
          /\ Arrive("user", UserBody(email, reservation[Parse(email)]))
    /\ UNCHANGED others

OtherSends ==
    /\ others < MaxOthers /\ others' = others + 1
    /\ \E body \in Bodies : Arrive("other", body)

Init ==
    /\ reservation = [key \in Keys |-> Absent] /\ request = [c \in Clients |-> Idle]
    /\ late = [c \in Clients |-> Idle]
    /\ internal = FALSE /\ held = None /\ others = 0 /\ reserved = {} /\ accepted = {}

Next ==
    \/ UserSends \/ OtherSends \/ RegistrationStatus
    \/ \E c \in Clients : Execute(c) \/ ExecuteFails(c) \/ LateCommit(c) \/ Answer(c) \/ AnswerIsLost(c)

Spec == Init /\ [][Next]_vars

(* Requests are answered or lost and the user goes on; the database and    *)
(* the network fail, but not every time an operation is tried that the     *)
(* registration would accept.                                              *)
FairSpec ==
    /\ Spec
    /\ WF_vars(\E c \in Clients : Execute(c) \/ Answer(c))
    /\ \A op \in {"reserve", "request_code", "verify", "submit_profile"} :
          SF_vars(request["user"].op = op /\ Decision(request["user"]).accepted /\ Execute("user"))
    /\ SF_vars(Succeeded("verify", request["user"]) /\ Answer("user"))
    /\ WF_vars(UserSends)

----------------------------------------------------------------------------
(* No request is answered by 500: the domain rejections that the services  *)
(* and the HTTP modules do not list cannot occur there, whatever phase the *)
(* registration was moved to while the request ran.                        *)
NeverInternal == ~internal

(* At most one reservation of a mailbox and at most one submission for it  *)
(* are ever confirmed by 202: not two of clients that race, not a retry    *)
(* after a lost answer or a late commit, and not one for each spelling of  *)
(* the address.                                                            *)
ConfirmedOnce ==
    \A c \in Clients, op \in {"reserve", "submit_profile"} : Succeeded(op, request[c]) =>
        /\ \A key \in IF op = "reserve" THEN reserved ELSE {r.key : r \in accepted} :
              key[1] # request[c].key[1]
        /\ \A d \in Clients \ {c} : Succeeded(op, request[d]) => request[d].key[1] # request[c].key[1]

(* A submission that was answered by 202 stands: the registration keeps    *)
(* that id and that profile whatever codes, confirmations and submissions  *)
(* of other clients were under way, or are committed late.                 *)
AcceptedSubmissionStands ==
    \A r \in accepted :
        /\ ProfileAccepted(reservation[r.key])
        /\ reservation[r.key].account_id = r.account_id
        /\ reservation[r.key].accepted_profile = r.profile

(* No registration gets stuck: a user who goes on gets a profile accepted, *)
(* although any answer may be lost, the one with the only copy of the      *)
(* token among them, and a command that seemed to fail may come late.      *)
UserGetsThrough == <>(\E email \in Mine : ProfileAccepted(reservation[Parse(email)]))
====
