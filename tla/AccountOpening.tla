---- MODULE AccountOpening ----
(***************************************************************************)
(* What the service promises the owner of an address, whatever commands,   *)
(* deliveries, retries and lost replies it is made of.  An address is      *)
(* claimed under an id, each new claim under another one; it is verified;  *)
(* a valid profile is accepted for the id that was verified; one account   *)
(* is opened for that id, address and profile; the opening is recorded as  *)
(* it was.  From acceptance on nothing is taken back.                      *)
(***************************************************************************)

CONSTANTS
    Emails,
    AccountIds,
    Profiles,    \* profiles that pass validation
    Instants

VARIABLES
    registration,  \* what is recorded of each address
    accounts       \* the accounts there are

vars == <<registration, accounts>>

None == [stage |-> "none"]

(* The registration of e, and no other, becomes a member of S. *)
Becomes(e, S) ==
    /\ registration' = [registration EXCEPT ![e] = registration'[e]]
    /\ registration'[e] \in S
    /\ UNCHANGED accounts

Claim(e) ==
    /\ registration[e].stage \in {"none", "claimed", "verified"}
    /\ LET superseded == IF registration[e] = None THEN {} ELSE {registration[e].account_id}
       IN  Becomes(e, [stage : {"claimed"}, account_id : AccountIds \ superseded])

Verify(e) ==
    /\ registration[e].stage = "claimed"
    /\ Becomes(e, [stage : {"verified"}, account_id : {registration[e].account_id}])

Accept(e) ==
    /\ registration[e].stage = "verified"
    /\ Becomes(e, [stage : {"accepted"}, account_id : {registration[e].account_id}, profile : Profiles])

Open(e) ==
    /\ registration[e].stage = "accepted"
    /\ \A a \in accounts : a.account_id # registration[e].account_id
    /\ \E at \in Instants :
          accounts' = accounts \cup {[account_id |-> registration[e].account_id, email |-> e,
                                      profile |-> registration[e].profile, created_at |-> at]}
    /\ UNCHANGED registration

Record(e) ==
    /\ registration[e].stage = "accepted"
    /\ \E a \in accounts :
          /\ a.account_id = registration[e].account_id /\ a.email = e /\ a.profile = registration[e].profile
          /\ Becomes(e, [stage : {"recorded"}, account_id : {a.account_id}, profile : {a.profile},
                         created_at : {a.created_at}])

Init == registration = [e \in Emails |-> None] /\ accounts = {}

Next == \E e \in Emails : Claim(e) \/ Verify(e) \/ Accept(e) \/ Open(e) \/ Record(e)

Spec == Init /\ [][Next]_vars
====
