---- MODULE MCRegistration ----
(* Small instances of Registration for TLC. *)
EXTENDS Registration

(* One well-formed submission with a padded name, and one born tomorrow    *)
(* that only the second day's clock accepts.                               *)
MCSubmissions ==
    {[first_name |-> [text |-> "Ann", padded |-> TRUE],
      last_name |-> [text |-> "Lee", padded |-> FALSE], date_of_birth |-> 0],
     [first_name |-> [text |-> "Bob", padded |-> FALSE],
      last_name |-> [text |-> "Lee", padded |-> TRUE], date_of_birth |-> 1]}

MCOneSubmission ==
    {[first_name |-> [text |-> "Ann", padded |-> TRUE],
      last_name |-> [text |-> "Lee", padded |-> FALSE], date_of_birth |-> 0]}
====
