---- MODULE MCHttp ----
EXTENDS Http

(* One mailbox, in a plain, an upper-case, a quoted and a broken spelling. *)
Plain == [mailbox |-> "m", upper |-> FALSE, padded |-> FALSE, quoted |-> FALSE, valid |-> TRUE]

MCSpellings ==
    {Plain, [Plain EXCEPT !.upper = TRUE, !.padded = TRUE], [Plain EXCEPT !.quoted = TRUE],
     [Plain EXCEPT !.valid = FALSE]}

Name(text, padded) == [text |-> text, padded |-> padded]

(* A valid profile, and one with an empty name of somebody not yet born.   *)
MCSubmissions ==
    {[first_name |-> Name("a", TRUE), last_name |-> Name("b", FALSE), date_of_birth |-> 1],
     [first_name |-> Name(NoText, TRUE), last_name |-> Name("b", FALSE), date_of_birth |-> 2]}
====
