---- MODULE MCEventStore ----
EXTENDS EventStore

(* A command of every rule; one with 5957 tasks fits a statement just when *)
(* it writes no snapshot, and one has tasks that a repeat leaves without   *)
(* an event.                                                               *)
MCCommands ==
    {[rule |-> "append", tasks |-> 0], [rule |-> "first", tasks |-> 5957],
     [rule |-> "repeat", tasks |-> 1], [rule |-> "repeat", tasks |-> 0], [rule |-> "pair", tasks |-> 0]}

(* The second pause is capped by max_backoff. *)
MCPolicy == [max_attempts |-> 3, initial_backoff |-> 5, max_backoff |-> 9, jitter |-> 20]

MCAppends == {[rule |-> "append", tasks |-> 0]}
====
