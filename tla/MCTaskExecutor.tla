---- MODULE MCTaskExecutor ----
EXTENDS TaskExecutor

(* Two workers and a channel of three, so that the last wave is not full.  *)
Setting(handler, lease) ==
    [concurrency |-> 2, queue_capacity |-> 3, poll_interval |-> 1, handler_timeout |-> handler,
     storage_timeout |-> 1, lease_duration |-> lease]

(* 9 is the least lease that is accepted for a handler with one unit, 12   *)
(* for a handler with two; 7 and 11 are refused.                           *)
MCCases ==
    ({Setting(1, 7), Setting(1, 9)} \X {"healthy", "slow", "stalled"})
        \cup ({Setting(2, 11), Setting(2, 12)} \X {"healthy"})
====
