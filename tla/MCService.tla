---- MODULE MCService ----
EXTENDS Service

(* Durations in milliseconds.  The lease inequality is                     *)
(* lease > 2 * 6000 + 15000 + 5000 + 21000: 54 seconds are enough, 53 not. *)
Sound ==
    [DATABASE_URL |-> Other("valid"), BIND_ADDRESS |-> Other("valid"), RUST_LOG |-> Absent,
     OUTBOX_WORKER_CONCURRENCY |-> Number(2), OUTBOX_QUEUE_CAPACITY |-> Number(1),
     OUTBOX_POLL_INTERVAL_MS |-> Absent, OUTBOX_HANDLER_TIMEOUT_SECS |-> Absent,
     OUTBOX_LEASE_SECS |-> Number(54), OUTBOX_STORAGE_TIMEOUT_MS |-> Absent,
     OUTBOX_POSTGRES_STATEMENT_TIMEOUT_MS |-> Absent]

MCEnvironments ==
    {Sound}
    \cup {[Sound EXCEPT ![name] = Other("nonUnicode")] : name \in DOMAIN Sound}
    \cup {[Sound EXCEPT ![name] = Other("malformed")] : name \in DOMAIN Sound}
    \cup {[Sound EXCEPT ![name] = Number(0)] : name \in DOMAIN Sound \ {"DATABASE_URL", "BIND_ADDRESS", "RUST_LOG"}}
    \cup {[Sound EXCEPT !.DATABASE_URL = Absent], [Sound EXCEPT !.DATABASE_URL = Other("otherScheme")],
          [Sound EXCEPT !.BIND_ADDRESS = Absent]}
    \cup {[Sound EXCEPT !.OUTBOX_LEASE_SECS = Number(53)], [Sound EXCEPT !.OUTBOX_QUEUE_CAPACITY = Number(3)]}
====
