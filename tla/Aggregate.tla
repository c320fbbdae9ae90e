---- MODULE Aggregate ----
(***************************************************************************)
(* An aggregate as the event store sees it.  The event of an invocation is *)
(* known by the invocation, so a state is the sequence of the events that  *)
(* were applied: no two histories have the same state.  The rules stand    *)
(* for the kinds of command handlers there are: one that always accepts,   *)
(* one that refuses a second time (ReserveEmail), one whose repeat does    *)
(* nothing (RecordAccountCreated), and one that breaks the limit of one    *)
(* event per command.                                                      *)
(***************************************************************************)
EXTENDS Integers, Sequences

Rules == {"append", "first", "repeat", "pair"}

(* A domain rejection, or how many events the handler writes. *)
Decision(command, state) ==
    CASE command.rule = "append" -> "one"
      [] command.rule = "first" -> IF state = <<>> THEN "one" ELSE "reject"
      [] command.rule = "repeat" -> IF state = <<>> THEN "one" ELSE "none"
      [] command.rule = "pair" -> "many"

(* Tolerates a repeat of the last event, as command_executor requires. *)
Apply(state, event) ==
    IF state # <<>> /\ state[Len(state)] = event THEN state ELSE Append(state, event)
====
