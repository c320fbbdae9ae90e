---- MODULE AtomicCommands ----
(***************************************************************************)
(* What the command gateway promises its callers about one aggregate,      *)
(* whatever happens between the statements it is made of: a command takes  *)
(* effect at most once, at one instant, as the aggregate decides it in the *)
(* state of that instant, and its event and its tasks are stored together. *)
(*                                                                         *)
(* Ok means that the command took effect or had nothing to do.  A domain   *)
(* rejection or a conflict means that it did not and will not.             *)
(* Unavailable means neither: its effect may be there or may still come.   *)
(***************************************************************************)
EXTENDS Aggregate

CONSTANTS
    Invocations,  \* calls of CommandExecutor::execute
    Commands      \* what may be asked; the field tasks counts outbox tasks

VARIABLES
    log,      \* accepted events, each known by the invocation that it is of
    outbox,   \* invocations whose tasks are stored
    request,  \* the command of each invocation, or NotAsked
    since,    \* length of the log when it was asked
    answer    \* what its caller was told, "none" before

vars == <<log, outbox, request, since, answer>>

NotAsked == [rule |-> "none", tasks |-> 0]

InLog(c) == \E n \in 1..Len(log) : log[n] = c

(* Decided d in some state between the question and now. *)
Decided(c, d) == \E n \in since[c]..Len(log) : Decision(request[c], SubSeq(log, 1, n)) = d

Invoke(c, command) ==
    /\ request[c] = NotAsked
    /\ request' = [request EXCEPT ![c] = command]
    /\ since' = [since EXCEPT ![c] = Len(log)]
    /\ UNCHANGED <<log, outbox, answer>>

(* Also after the caller was told Unavailable: the statement may be late.  *)
Commit(c) ==
    /\ request[c] # NotAsked /\ answer[c] \in {"none", "Unavailable"}
    /\ ~InLog(c) /\ Decision(request[c], log) = "one"
    /\ log' = Append(log, c)
    /\ outbox' = IF request[c].tasks > 0 THEN outbox \cup {c} ELSE outbox
    /\ UNCHANGED <<request, since, answer>>

(* What each answer tells the caller. *)
Justified(c, a) ==
    CASE a = "Ok" -> InLog(c) \/ (Decided(c, "none") /\ request[c].tasks = 0)
      [] a = "Domain" -> ~InLog(c) /\ Decided(c, "reject")
      [] a = "Conflict" -> ~InLog(c)
      [] a = "Unavailable" -> TRUE

Reply(c, a) ==
    /\ request[c] # NotAsked /\ answer[c] = "none"
    /\ Justified(c, a)
    /\ answer' = [answer EXCEPT ![c] = a]
    /\ UNCHANGED <<log, outbox, request, since>>

Init ==
    /\ log = <<>> /\ outbox = {}
    /\ request = [c \in Invocations |-> NotAsked]
    /\ since = [c \in Invocations |-> 0]
    /\ answer = [c \in Invocations |-> "none"]

Next ==
    \E c \in Invocations :
        \/ \E command \in Commands : Invoke(c, command)
        \/ Commit(c)
        \/ \E a \in {"Ok", "Domain", "Conflict", "Unavailable"} : Reply(c, a)

Spec == Init /\ [][Next]_vars
====
