---- MODULE EventStoreProofs ----
(***************************************************************************)
(* Proofs about EventStore: snapshots are the past, and the execution of a *)
(* command implements AtomicCommands.                                      *)
(***************************************************************************)
EXTENDS EventStore, SequenceTheorems, TLAPS

InLog(c) == \E n \in 1..Len(events) : events[n] = c

(* A snapshot or a loaded aggregate is what some prefix of events gives.   *)
Past(state, sequence) == sequence <= Len(events) /\ state = SubSeq(events, 1, sequence)

(* What holds of each execution: what it loaded is a past state and what   *)
(* it writes was decided in that state; its event is stored only once it   *)
(* was written, and until then it has no answer but Unavailable.           *)
Execution(c) ==
    /\ stage[c] \in {"loaded", "writing"} => Past(context[c].state, context[c].sequence)
    /\ stage[c] = "writing" => Decision(request[c], context[c].state) = "one"
    /\ stage[c] = "writing" => answer[c] \in {"none", "Unavailable"}
    /\ stage[c] \in {"new", "loaded", "written", "conflicted"} => answer[c] = "none"
    /\ stage[c] = "written" => InLog(c)
    /\ InLog(c) => stage[c] \in {"written", "done"}
    /\ stage[c] = "new" <=> request[c] = NotAsked
    /\ since[c] <= Len(events)

StoreInv == TypeOK /\ SnapshotsAreThePast /\ \A c \in Invocations : Execution(c)

Stages == {"new", "loaded", "writing", "written", "conflicted", "done"}

Contexts == [state : Seq(Invocations), sequence : Nat, version : Nat]

----------------------------------------------------------------------------
(* The prefixes of a growing log. *)

LEMMA PrefixStays ==
    ASSUME NEW s \in Seq(Invocations), NEW c \in Invocations, NEW n \in Nat, n <= Len(s)
    PROVE  SubSeq(Append(s, c), 1, n) = SubSeq(s, 1, n)
<1>1. Append(s, c) \in Seq(Invocations) /\ Len(Append(s, c)) = Len(s) + 1
      /\ \A i \in 1..Len(s) : Append(s, c)[i] = s[i]
  BY AppendProperties
<1>2. Len(s) \in Nat
  BY LenProperties, Zenon
<1>3. /\ SubSeq(s, 1, n) \in Seq(Invocations) /\ Len(SubSeq(s, 1, n)) = n
      /\ \A i \in 1..n : SubSeq(s, 1, n)[i] = s[i]
  BY <1>2, SubSeqProperties
<1>4. /\ SubSeq(Append(s, c), 1, n) \in Seq(Invocations) /\ Len(SubSeq(Append(s, c), 1, n)) = n
      /\ \A i \in 1..n : SubSeq(Append(s, c), 1, n)[i] = Append(s, c)[i]
  BY <1>1, <1>2, SubSeqProperties
<1>5. \A i \in 1..n : SubSeq(Append(s, c), 1, n)[i] = SubSeq(s, 1, n)[i]
  BY <1>1, <1>2, <1>3, <1>4
<1> QED
  BY <1>3, <1>4, <1>5, SeqEqual, Zenon

LEMMA WholeLog == ASSUME NEW s \in Seq(Invocations) PROVE SubSeq(s, 1, Len(s)) = s
  BY SubSeqFull, Zenon

(* A snapshot's state and the tail read after it make up the whole log.    *)
LEMMA TailCompletes ==
    ASSUME NEW s \in Seq(Invocations), NEW n \in Nat, n <= Len(s)
    PROVE  SubSeq(s, 1, n) \o SubSeq(s, n + 1, Len(s)) = s
<1>1. Len(s) \in Nat
  BY LenProperties, Zenon
<1>2. 1 \in 1..Len(s) + 1 /\ n \in (1 - 1)..Len(s) /\ Len(s) \in n..Len(s)
  BY <1>1
<1>3. SubSeq(s, 1, n) \o SubSeq(s, n + 1, Len(s)) = SubSeq(s, 1, Len(s))
  BY <1>2, ConcatAdjacentSubSeq, Zenon
<1> QED
  BY <1>3, WholeLog, Zenon

(* The event is applied twice and counts once. *)
LEMMA RepeatTolerated ==
    ASSUME NEW s \in Seq(Invocations), NEW c \in Invocations, \A n \in 1..Len(s) : s[n] # c
    PROVE  Apply(Apply(s, c), c) = Append(s, c)
<1>1. Append(s, c) \in Seq(Invocations) /\ Len(Append(s, c)) = Len(s) + 1 /\ Append(s, c)[Len(s) + 1] = c
  BY AppendProperties
<1>2. Len(s) \in Nat /\ (s # <<>> => Len(s) \in 1..Len(s))
  BY LenProperties, EmptySeq
<1>3. Apply(s, c) = Append(s, c)
  BY <1>2, Zenon DEF Apply
<1>4. Append(s, c) # <<>>
  BY <1>1, <1>2, EmptySeq
<1> QED
  BY <1>1, <1>3, <1>4, Zenon DEF Apply

----------------------------------------------------------------------------
(* The pieces of an execution. *)

LEMMA Decisions ==
    ASSUME NEW command \in Commands, NEW s
    PROVE  command \in [rule : Rules, tasks : Nat] /\ command # NotAsked
           /\ Decision(command, s) \in {"one", "none", "many", "reject"}
  BY StoreAssumption DEF Rules, NotAsked, Decision

(* Whatever row of snapshots is read, the past is loaded. *)
LEMMA LoadGives ==
    ASSUME StoreInv, NEW c \in Invocations, Load(c)
    PROVE  /\ stage' = [stage EXCEPT ![c] = "loaded"]
           /\ \E x \in Contexts : context' = [context EXCEPT ![c] = x] /\ Past(x.state, x.sequence)
<1>0. events \in Seq(Invocations) /\ Len(events) \in Nat
      /\ snapshots \subseteq [last_sequence : Nat, version : Nat, state : Seq(Invocations)]
  BY LenProperties, Zenon DEF StoreInv, TypeOK
<1>1. CASE snapshots = {} /\ context' = [context EXCEPT ![c] = Empty]
  <2>1. Empty \in Contexts /\ Empty.state = <<>> /\ Empty.sequence = 0
    BY EmptySeq, Zenon DEF Empty, Contexts
  <2>2. Past(Empty.state, Empty.sequence)
    BY <1>0, <2>1, SubSeqEmpty DEF Past
  <2> QED
    BY <1>1, <2>1, <2>2, Zenon DEF Load
<1>2. ASSUME NEW s \in snapshots, context' = [context EXCEPT ![c] =
                 [state |-> s.state, sequence |-> s.last_sequence, version |-> s.version]]
      PROVE  \E x \in Contexts : context' = [context EXCEPT ![c] = x] /\ Past(x.state, x.sequence)
  <2> DEFINE x == [state |-> s.state, sequence |-> s.last_sequence, version |-> s.version]
  <2>1. x \in Contexts /\ x.state = s.state /\ x.sequence = s.last_sequence
    BY <1>0, Zenon DEF Contexts
  <2>2. Past(s.state, s.last_sequence)
    BY Zenon DEF StoreInv, SnapshotsAreThePast, Past
  <2> QED
    BY <1>2, <2>1, <2>2, Zenon
<1> QED
  BY <1>1, <1>2, Zenon DEF Load

(* What Handle decides on is the whole log. *)
LEMMA ReplayedIsNow ==
    ASSUME StoreInv, NEW c \in Invocations, stage[c] = "loaded"
    PROVE  /\ Replayed(c) \in Contexts /\ Replayed(c).state = events
           /\ Replayed(c).sequence = Len(events) /\ Past(events, Len(events))
<1>0. /\ events \in Seq(Invocations) /\ Len(events) \in Nat /\ context[c] \in Contexts
      /\ Past(context[c].state, context[c].sequence)
  BY LenProperties, Zenon DEF StoreInv, TypeOK, Execution, Contexts
<1>1. context[c].state \o SubSeq(events, context[c].sequence + 1, Len(events)) = events
  BY <1>0, TailCompletes, Zenon DEF Past, Contexts
<1>2. Past(events, Len(events))
  BY <1>0, WholeLog DEF Past
<1> QED
  BY <1>0, <1>1, <1>2, Zenon DEF Replayed, Contexts

(* The statement that finds its sequence number free was decided on the    *)
(* whole log, and the snapshot it writes is the log with its event.        *)
LEMMA FittingIsCurrent ==
    ASSUME StoreInv, NEW c \in Invocations, stage[c] = "writing", EventFits(c)
    PROVE  /\ context[c].sequence = Len(events) /\ context[c].state = events
           /\ ~InLog(c) /\ SnapshotState(c) = Append(events, c)
<1>0. /\ events \in Seq(Invocations) /\ Len(events) \in Nat /\ context[c] \in Contexts
      /\ Past(context[c].state, context[c].sequence) /\ ~InLog(c)
  BY LenProperties, Zenon DEF StoreInv, TypeOK, Execution, Contexts
<1>1. context[c].sequence = Len(events)
  BY <1>0 DEF EventFits, Sequence, Past, Contexts
<1>2. context[c].state = events
  BY <1>0, <1>1, WholeLog, Zenon DEF Past
<1> QED
  BY <1>0, <1>1, <1>2, RepeatTolerated, Zenon DEF SnapshotState, InLog

(* A step that writes nothing concerns one execution. *)
LEMMA QuietKeeps ==
    ASSUME StoreInv, NEW c \in Invocations, UNCHANGED <<interval, events, snapshots, outbox>>,
           TypeOK', Execution(c)',
           \A d \in Invocations \ {c} :
               /\ request'[d] = request[d] /\ since'[d] = since[d] /\ stage'[d] = stage[d]
               /\ context'[d] = context[d] /\ answer'[d] = answer[d]
    PROVE  StoreInv'
<1>1. \A d \in Invocations \ {c} : Execution(d)'
  BY DEF StoreInv, Execution, Past, InLog
<1>2. SnapshotsAreThePast'
  BY Zenon DEF StoreInv, SnapshotsAreThePast
<1> QED
  BY <1>1, <1>2, Zenon DEF StoreInv

----------------------------------------------------------------------------
(* Each step keeps the invariant. *)

LEMMA StoreInitEstablishes == Init => StoreInv
<1> SUFFICES ASSUME Init PROVE StoreInv
  BY Zenon
<1>1. events = <<>> /\ events \in Seq(Invocations) /\ Len(events) = 0
  BY EmptySeq, Zenon DEF Init
<1>2. Policy.max_attempts \in Nat \ {0} /\ Empty \in [state : Seq(Invocations), sequence : Nat, version : Nat]
  BY StoreAssumption, EmptySeq, Zenon DEF RetryPolicyNew, Empty
<1>3. TypeOK
  BY <1>1, <1>2 DEF Init, TypeOK
<1> QED
  BY <1>1, <1>3 DEF Init, StoreInv, SnapshotsAreThePast, Execution, Past, InLog

LEMMA InvokeKeeps ==
    ASSUME StoreInv, NEW c \in Invocations, NEW command \in Commands, Invoke(c, command)
    PROVE  StoreInv'
<1>0. /\ request[c] = NotAsked /\ UNCHANGED <<interval, events, snapshots, outbox, attempt, answer>>
      /\ request' = [request EXCEPT ![c] = command] /\ since' = [since EXCEPT ![c] = Len(events)]
  BY Zenon DEF Invoke, tables
<1>1. PICK x \in Contexts : context' = [context EXCEPT ![c] = x] /\ Past(x.state, x.sequence)
  BY LoadGives, Zenon DEF Invoke
<1>2. stage' = [stage EXCEPT ![c] = "loaded"]
  BY LoadGives, Zenon DEF Invoke
<1>3. Len(events) \in Nat /\ command # NotAsked
  BY LenProperties, Decisions, Zenon DEF StoreInv, TypeOK
<1>4. TypeOK'
  BY <1>0, <1>1, <1>2, <1>3, Zenon DEF StoreInv, TypeOK, Contexts
<1>5. stage[c] = "new" /\ ~InLog(c) /\ answer[c] = "none"
  BY <1>0, Zenon DEF StoreInv, Execution
<1>6. Execution(c)'
  BY <1>0, <1>1, <1>2, <1>3, <1>5 DEF StoreInv, TypeOK, Execution, Past, InLog
<1> QED
  BY <1>0, <1>1, <1>2, <1>4, <1>6, QuietKeeps, Zenon DEF StoreInv, TypeOK

(* An execution that ends, with whatever answer. *)
LEMMA FinishKeeps ==
    ASSUME StoreInv, NEW c \in Invocations, stage[c] # "new", Finished(c),
           NEW a \in {"none", "Ok", "Domain", "Conflict", "Unavailable"},
           answer' = [answer EXCEPT ![c] = a],
           UNCHANGED <<interval, events, snapshots, outbox, request, since>>
    PROVE  StoreInv'
<1>1. Policy.max_attempts \in Nat \ {0} /\ Empty \in [state : Seq(Invocations), sequence : Nat, version : Nat]
  BY StoreAssumption, EmptySeq, Zenon DEF RetryPolicyNew, Empty
<1>2. /\ stage' \in [Invocations -> Stages] /\ attempt' \in [Invocations -> 1..Policy.max_attempts]
      /\ context' \in [Invocations -> Contexts]
  <2>1. 1 \in 1..Policy.max_attempts
    BY <1>1
  <2> QED
    BY <1>1, <2>1, Zenon DEF StoreInv, TypeOK, Finished, Stages, Contexts
<1>3. TypeOK'
  BY <1>2, Zenon DEF StoreInv, TypeOK, Stages, Contexts
<1>4. Execution(c)'
  BY Zenon DEF StoreInv, TypeOK, Finished, Execution, InLog
<1> QED
  BY <1>3, <1>4, QuietKeeps, Zenon DEF StoreInv, TypeOK, Finished

LEMMA HandleKeeps == ASSUME StoreInv, NEW c \in Invocations, Handle(c) PROVE StoreInv'
<1>0. stage[c] = "loaded" /\ UNCHANGED <<interval, events, snapshots, outbox, request, since>>
  BY Zenon DEF Handle, tables
<1>1. CASE \E a \in {"Domain", "Ok", "Unavailable"} : Return(c, a)
  BY <1>0, <1>1, FinishKeeps, Zenon DEF Return
<1>2. CASE /\ Decision(request[c], Replayed(c).state) # "reject"
           /\ WritePlan(Decision(request[c], Replayed(c).state), request[c].tasks, SnapshotWrite(Replayed(c))) = "OneEvent"
           /\ stage' = [stage EXCEPT ![c] = "writing"] /\ context' = [context EXCEPT ![c] = Replayed(c)]
           /\ UNCHANGED <<attempt, answer>>
  <2>1. request[c] \in Commands /\ answer[c] = "none" /\ ~InLog(c) /\ since[c] <= Len(events)
    BY <1>0, Zenon DEF StoreInv, TypeOK, Execution
  <2>2. Decision(request[c], events) = "one"
    BY <1>0, <1>2, <2>1, ReplayedIsNow, Decisions, Zenon DEF WritePlan
  <2>3. TypeOK'
    BY <1>0, <1>2, ReplayedIsNow, Zenon DEF StoreInv, TypeOK, Contexts
  <2>4. Execution(c)'
    BY <1>0, <1>2, <2>1, <2>2, ReplayedIsNow, Decisions, ZenonT(60) DEF StoreInv, TypeOK, Execution, Past, InLog
  <2> QED
    BY <1>0, <1>2, <2>3, <2>4, QuietKeeps, Zenon DEF StoreInv, TypeOK
<1> QED
  BY <1>1, <1>2, Zenon DEF Handle

LEMMA RetryKeeps == ASSUME StoreInv, NEW c \in Invocations, Retry(c) PROVE StoreInv'
<1>0. stage[c] = "conflicted" /\ UNCHANGED <<interval, events, snapshots, outbox, request, since>>
  BY Zenon DEF Retry, tables
<1>1. CASE Return(c, "Conflict")
  BY <1>0, <1>1, FinishKeeps, Zenon DEF Return
<1>2. CASE /\ attempt[c] < Policy.max_attempts /\ Load(c)
           /\ attempt' = [attempt EXCEPT ![c] = @ + 1] /\ UNCHANGED answer
  <2>1. PICK x \in Contexts : context' = [context EXCEPT ![c] = x] /\ Past(x.state, x.sequence)
    BY <1>2, LoadGives, Zenon
  <2>2. stage' = [stage EXCEPT ![c] = "loaded"]
    BY <1>2, LoadGives, Zenon
  <2>3. attempt' \in [Invocations -> 1..Policy.max_attempts]
    <3>1. Policy.max_attempts \in Nat
      BY StoreAssumption, Zenon
    <3>2. attempt[c] \in 1..Policy.max_attempts
      BY Zenon DEF StoreInv, TypeOK
    <3>3. attempt[c] + 1 \in 1..Policy.max_attempts
      BY <1>2, <3>1, <3>2
    <3> QED
      BY <1>2, <3>3, Zenon DEF StoreInv, TypeOK
  <2>4. TypeOK'
    BY <1>0, <1>2, <2>1, <2>2, <2>3, Zenon DEF StoreInv, TypeOK, Contexts
  <2>5. Execution(c)'
    BY <1>0, <1>2, <2>1, <2>2, ZenonT(60) DEF StoreInv, TypeOK, Execution, Past, InLog
  <2> QED
    BY <1>0, <1>2, <2>1, <2>2, <2>4, <2>5, QuietKeeps, Zenon DEF StoreInv, TypeOK
<1> QED
  BY <1>1, <1>2, Zenon DEF Retry

(* The statement is executed and succeeds. *)
LEMMA StoredKeeps ==
    ASSUME StoreInv, NEW c \in Invocations, stage[c] = "writing",
           EventFits(c), Stored(c), Proceed(c, "written"), UNCHANGED <<interval, request, since, answer>>
    PROVE  StoreInv'
<1>0. /\ events \in Seq(Invocations) /\ Len(events) \in Nat /\ events' = Append(events, c)
      /\ events' \in Seq(Invocations) /\ Len(events') = Len(events) + 1 /\ events'[Len(events) + 1] = c
      /\ \A n \in 1..Len(events) : events'[n] = events[n]
  BY LenProperties, AppendProperties DEF StoreInv, TypeOK, Stored
<1>1. \A n \in Nat : n <= Len(events) => SubSeq(events', 1, n) = SubSeq(events, 1, n)
  BY <1>0, PrefixStays, Zenon
<1>2. \A d \in Invocations : InLog(d)' <=> InLog(d) \/ d = c
  BY <1>0 DEF InLog
<1>3. Row(c) \in [last_sequence : Nat, version : Nat, state : Seq(Invocations)]
      /\ Row(c).last_sequence = Len(events') /\ Row(c).state = SubSeq(events', 1, Len(events'))
  <2>1. context[c].sequence = Len(events) /\ SnapshotState(c) = events' /\ context[c].version \in Nat
    BY <1>0, FittingIsCurrent, Zenon DEF StoreInv, TypeOK
  <2>2. SubSeq(events', 1, Len(events')) = events'
    BY <1>0, WholeLog, Zenon
  <2> QED
    BY <1>0, <2>1, <2>2 DEF Row, Sequence
<1>4. snapshots' \subseteq snapshots \cup {Row(c)}
  BY Zenon DEF Stored, AppendSnapshot, SnapshotWrite
<1>5. SnapshotsAreThePast'
  <2> SUFFICES ASSUME NEW s \in snapshots'
               PROVE  s.last_sequence <= Len(events') /\ s.state = SubSeq(events', 1, s.last_sequence)
    BY Zenon DEF SnapshotsAreThePast
  <2>1. CASE s = Row(c)
    BY <1>0, <1>3, <2>1
  <2>2. CASE s \in snapshots
    BY <1>0, <1>1, <2>2, SMTT(30) DEF StoreInv, SnapshotsAreThePast, TypeOK
  <2> QED
    BY <1>4, <2>1, <2>2, Zenon
<1>6. Policy.max_attempts \in Nat \ {0} /\ Empty \in [state : Seq(Invocations), sequence : Nat, version : Nat]
  BY StoreAssumption, EmptySeq, Zenon DEF RetryPolicyNew, Empty
<1>7. /\ stage' \in [Invocations -> Stages] /\ stage'[c] \in {"written", "done"}
      /\ stage'[c] = "written" => answer[c] = "none"
      /\ attempt' \in [Invocations -> 1..Policy.max_attempts] /\ context' \in [Invocations -> Contexts]
      /\ \A d \in Invocations \ {c} : stage'[d] = stage[d] /\ context'[d] = context[d]
  <2>1. CASE Waiting(c)
    BY <2>1, Zenon DEF Proceed, Waiting, StoreInv, TypeOK, Stages, Contexts
  <2>2. CASE ~Waiting(c)
    <3>1. 1 \in 1..Policy.max_attempts /\ Finished(c)
      BY <1>6, <2>2 DEF Proceed
    <3>2. stage' \in [Invocations -> Stages] /\ stage'[c] = "done"
          /\ \A d \in Invocations \ {c} : stage'[d] = stage[d]
      BY <3>1, Zenon DEF Finished, StoreInv, TypeOK, Stages
    <3>3. attempt' \in [Invocations -> 1..Policy.max_attempts]
      BY <3>1, Zenon DEF Finished, StoreInv, TypeOK
    <3>4. context' \in [Invocations -> Contexts] /\ \A d \in Invocations \ {c} : context'[d] = context[d]
      BY <1>6, <3>1, Zenon DEF Finished, StoreInv, TypeOK, Contexts
    <3> QED
      BY <3>2, <3>3, <3>4, Zenon
  <2> QED
    BY <2>1, <2>2, Zenon
<1>8. TypeOK'
  BY <1>0, <1>3, <1>4, <1>7, ZenonT(60) DEF StoreInv, TypeOK, Stored, Stages, Contexts
<1>9. ASSUME NEW d \in Invocations PROVE Execution(d)'
  <2>1. context[d].sequence \in Nat /\ since[d] \in Nat
    BY Zenon DEF StoreInv, TypeOK
  <2>2. Past(context[d].state, context[d].sequence) => Past(context[d].state, context[d].sequence)'
        \/ context'[d] # context[d]
    BY <1>0, <1>1, <2>1 DEF Past
  <2>3. CASE d = c
    BY <1>0, <1>2, <1>7, <2>1, <2>3 DEF StoreInv, Execution
  <2>4. CASE d # c
    BY <1>0, <1>2, <1>7, <2>1, <2>2, <2>4 DEF StoreInv, Execution
  <2> QED
    BY <2>3, <2>4, Zenon
<1> QED
  BY <1>5, <1>8, <1>9, Zenon DEF StoreInv

LEMMA PersistKeeps == ASSUME StoreInv, NEW c \in Invocations, PersistOne(c) PROVE StoreInv'
<1>0. stage[c] = "writing" /\ UNCHANGED <<interval, request, since, answer>>
  BY Zenon DEF PersistOne
<1>1. CASE EventFits(c) /\ Stored(c) /\ Proceed(c, "written")
  BY <1>0, <1>1, StoredKeeps, Zenon
<1>2. CASE UNCHANGED <<events, snapshots, outbox>> /\ Proceed(c, "conflicted")
  <2>1. CASE ~Waiting(c)
    <3>1. Finished(c) /\ answer[c] \in {"none", "Ok", "Domain", "Conflict", "Unavailable"}
          /\ answer' = [answer EXCEPT ![c] = answer[c]]
      BY <1>0, <1>2, <2>1, Zenon DEF Proceed, StoreInv, TypeOK
    <3> QED
      BY <1>0, <1>2, <3>1, FinishKeeps, Zenon
  <2>2. CASE Waiting(c)
    <3>1. stage' = [stage EXCEPT ![c] = "conflicted"] /\ UNCHANGED <<attempt, context>>
      BY <1>2, <2>2, Zenon DEF Proceed
    <3>2. TypeOK'
      BY <1>0, <1>2, <3>1, Zenon DEF StoreInv, TypeOK
    <3>3. Execution(c)'
      BY <1>0, <1>2, <2>2, <3>1, ZenonT(60) DEF StoreInv, TypeOK, Execution, InLog, Waiting
    <3> QED
      BY <1>0, <1>2, <3>1, <3>2, <3>3, QuietKeeps, Zenon DEF StoreInv, TypeOK
  <2> QED
    BY <2>1, <2>2, Zenon
<1> QED
  BY <1>1, <1>2, Zenon DEF PersistOne

LEMMA EndingsKeep ==
    ASSUME StoreInv, NEW c \in Invocations, Acknowledge(c) \/ ReadFails(c) \/ WriteFails(c) \/ Vanish(c)
    PROVE  StoreInv'
<1>0. stage[c] # "new" /\ UNCHANGED <<interval, events, snapshots, outbox, request, since>>
  BY Zenon DEF Acknowledge, ReadFails, WriteFails, Vanish, tables
<1>1. CASE Acknowledge(c) \/ ReadFails(c)
  BY <1>0, <1>1, FinishKeeps, Zenon DEF Acknowledge, ReadFails, Return
<1>2. CASE WriteFails(c)
  <2>1. /\ stage[c] = "writing" /\ UNCHANGED <<stage, attempt, context>>
        /\ answer' = [answer EXCEPT ![c] = "Unavailable"]
    BY <1>2, Zenon DEF WriteFails
  <2>2. TypeOK'
    BY <1>0, <2>1, Zenon DEF StoreInv, TypeOK
  <2>3. Execution(c)'
    BY <1>0, <2>1, ZenonT(60) DEF StoreInv, TypeOK, Execution, InLog, Past
  <2> QED
    BY <1>0, <2>1, <2>2, <2>3, QuietKeeps, Zenon DEF StoreInv, TypeOK
<1>3. CASE Vanish(c)
  <2>1. Finished(c) /\ answer[c] \in {"none", "Ok", "Domain", "Conflict", "Unavailable"}
        /\ answer' = [answer EXCEPT ![c] = answer[c]]
    BY <1>3, Zenon DEF Vanish, StoreInv, TypeOK
  <2> QED
    BY <1>0, <2>1, FinishKeeps, Zenon
<1> QED
  BY <1>1, <1>2, <1>3, Zenon

LEMMA StoreStepKeeps == StoreInv /\ [Next]_vars => StoreInv'
<1> SUFFICES ASSUME StoreInv, [Next]_vars PROVE StoreInv'
  BY Zenon
<1>1. CASE UNCHANGED vars
  BY <1>1 DEF vars, StoreInv, TypeOK, SnapshotsAreThePast, Execution, Past, InLog
<1> QED
  BY <1>1, InvokeKeeps, HandleKeeps, RetryKeeps, PersistKeeps, EndingsKeep, Zenon DEF Next, Step

----------------------------------------------------------------------------
THEOREM StoreInvariant == Spec => []StoreInv
  BY StoreInitEstablishes, StoreStepKeeps, PTL DEF Spec

(* Types, with the attempts within the policy's limit. *)
THEOREM TypeCorrect == Spec => []TypeOK
<1>1. StoreInv => TypeOK
  BY Zenon DEF StoreInv
<1> QED
  BY <1>1, StoreInvariant, PTL

(* Every row of snapshots is the state after its number of events. *)
THEOREM SnapshotsAreAlwaysThePast == Spec => []SnapshotsAreThePast
<1>1. StoreInv => SnapshotsAreThePast
  BY Zenon DEF StoreInv
<1> QED
  BY <1>1, StoreInvariant, PTL

(* The bounds of a pause are in order and below the maximum at every       *)
(* retry, for every policy that RetryPolicyNew accepts.                    *)
LEMMA BoundsAreOrdered ==
    ASSUME NEW retry
    PROVE  /\ 0 <= BackoffBounds(retry).lower
           /\ BackoffBounds(retry).lower <= BackoffBounds(retry).upper
           /\ BackoffBounds(retry).upper <= Policy.max_backoff
<1>1. /\ Policy.initial_backoff \in Nat /\ Policy.max_backoff \in Nat
      /\ Policy.jitter \in 0..100 /\ MaxFactor \in Nat
  BY StoreAssumption, Zenon DEF RetryPolicyNew
<1>2. Multiplier(retry) \in Nat
  BY <1>1 DEF Multiplier
<1>3. Policy.initial_backoff * Multiplier(retry) \in Nat
  BY <1>1, <1>2
<1>4. Backoff(retry) \in Nat /\ Backoff(retry) <= Policy.max_backoff
  BY <1>1, <1>3 DEF Backoff, Least
<1> DEFINE less == (Backoff(retry) * (100 - Policy.jitter)) \div 100
           more == (Backoff(retry) * (100 + Policy.jitter)) \div 100
<1>5. less \in Nat /\ more \in Nat
  <2>1. Backoff(retry) * (100 - Policy.jitter) \in Nat /\ Backoff(retry) * (100 + Policy.jitter) \in Nat
    BY <1>1, <1>4
  <2> QED
    BY <2>1
<1>6. /\ BackoffBounds(retry).lower = Least(less, Backoff(retry))
      /\ BackoffBounds(retry).upper = Greatest(Least(more, Policy.max_backoff), Backoff(retry))
  BY Zenon DEF BackoffBounds
<1> HIDE DEF less, more
<1> QED
  BY <1>1, <1>4, <1>5, <1>6 DEF Least, Greatest

(* The range a pause is drawn from is never empty and never beyond the     *)
(* configured maximum, at every attempt, whatever the policy.              *)
THEOREM PausesAreAlwaysBounded == Spec => []PausesAreBounded
<1>1. StoreInv => PausesAreBounded
  BY BoundsAreOrdered, Zenon DEF PausesAreBounded
<1> QED
  BY <1>1, StoreInvariant, PTL

----------------------------------------------------------------------------
(* The refinement. *)

LEMMA SameDefinitions ==
    /\ \A command, s : Atomic!Decision(command, s) = Decision(command, s)
    /\ \A c : Atomic!InLog(c) <=> InLog(c)
    /\ Atomic!NotAsked = NotAsked
  BY Zenon DEF Atomic!Decision, Decision, Atomic!InLog, InLog, Atomic!NotAsked, NotAsked

(* A decision on the whole log is one of a state since the question. *)
LEMMA DecidedNow ==
    ASSUME StoreInv, NEW c \in Invocations
    PROVE  Atomic!Decided(c, Decision(request[c], events))
<1>1. events \in Seq(Invocations) /\ Len(events) \in Nat /\ since[c] \in Nat /\ since[c] <= Len(events)
  BY LenProperties, Zenon DEF StoreInv, TypeOK, Execution
<1>2. Len(events) \in since[c]..Len(events) /\ SubSeq(events, 1, Len(events)) = events
  BY <1>1, WholeLog
<1> QED
  BY <1>2, SameDefinitions, Zenon DEF Atomic!Decided

(* An answer is a step of the abstract specification if it is justified.   *)
LEMMA ReplyIsAtomic ==
    ASSUME StoreInv, NEW c \in Invocations, NEW a \in {"Ok", "Domain", "Conflict", "Unavailable"},
           stage[c] # "new", answer[c] = "none", Atomic!Justified(c, a),
           answer' = [answer EXCEPT ![c] = a], UNCHANGED <<events, outbox, request, since>>
    PROVE  Atomic!Next
<1>1. Atomic!Reply(c, a)
  BY SameDefinitions, Zenon DEF Atomic!Reply, StoreInv, Execution
<1> QED
  BY <1>1, Zenon DEF Atomic!Next

LEMMA HandleIsAtomic ==
    ASSUME StoreInv, NEW c \in Invocations, Handle(c)
    PROVE  Atomic!Next \/ UNCHANGED Atomic!vars
<1> DEFINE decision == Decision(request[c], events)
<1>0. /\ stage[c] = "loaded" /\ UNCHANGED <<events, outbox, request, since>>
      /\ answer[c] = "none" /\ ~InLog(c) /\ request[c] \in Commands
  BY ZenonT(60) DEF Handle, tables, StoreInv, TypeOK, Execution
<1>1. CASE decision = "reject" /\ Return(c, "Domain")
  <2>1. Atomic!Justified(c, "Domain")
    BY <1>0, <1>1, DecidedNow, SameDefinitions, Zenon DEF Atomic!Justified
  <2> QED
    BY <1>0, <1>1, <2>1, ReplyIsAtomic, Zenon DEF Return
<1>2. CASE WritePlan(decision, request[c].tasks, SnapshotWrite(Replayed(c))) = "NoOp" /\ decision # "reject" /\ Return(c, "Ok")
  <2>1. decision = "none" /\ request[c].tasks = 0
    BY <1>0, <1>2, Decisions, Zenon DEF WritePlan
  <2>2. Atomic!Justified(c, "Ok")
    BY <2>1, DecidedNow, Zenon DEF Atomic!Justified
  <2> QED
    BY <1>0, <1>2, <2>2, ReplyIsAtomic, Zenon DEF Return
<1>3. CASE Return(c, "Unavailable")
  <2>1. Atomic!Justified(c, "Unavailable")
    BY Zenon DEF Atomic!Justified
  <2> QED
    BY <1>0, <1>3, <2>1, ReplyIsAtomic, Zenon DEF Return
<1>4. CASE UNCHANGED answer
  BY <1>0, <1>4, Zenon DEF Atomic!vars
<1> QED
  BY <1>0, <1>1, <1>2, <1>3, <1>4, ReplayedIsNow, Zenon DEF Handle

(* The instant at which a command takes effect. *)
LEMMA PersistIsAtomic ==
    ASSUME StoreInv, NEW c \in Invocations, PersistOne(c)
    PROVE  Atomic!Next \/ UNCHANGED Atomic!vars
<1>1. CASE EventFits(c) /\ Stored(c)
  <2>1. ~InLog(c) /\ Decision(request[c], events) = "one"
    BY <1>1, FittingIsCurrent, Zenon DEF PersistOne, StoreInv, Execution
  <2>2. request[c] # NotAsked /\ answer[c] \in {"none", "Unavailable"}
    BY Zenon DEF PersistOne, StoreInv, Execution
  <2>3. Atomic!Commit(c)
    BY <1>1, <2>1, <2>2, SameDefinitions, Zenon DEF Atomic!Commit, Stored, PersistOne
  <2> QED
    BY <2>3, Zenon DEF Atomic!Next
<1>2. CASE UNCHANGED <<events, snapshots, outbox>>
  BY <1>2, Zenon DEF PersistOne, Atomic!vars
<1> QED
  BY <1>1, <1>2, Zenon DEF PersistOne

LEMMA EndingsAreAtomic ==
    ASSUME StoreInv, NEW c \in Invocations,
           Acknowledge(c) \/ Retry(c) \/ ReadFails(c) \/ WriteFails(c) \/ Vanish(c)
    PROVE  Atomic!Next \/ UNCHANGED Atomic!vars
<1>0. stage[c] # "new" /\ UNCHANGED <<events, outbox, request, since>>
  BY Zenon DEF Acknowledge, Retry, ReadFails, WriteFails, Vanish, tables
<1>1. CASE Acknowledge(c)
  <2>1. Atomic!Justified(c, "Ok") /\ answer[c] = "none"
    BY <1>1, SameDefinitions, Zenon DEF Acknowledge, StoreInv, Execution, Atomic!Justified
  <2> QED
    BY <1>0, <1>1, <2>1, ReplyIsAtomic, Zenon DEF Acknowledge, Return
<1>2. CASE Retry(c) /\ Return(c, "Conflict")
  <2>1. Atomic!Justified(c, "Conflict") /\ answer[c] = "none"
    BY <1>2, SameDefinitions, Zenon DEF Retry, StoreInv, Execution, Atomic!Justified
  <2> QED
    BY <1>0, <1>2, <2>1, ReplyIsAtomic, Zenon DEF Return
<1>3. CASE ReadFails(c) \/ WriteFails(c)
  <2>1. Atomic!Justified(c, "Unavailable")
    BY Zenon DEF Atomic!Justified
  <2>2. answer[c] = "none" /\ answer' = [answer EXCEPT ![c] = "Unavailable"]
    BY <1>3, Zenon DEF ReadFails, WriteFails, Waiting, Return, StoreInv, Execution
  <2> QED
    BY <1>0, <2>1, <2>2, ReplyIsAtomic, Zenon
<1>4. CASE UNCHANGED answer
  BY <1>0, <1>4, Zenon DEF Atomic!vars
<1> QED
  BY <1>1, <1>2, <1>3, <1>4, Zenon DEF Retry, Vanish

LEMMA StepIsAtomic == StoreInv /\ [Next]_vars => [Atomic!Next]_(Atomic!vars)
<1> SUFFICES ASSUME StoreInv, [Next]_vars PROVE Atomic!Next \/ UNCHANGED Atomic!vars
  BY Zenon
<1>1. CASE UNCHANGED vars
  BY <1>1, Zenon DEF vars, Atomic!vars
<1>2. ASSUME NEW c \in Invocations, NEW command \in Commands, Invoke(c, command)
      PROVE  Atomic!Next
  <2>1. Atomic!Invoke(c, command)
    BY <1>2, SameDefinitions, Zenon DEF Invoke, Atomic!Invoke, tables
  <2> QED
    BY <2>1, Zenon DEF Atomic!Next
<1> QED
  BY <1>1, <1>2, HandleIsAtomic, PersistIsAtomic, EndingsAreAtomic, Zenon DEF Next, Step

(* The execution of commands implements AtomicCommands: each takes effect  *)
(* at one instant, and its answer is what that specification allows.       *)
THEOREM ExecutionIsAtomic == Spec => CommandsAreAtomic
<1>1. Init => Atomic!Init
  BY SameDefinitions, Zenon DEF Init, Atomic!Init
<1> QED
  BY <1>1, StoreInvariant, StepIsAtomic, PTL DEF Spec, CommandsAreAtomic, Atomic!Spec
====
