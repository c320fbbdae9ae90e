---- MODULE ServiceProofs ----
(***************************************************************************)
(* Proofs about WorkerPool, the task runtime, and about Service, which     *)
(* hosts it: for any number of workers and formats, any capacity of the    *)
(* channel and any size of the poller's counter.                           *)
(***************************************************************************)
EXTENDS Service, SequenceTheorems, TLAPS

(* A worker that has, or may take, a task. *)
Serving(w) == w.state \in {"idle", "received", "running"}

(* The inductive invariant of the pool. Before the pool is spawned nothing *)
(* waits and no worker exists; a claim under way has room; the pool is     *)
(* drained only after the token was cancelled; every worker that serves    *)
(* has the dispatcher whose formats the poller claims.                     *)
PoolInv ==
    /\ TypeOK /\ BatchFits /\ RoomIsSignalled /\ NothingRunsAfterReturn
    /\ Len(channel) <= QueueCapacity
    /\ supervisor = "claiming" => limit > 0
    /\ supervisor \in {"building", "starting"} => limit > 0 /\ \A i \in Workers : worker[i] = Joined
    /\ supervisor = "starting" => \A i \in Workers : dispatcher[i] = FormatList
    /\ supervisor \in {"draining", "aborting"} => shutdown
    /\ \A i \in Workers : Serving(worker[i]) => dispatcher[i] = FormatList

----------------------------------------------------------------------------
(* A worker's record is known by its state. *)
LEMMA WorkerRecords ==
    /\ Idle.state = "idle" /\ Exited.state = "exited" /\ Replaced.state = "replaced"
    /\ Aborting.state = "aborting" /\ Joined.state = "joined"
    /\ \A f : Received(f).state = "received" /\ Received(f).task = f
    /\ \A f : Running(f).state = "running" /\ Running(f).task = f
    /\ \A w \in WorkerStates :
          /\ w.state = "idle" => w = Idle
          /\ w.state = "exited" => w = Exited
          /\ w.state = "joined" => w = Joined
          /\ w.state = "aborting" => w = Aborting
          /\ w.state = "replaced" => w = Replaced
          /\ w.state = "received" => w.task \in Formats /\ w = Received(w.task)
          /\ w.state = "running" => w.task \in Formats /\ w = Running(w.task)
  BY DEF WorkerStates, Idle, Exited, Replaced, Aborting, Joined, Received, Running

(* The formats of the first dispatcher, and what it routes. *)
LEMMA FormatListRoutes ==
    /\ FormatList \in Seq(Formats) /\ Len(FormatList) = FormatCount
    /\ FormatList \in Seq(0..FormatCount)
    /\ \A f \in Formats : Dispatched(FormatList, f) = "handled"
<1>1. FormatList \in [1..FormatCount -> Formats] /\ FormatCount \in Nat
  BY PoolAssumption DEF FormatList, Formats
<1>2. FormatList \in Seq(Formats) /\ Len(FormatList) = FormatCount
  BY <1>1, SeqDef
<1>3. FormatList \in Seq(0..FormatCount)
  BY <1>2, SeqMonotonic DEF Formats
<1>4. ASSUME NEW f \in Formats
      PROVE  Dispatched(FormatList, f) = "handled"
  <2>1. f + 1 \in DOMAIN FormatList /\ FormatList[f + 1] = f
    BY PoolAssumption DEF FormatList, Formats
  <2>2. Routes(FormatList, f) # {}
    BY <2>1, Zenon DEF Routes
  <2>3. \A k \in Routes(FormatList, f) : FormatList[k] = f
    BY Zenon DEF Routes
  <2> QED
    BY <2>2, <2>3, Zenon DEF Dispatched, Invoke
<1> QED
  BY <1>2, <1>3, <1>4, Zenon

(* Formats a factory may give. *)
LEMMA FactoryFormats == \A built \in FactoryResults : built.formats \in Seq(0..FormatCount)
<1> USE DEF FactoryResults, TaskAdapters, TryNew, Failed
<1> SUFFICES ASSUME NEW built \in FactoryResults
             PROVE  built.formats \in Seq(0..FormatCount)
  BY Zenon
<1>0. <<>> \in Seq(0..FormatCount)
  OBVIOUS
<1>1. FormatList \o FormatList \in Seq(0..FormatCount)
  BY FormatListRoutes, ConcatProperties, Zenon
<1>2. Tail(FormatList) \in Seq(0..FormatCount)
  BY FormatListRoutes, HeadTailProperties, PoolAssumption, EmptySeq, Zenon
<1>3. <<FormatCount>> \in Seq(0..FormatCount)
  BY PoolAssumption
<1>4. PICK formats \in {FormatList, <<>>, FormatList \o FormatList, Tail(FormatList), <<FormatCount>>, <<-1>>} :
          built = TaskAdapters(formats)
  BY Zenon
<1>5. CASE formats = <<-1>>
  <2>1. 1 \in DOMAIN formats /\ ~ValidFormat(formats[1])
    BY <1>5 DEF ValidFormat
  <2> QED
    BY <1>0, <1>4, <2>1, Zenon
<1>6. CASE formats # <<-1>>
  BY <1>0, <1>1, <1>2, <1>3, <1>4, <1>6, FormatListRoutes, Zenon
<1> QED
  BY <1>5, <1>6, Zenon

(* Looking for room. *)
LEMMA Room ==
    ASSUME TypeOK, Len(channel) <= QueueCapacity, LookForRoom
    PROVE  /\ limit' \in 0..QueueCapacity /\ limit' = QueueCapacity - Len(channel)
           /\ first' \in 0..CounterSize - 1 /\ offset' \in 0..FormatCount
           /\ claimed' \in Seq(Formats) /\ supervisor' \in {"selecting", "claiming"}
           /\ supervisor' = "selecting" => Len(channel) = QueueCapacity
           /\ supervisor' = "claiming" => limit' > 0 /\ Len(claimed') = 0
<1>0. /\ Len(channel) \in Nat /\ first \in 0..CounterSize - 1 /\ offset \in 0..FormatCount
      /\ claimed \in Seq(Formats)
  BY LenProperties, Zenon DEF TypeOK
<1>1. limit' \in 0..QueueCapacity
  BY <1>0, PoolAssumption DEF LookForRoom
<1>2. (first + 1) % CounterSize \in 0..CounterSize - 1
  BY <1>0, PoolAssumption
<1>3. <<>> \in Seq(Formats) /\ Len(<<>>) = 0
  OBVIOUS
<1>4. CASE limit' = 0
  BY <1>0, <1>1, <1>4, PoolAssumption DEF LookForRoom
<1>5. CASE limit' # 0
  <2>1. 0 \in 0..FormatCount
    BY PoolAssumption
  <2>2. limit' > 0
    BY <1>1, <1>5, PoolAssumption
  <2> QED
    BY <1>1, <1>2, <1>3, <1>5, <2>1, <2>2, Zenon DEF LookForRoom
<1> QED
  BY <1>4, <1>5, Zenon

(* What a claim adds, and what it sends. *)
LEMMA ClaimedBatch ==
    ASSUME TypeOK
    PROVE  /\ Asked \in Formats
           /\ \A n \in Nat : /\ claimed \o [k \in 1..n |-> Asked] \in Seq(Formats)
                             /\ Len(claimed \o [k \in 1..n |-> Asked]) = Len(claimed) + n
           /\ channel \o claimed \in Seq(Formats)
           /\ Len(channel \o claimed) = Len(channel) + Len(claimed)
           /\ channel # <<>> => /\ Head(channel) \in Formats /\ Tail(channel) \in Seq(Formats)
                                /\ Len(Tail(channel)) = Len(channel) - 1
<1>1. Asked \in Formats
  BY PoolAssumption DEF TypeOK, Asked, Formats
<1>2. ASSUME NEW n \in Nat
      PROVE  /\ claimed \o [k \in 1..n |-> Asked] \in Seq(Formats)
             /\ Len(claimed \o [k \in 1..n |-> Asked]) = Len(claimed) + n
  <2> DEFINE batch == [k \in 1..n |-> Asked]
  <2>1. batch \in Seq(Formats) /\ Len(batch) = n
    BY <1>1, SeqDef
  <2>2. claimed \in Seq(Formats)
    BY Zenon DEF TypeOK
  <2> HIDE DEF batch
  <2>3. claimed \o batch \in Seq(Formats) /\ Len(claimed \o batch) = Len(claimed) + Len(batch)
    BY <2>1, <2>2, ConcatProperties, Zenon
  <2> QED
    BY <2>1, <2>3, Zenon DEF batch
<1>3. channel \o claimed \in Seq(Formats) /\ Len(channel \o claimed) = Len(channel) + Len(claimed)
  BY ConcatProperties, Zenon DEF TypeOK
<1>4. channel # <<>> => /\ Head(channel) \in Formats /\ Tail(channel) \in Seq(Formats)
                        /\ Len(Tail(channel)) = Len(channel) - 1
  BY HeadTailProperties, Zenon DEF TypeOK
<1> QED
  BY <1>1, <1>2, <1>3, <1>4, Zenon

----------------------------------------------------------------------------
(* One lemma for each group of steps. *)

LEMMA InitEstablishes == Init => PoolInv
<1> SUFFICES ASSUME Init PROVE PoolInv
  BY Zenon
<1>1. worker \in [Workers -> WorkerStates]
  BY Zenon DEF Init, WorkerStates
<1>2. <<>> \in Seq(Formats) /\ Len(<<>>) = 0 /\ <<>> \in Seq(0..FormatCount)
  OBVIOUS
<1>3. TypeOK
  <2>1. dispatcher \in [Workers -> Seq(0..FormatCount)]
    BY <1>2, Zenon DEF Init
  <2>2. limit \in 0..QueueCapacity /\ first \in 0..CounterSize - 1 /\ offset \in 0..FormatCount
    BY PoolAssumption DEF Init
  <2> QED
    BY <1>1, <1>2, <2>1, <2>2, Zenon DEF Init, TypeOK
<1>4. \A i \in Workers : ~Serving(worker[i])
  BY WorkerRecords, Zenon DEF Init, Serving
<1> QED
  BY <1>2, <1>3, <1>4, PoolAssumption
     DEF Init, PoolInv, BatchFits, RoomIsSignalled, NothingRunsAfterReturn

(* Steps of the supervisor that leave the workers alone. *)
LEMMA LoopKeeps ==
    ASSUME PoolInv, Tick \/ Recovered \/ Notified \/ ClaimFails \/ ClaimEnds \/ SeeShutdown
                    \/ \E n \in 0..QueueCapacity : ClaimFormat(n)
    PROVE  PoolInv'
<1>0. TypeOK /\ Len(channel) <= QueueCapacity /\ Len(channel) \in Nat /\ Len(claimed) \in Nat
  BY LenProperties, Zenon DEF PoolInv, TypeOK
<1> USE DEF BatchFits, RoomIsSignalled, NothingRunsAfterReturn, Serving
<1>1. CASE Tick
  BY <1>0, <1>1, Zenon DEF TypeOK, PoolInv, Tick, poll
<1>2. CASE Recovered
  <2>1. TypeOK'
    BY <1>0, <1>2, Room, Zenon DEF TypeOK, Recovered
  <2> QED
    BY <1>0, <1>2, <2>1, Room, PoolAssumption DEF PoolInv, Recovered
<1>3. CASE Notified
  <2>1. TypeOK'
    BY <1>0, <1>3, Room, Zenon DEF TypeOK, Notified
  <2> QED
    BY <1>0, <1>3, <2>1, Room, PoolAssumption DEF PoolInv, Notified
<1>4. CASE ClaimFails \/ ClaimEnds
  <2>0. /\ supervisor = "claiming" /\ ~shutdown /\ channel' = channel \o claimed /\ supervisor' = "selecting"
        /\ UNCHANGED <<shutdown, result, limit, first, offset, claimed, permit, worker, dispatcher>>
    BY <1>4, Zenon DEF ClaimFails, ClaimEnds, Asking, poll
  <2>1. TypeOK'
    BY <1>0, <2>0, ClaimedBatch, Zenon DEF TypeOK
  <2>2. Len(channel') <= QueueCapacity
    BY <1>0, <2>0, ClaimedBatch, PoolAssumption DEF PoolInv, TypeOK
  <2> QED
    BY <2>0, <2>1, <2>2 DEF PoolInv
<1>5. CASE SeeShutdown
  BY <1>0, <1>5, Zenon DEF TypeOK, PoolInv, SeeShutdown, poll
<1>6. ASSUME NEW n \in 0..QueueCapacity, ClaimFormat(n)
      PROVE  PoolInv'
  <2>0. /\ supervisor = "claiming" /\ ~shutdown /\ offset < FormatCount /\ n <= limit - Len(claimed)
        /\ claimed' = claimed \o [k \in 1..n |-> Asked] /\ offset' = offset + 1
        /\ UNCHANGED <<shutdown, supervisor, result, limit, first, channel, permit, worker, dispatcher>>
    BY <1>6, Zenon DEF ClaimFormat, Asking
  <2>1. claimed' \in Seq(Formats) /\ Len(claimed') = Len(claimed) + n
    BY <1>0, <2>0, ClaimedBatch, PoolAssumption
  <2>2. offset' \in 0..FormatCount
    BY <1>0, <2>0, PoolAssumption DEF TypeOK
  <2>3. TypeOK'
    BY <1>0, <2>0, <2>1, <2>2, Zenon DEF TypeOK
  <2>4. Len(claimed') <= limit
    BY <1>0, <2>0, <2>1, PoolAssumption DEF TypeOK
  <2> QED
    BY <2>0, <2>3, <2>4, Zenon DEF PoolInv
<1> QED
  BY <1>1, <1>2, <1>3, <1>4, <1>5, <1>6, Zenon

(* One worker changes its state, and nothing else but the permit: the      *)
(* supervisor is not told that the runtime has ended.                      *)
LEMMA WorkerKeeps ==
    ASSUME PoolInv, NEW i \in Workers, NEW w \in WorkerStates,
           worker' = [worker EXCEPT ![i] = w],
           Serving(w) => dispatcher[i] = FormatList,
           worker[i].state = "received" => permit',
           worker[i].state \in {"exited", "aborting", "replaced"} \/ Serving(worker[i]),
           worker[i] = Aborting => w = Joined,
           permit' \in BOOLEAN, permit => permit',
           UNCHANGED <<shutdown, supervisor, result, limit, first, offset, claimed, channel, dispatcher>>
    PROVE  PoolInv'
<1> USE DEF BatchFits, RoomIsSignalled, NothingRunsAfterReturn
<1>1. worker \in [Workers -> WorkerStates] /\ worker'[i] = w
      /\ \A j \in Workers : j # i => worker'[j] = worker[j]
  BY Zenon DEF PoolInv, TypeOK
<1>2. TypeOK'
  BY Zenon DEF PoolInv, TypeOK
<1>3. worker[i] # Joined
  BY WorkerRecords, Zenon DEF Serving
<1>4. supervisor \notin {"building", "starting", "returned"}
  BY <1>3, Zenon DEF PoolInv
<1>5. supervisor = "panicked" => worker[i] = Aborting
  BY <1>3, Zenon DEF PoolInv
<1>6. NothingRunsAfterReturn'
  BY <1>1, <1>4, <1>5, Zenon DEF PoolInv
<1>7. RoomIsSignalled'
  <2> SUFFICES ASSUME supervisor = "selecting", limit = 0, Len(channel) < QueueCapacity
               PROVE  permit' \/ \E j \in Workers : worker'[j].state = "received"
    BY Zenon
  <2>1. permit \/ \E j \in Workers : worker[j].state = "received"
    BY Zenon DEF PoolInv
  <2> QED
    BY <1>1, <2>1, Zenon
<1>8. \A j \in Workers : Serving(worker'[j]) => dispatcher[j] = FormatList
  BY <1>1, Zenon DEF PoolInv
<1> QED
  BY <1>2, <1>4, <1>6, <1>7, <1>8, Zenon DEF PoolInv

LEMMA WorkersKeep ==
    ASSUME PoolInv, NEW i \in Workers, Advance(i) \/ HandlerEnds(i)
    PROVE  PoolInv'
<1>0. worker[i] \in WorkerStates /\ permit \in BOOLEAN /\ channel \in Seq(Formats)
      /\ Idle \in WorkerStates /\ Exited \in WorkerStates /\ Joined \in WorkerStates
      /\ TypeOK /\ (Serving(worker[i]) => dispatcher[i] = FormatList)
  BY Zenon DEF PoolInv, TypeOK, WorkerStates
<1>1. CASE Receive(i)
  <2>0. /\ worker[i] = Idle /\ ~shutdown /\ channel # <<>>
        /\ worker' = [worker EXCEPT ![i] = Received(Head(channel))] /\ channel' = Tail(channel)
        /\ UNCHANGED <<shutdown, supervisor, result, limit, first, offset, claimed, permit, dispatcher>>
    BY <1>1, Zenon DEF Receive, poll
  <2>1. /\ Head(channel) \in Formats /\ channel' \in Seq(Formats) /\ Len(channel') = Len(channel) - 1
        /\ Len(channel) \in Nat
    BY <1>0, <2>0, ClaimedBatch, LenProperties, Zenon
  <2>2. worker' \in [Workers -> WorkerStates] /\ worker'[i] = Received(Head(channel))
        /\ \A j \in Workers : j # i => worker'[j] = worker[j]
    BY <2>0, <2>1, Zenon DEF PoolInv, TypeOK, WorkerStates
  <2>3. TypeOK'
    BY <2>0, <2>1, <2>2, Zenon DEF PoolInv, TypeOK
  <2>4. supervisor \notin {"building", "starting", "returned", "panicked"}
    BY <2>0, WorkerRecords, Zenon DEF PoolInv, NothingRunsAfterReturn
  <2>5. worker'[i].state = "received" /\ dispatcher[i] = FormatList
    BY <1>0, <2>0, <2>2, WorkerRecords, Zenon DEF Serving
  <2>6. Len(channel') <= QueueCapacity
    BY <2>1, PoolAssumption DEF PoolInv
  <2>7. BatchFits'
    BY <2>0, <2>1, PoolAssumption DEF PoolInv, BatchFits, TypeOK
  <2>8. \A j \in Workers : Serving(worker'[j]) => dispatcher'[j] = FormatList
    BY <2>0, <2>2, <2>5, Zenon DEF PoolInv
  <2> QED
    BY <2>0, <2>3, <2>4, <2>5, <2>6, <2>7, <2>8, Zenon DEF PoolInv, RoomIsSignalled, NothingRunsAfterReturn
<1>2. CASE Start(i)
  <2> DEFINE w == IF shutdown THEN Exited ELSE Running(worker[i].task)
  <2>1. worker[i].state = "received" /\ worker' = [worker EXCEPT ![i] = w] /\ permit' = TRUE
        /\ UNCHANGED <<shutdown, supervisor, result, limit, first, offset, claimed, channel, dispatcher>>
    BY <1>0, <1>2, Zenon DEF Start, poll, PoolInv, TypeOK
  <2>2. w \in WorkerStates /\ w.state \in {"exited", "running"}
    BY <1>0, <2>1, WorkerRecords, Zenon DEF WorkerStates
  <2>3. Serving(worker[i]) /\ worker[i] # Aborting
    BY <2>1, WorkerRecords, Zenon DEF Serving
  <2> HIDE DEF w
  <2> QED
    BY <1>0, <2>1, <2>2, <2>3, WorkerKeeps, Zenon
<1>3. CASE Complete(i) \/ Panic(i) \/ Stop(i)
  <2>1. PICK w \in {Idle, Exited} : /\ worker' = [worker EXCEPT ![i] = w]
          /\ UNCHANGED <<shutdown, supervisor, result, limit, first, offset, claimed, channel, permit, dispatcher>>
    BY <1>3, Zenon DEF Complete, Panic, Stop, poll
  <2>2. worker[i].state \in {"idle", "running"}
    BY <1>3, WorkerRecords, Zenon DEF Complete, Panic, Stop
  <2>3. Serving(worker[i]) /\ worker[i] # Aborting /\ w.state \in {"idle", "exited"}
    BY <2>1, <2>2, WorkerRecords, Zenon DEF Serving
  <2> QED
    BY <1>0, <2>1, <2>2, <2>3, WorkerKeeps, Zenon
<1>4. CASE Aborted(i)
  <2>1. worker[i] = Aborting /\ worker' = [worker EXCEPT ![i] = Joined]
        /\ UNCHANGED <<shutdown, supervisor, result, limit, first, offset, claimed, channel, permit, dispatcher>>
    BY <1>4, Zenon DEF Aborted, poll
  <2> QED
    BY <1>0, <2>1, WorkerRecords, WorkerKeeps, Zenon DEF Serving
<1> QED
  BY <1>1, <1>2, <1>3, <1>4, Zenon DEF Advance, HandlerEnds

(* The pool is built, spawned and drained. *)
LEMMA PrepareGivesFormats ==
    ASSUME NEW built \in [Workers -> FactoryResults], built[0].error = "Ok" => built[0].formats = FormatList,
           Prepare(built, 0) = "Ok"
    PROVE  \A i \in Workers : built[i].formats = FormatList
<1>1. 0 \in Workers /\ DOMAIN built = Workers
  BY PoolAssumption DEF Workers
<1>2. built[0].formats = FormatList
  BY Zenon DEF Prepare
<1>3. \A i \in Workers : BuildCheckedDispatcher(built[i], built[0].formats) = "Ok"
  BY <1>1, Zenon DEF Prepare
<1> QED
  BY <1>2, <1>3, Zenon DEF BuildCheckedDispatcher

LEMMA AllAborted ==
    /\ AbortAll \in [Workers -> WorkerStates]
    /\ \A i \in Workers : AbortAll[i] \in {Aborting, Joined} /\ ~Serving(AbortAll[i])
  BY WorkerRecords, Zenon DEF AbortAll, WorkerStates, Serving

LEMMA LifeKeeps ==
    ASSUME PoolInv, Build \/ Begin \/ DrainTimesOut \/ DrainEnds \/ Cancel
    PROVE  PoolInv'
<1> USE DEF BatchFits, RoomIsSignalled, NothingRunsAfterReturn
<1>1. CASE Build
  <2>0. supervisor = "building" /\ UNCHANGED <<limit, first, offset, claimed, channel, permit, worker>>
        /\ \A i \in Workers : worker[i] = Joined /\ ~Serving(worker[i])
    BY <1>1, WorkerRecords, Zenon DEF Build, poll, PoolInv, Serving
  <2>1. CASE shutdown
    BY <1>1, <2>0, <2>1, Zenon DEF Build, PoolInv, TypeOK
  <2>2. CASE ~shutdown
    <3>1. PICK built \in [Workers -> FactoryResults] :
              /\ built[0].error = "Ok" => built[0].formats = FormatList
              /\ IF Prepare(built, 0) = "Ok"
                 THEN /\ supervisor' = "starting" /\ UNCHANGED <<shutdown, result>>
                      /\ dispatcher' = [i \in Workers |-> built[i].formats]
                 ELSE /\ supervisor' = "returned" /\ shutdown' = TRUE /\ result' = "WorkerSetup"
                      /\ UNCHANGED dispatcher
      BY <1>1, <2>2, Zenon DEF Build
    <3>2. CASE Prepare(built, 0) = "Ok"
      <4>1. \A i \in Workers : dispatcher'[i] = FormatList
        BY <3>1, <3>2, PrepareGivesFormats, Zenon
      <4>2. dispatcher' \in [Workers -> Seq(0..FormatCount)]
        BY <3>1, <3>2, FactoryFormats, Zenon
      <4> QED
        BY <2>0, <3>1, <3>2, <4>1, <4>2, Zenon DEF PoolInv, TypeOK
    <3>3. CASE Prepare(built, 0) # "Ok"
      BY <2>0, <3>1, <3>3, Zenon DEF PoolInv, TypeOK
    <3> QED
      BY <3>2, <3>3, Zenon
  <2> QED
    BY <2>1, <2>2, Zenon
<1>2. CASE Begin
  <2>0. supervisor = "starting" /\ limit > 0
        /\ UNCHANGED <<shutdown, limit, first, offset, claimed, channel, permit, dispatcher>>
        /\ \A i \in Workers : worker[i] = Joined /\ dispatcher[i] = FormatList
    BY <1>2, Zenon DEF Begin, poll, PoolInv
  <2>1. CASE shutdown
    BY <1>2, <2>0, <2>1, Zenon DEF Begin, PoolInv, TypeOK
  <2>2. CASE ~shutdown
    <3>1. worker' \in [Workers -> WorkerStates] /\ supervisor' = "selecting" /\ UNCHANGED result
      BY <1>2, <2>2, Zenon DEF Begin, WorkerStates
    <3> QED
      BY <2>0, <3>1 DEF PoolInv, TypeOK
  <2> QED
    BY <2>1, <2>2
<1>3. CASE DrainEnds
  BY <1>3, Zenon DEF PoolInv, TypeOK, DrainEnds, poll
<1>4. CASE DrainTimesOut
  <2>1. /\ supervisor = "draining" /\ supervisor' = "aborting" /\ worker' = AbortAll
        /\ UNCHANGED <<shutdown, result, limit, first, offset, claimed, channel, permit, dispatcher>>
    BY <1>4, Zenon DEF DrainTimesOut, poll
  <2> QED
    BY <2>1, AllAborted, Zenon DEF PoolInv, TypeOK
<1>5. CASE Cancel
  BY <1>5 DEF PoolInv, TypeOK, Cancel, poll
<1> QED
  BY <1>1, <1>2, <1>3, <1>4, <1>5, Zenon

(* A worker has exited. *)
LEMMA ReplacementKeeps ==
    ASSUME PoolInv, NEW i \in Workers,
           TakeExit(i) \/ Join(i) \/ FactoryPanics(i) \/ \E built \in FactoryResults : Rebuild(i, built)
    PROVE  PoolInv'
<1>0. /\ TypeOK /\ worker \in [Workers -> WorkerStates] /\ Len(channel) <= QueueCapacity
      /\ {Idle, Joined, Replaced, Aborting} \subseteq WorkerStates
      /\ \A j \in Workers : Serving(worker[j]) => dispatcher[j] = FormatList
  BY Zenon DEF PoolInv, TypeOK, WorkerStates
<1>1. CASE Join(i)
  <2>1. worker[i] = Exited /\ worker' = [worker EXCEPT ![i] = Joined]
        /\ UNCHANGED <<shutdown, supervisor, result, limit, first, offset, claimed, channel, permit, dispatcher>>
    BY <1>1, Zenon DEF Join, poll
  <2> QED
    BY <1>0, <2>1, WorkerRecords, WorkerKeeps, Zenon DEF Serving, TypeOK
<1>2. CASE TakeExit(i)
  <2>1. /\ supervisor = "selecting" /\ supervisor' = "rebuilding" /\ worker' = [worker EXCEPT ![i] = Replaced]
        /\ UNCHANGED <<shutdown, result, limit, first, offset, claimed, channel, permit, dispatcher>>
    BY <1>2, Zenon DEF TakeExit, poll
  <2>2. \A j \in Workers : worker'[j] \in {worker[j], Replaced}
    BY <1>0, <2>1, Zenon
  <2>3. \A j \in Workers : Serving(worker'[j]) => dispatcher'[j] = FormatList
    BY <1>0, <2>1, <2>2, WorkerRecords, Zenon DEF Serving
  <2>4. TypeOK'
    BY <1>0, <2>1, Zenon DEF TypeOK
  <2> QED
    BY <2>1, <2>3, <2>4, Zenon DEF PoolInv, BatchFits, RoomIsSignalled, NothingRunsAfterReturn
<1>3. CASE FactoryPanics(i)
  <2>1. /\ supervisor' = "panicked" /\ shutdown' = TRUE /\ result' = "Panicked"
        /\ worker' = AbortAll /\ UNCHANGED <<limit, first, offset, claimed, channel, permit, dispatcher>>
    BY <1>3, Zenon DEF FactoryPanics, poll
  <2>2. worker' \in [Workers -> WorkerStates]
        /\ \A j \in Workers : worker'[j] \in {Aborting, Joined} /\ ~Serving(worker'[j])
    BY <2>1, AllAborted, Zenon
  <2>3. TypeOK'
    BY <1>0, <2>1, <2>2, Zenon DEF TypeOK
  <2> QED
    BY <1>0, <2>1, <2>2, <2>3, Zenon DEF PoolInv, BatchFits, RoomIsSignalled, NothingRunsAfterReturn
<1>4. ASSUME NEW built \in FactoryResults, Rebuild(i, built)
      PROVE  PoolInv'
  <2>0. supervisor = "rebuilding" /\ UNCHANGED <<channel, permit>>
    BY <1>4, Zenon DEF Rebuild
  <2>1. CASE BuildCheckedDispatcher(built, FormatList) = "Ok" /\ ~shutdown
    <3>1. /\ worker' = [worker EXCEPT ![i] = Idle] /\ dispatcher' = [dispatcher EXCEPT ![i] = FormatList]
          /\ LookForRoom /\ UNCHANGED <<shutdown, result>>
      BY <1>4, <2>1, Zenon DEF Rebuild, BuildCheckedDispatcher
    <3>2. worker' \in [Workers -> WorkerStates] /\ dispatcher' \in [Workers -> Seq(0..FormatCount)]
      BY <1>0, <3>1, FormatListRoutes, Zenon DEF TypeOK
    <3>3. TypeOK'
      BY <1>0, <2>0, <3>1, <3>2, Room, Zenon DEF TypeOK
    <3>4. \A j \in Workers : Serving(worker'[j]) => dispatcher'[j] = FormatList
      BY <1>0, <3>1, Zenon DEF TypeOK
    <3> QED
      BY <1>0, <2>0, <2>1, <3>1, <3>3, <3>4, Room, PoolAssumption, LenProperties
         DEF PoolInv, BatchFits, RoomIsSignalled, NothingRunsAfterReturn
  <2>2. CASE BuildCheckedDispatcher(built, FormatList) # "Ok" \/ shutdown
    <3>1. /\ worker' = [worker EXCEPT ![i] = Joined] /\ supervisor' = "draining" /\ shutdown' = TRUE
          /\ result' \in {"Ok", "WorkerSetup"} /\ UNCHANGED <<limit, first, offset, claimed, dispatcher>>
      BY <1>0, <1>4, <2>2, Zenon DEF Rebuild, poll, TypeOK
    <3>2. worker' \in [Workers -> WorkerStates]
      BY <1>0, <3>1, Zenon
    <3>3. TypeOK'
      BY <1>0, <2>0, <3>1, <3>2, Zenon DEF TypeOK
    <3>4. \A j \in Workers : Serving(worker'[j]) => dispatcher'[j] = FormatList
      BY <1>0, <3>1, WorkerRecords, Zenon DEF Serving
    <3> QED
      BY <1>0, <2>0, <3>1, <3>3, <3>4, Zenon DEF PoolInv, BatchFits, RoomIsSignalled, NothingRunsAfterReturn
  <2> QED
    BY <2>1, <2>2, Zenon
<1> QED
  BY <1>1, <1>2, <1>3, <1>4, Zenon

LEMMA SuperviseKeeps == PoolInv /\ Supervise => PoolInv'
  BY LifeKeeps, LoopKeeps, ReplacementKeeps, Zenon DEF Supervise

LEMMA StepKeeps == PoolInv /\ [Next]_vars => PoolInv'
<1> SUFFICES ASSUME PoolInv, [Next]_vars PROVE PoolInv'
  BY Zenon
<1>1. CASE UNCHANGED vars
  BY <1>1 DEF vars, PoolInv, TypeOK, BatchFits, RoomIsSignalled, NothingRunsAfterReturn
<1> QED
  BY <1>1, LifeKeeps, SuperviseKeeps, WorkersKeep, Zenon DEF Next

----------------------------------------------------------------------------
(* The invariant holds in every state the runtime reaches.                 *)
THEOREM PoolInvariant == Spec => []PoolInv
  BY InitEstablishes, StepKeeps, PTL DEF Spec

(* Every variable keeps its type; in particular the poller's counter wraps *)
(* and a claim never gets more than it asked for.                          *)
THEOREM TypeCorrect == Spec => []TypeOK
<1>1. PoolInv => TypeOK
  BY Zenon DEF PoolInv
<1> QED
  BY <1>1, PoolInvariant, PTL

(* A batch always fits the channel: the assertions of run_prepared hold.   *)
THEOREM BatchesFit == Spec => []BatchFits
<1>1. PoolInv => BatchFits
  BY Zenon DEF PoolInv
<1> QED
  BY <1>1, PoolInvariant, PTL

(* Room in the channel that the supervisor waits for is signalled to it.   *)
THEOREM RoomIsAlwaysSignalled == Spec => []RoomIsSignalled
<1>1. PoolInv => RoomIsSignalled
  BY Zenon DEF PoolInv
<1> QED
  BY <1>1, PoolInvariant, PTL

(* When run has returned no worker is left that could run or settle.       *)
THEOREM NoneRunAfterReturn == Spec => []NothingRunsAfterReturn
<1>1. PoolInv => NothingRunsAfterReturn
  BY Zenon DEF PoolInv
<1> QED
  BY <1>1, PoolInvariant, PTL

(* A worker can always route the task it runs, whatever the factory does.  *)
THEOREM RunningTasksAreRouted == Spec => []ClaimedTasksAreRouted
<1>1. PoolInv => ClaimedTasksAreRouted
  <2> SUFFICES ASSUME PoolInv, NEW i \in Workers, worker[i].state = "running"
               PROVE  Dispatched(dispatcher[i], worker[i].task) = "handled"
    BY Zenon DEF ClaimedTasksAreRouted
  <2>1. dispatcher[i] = FormatList /\ worker[i] \in WorkerStates
    BY Zenon DEF PoolInv, TypeOK, Serving
  <2> QED
    BY <2>1, WorkerRecords, FormatListRoutes, Zenon
<1> QED
  BY <1>1, PoolInvariant, PTL

(* After the token is cancelled no worker starts a task.                   *)
THEOREM NoneStartAfterStop == Spec => NothingStartsAfterStop
<1> DEFINE Starts == \A i \in Workers : worker'[i].state = "running" => worker[i].state = "running"
<1>1. ASSUME PoolInv, Next, shutdown
      PROVE  Starts
  <2>0. worker \in [Workers -> WorkerStates]
    BY <1>1, Zenon DEF PoolInv, TypeOK
  <2>1. CASE Build \/ Cancel
    BY <2>1, Zenon DEF Build, Cancel
  <2>2. CASE Supervise
    BY <1>1, <2>0, <2>2, WorkerRecords, ZenonT(60)
       DEF Supervise, Begin, TakeExit, FactoryPanics, Join, Rebuild, Tick, Recovered, Notified,
           ClaimFormat, ClaimFails, ClaimEnds, SeeShutdown, DrainTimesOut, AbortAll, DrainEnds
  <2>3. ASSUME NEW i \in Workers, Advance(i) \/ HandlerEnds(i)
        PROVE  Starts
    BY <1>1, <2>0, <2>3, WorkerRecords, Zenon DEF Advance, Receive, Start, Stop, HandlerEnds, Aborted, Complete, Panic
  <2> QED
    BY <1>1, <2>1, <2>2, <2>3, Zenon DEF Next
<1>2. ASSUME PoolInv, [Next]_vars
      PROVE  [shutdown => Starts]_vars
  BY <1>1, <1>2, Zenon
<1> QED
  BY <1>2, PoolInvariant, PTL DEF Spec, NothingStartsAfterStop

----------------------------------------------------------------------------
(* The service. *)

RuntimeFailures == {"WorkerSetup", "Panicked"}

(* The supervisor has left its loop. *)
Ending == {"draining", "aborting", "returned", "panicked"}

(* The inductive invariant of the service, on that of the pool. Until the  *)
(* service runs, the runtime has not begun. While the host has seen no     *)
(* reason to stop, only a failure of the runtime can have cancelled the    *)
(* token; a failure is never replaced by Ok, since the supervisor does     *)
(* nothing but drain after it.                                             *)
ServiceInv ==
    /\ PoolInv /\ CleanStopOnlyOnSignal
    /\ signal \in {"waiting", "ok", "failed"} /\ inbound \in {"closed", "serving", "ok", "failed"}
    /\ branch \in 1..4 /\ reason \in {"none", "signal", "requested", "inbound", "runtime"}
    /\ startup # "running" => supervisor = "building" /\ inbound = "closed" /\ reason = "none"
    /\ startup = "running" => supervisor # "building" /\ inbound # "closed"
    /\ startup = "binding" => \A i \in Workers : dispatcher[i] = FormatList
    /\ startup \notin {"running", "failed"} => outcome = "none"
    /\ startup = "failed" => outcome # "none"
    /\ startup = "running" /\ outcome # "none" => inbound # "serving" /\ RuntimeEnded
    /\ connections = "closed" => outcome # "none"
    /\ reason = "none" /\ shutdown => result \in RuntimeFailures
    /\ reason = "requested" => result \in RuntimeFailures
    /\ reason = "signal" => signal # "waiting"
    /\ result \in RuntimeFailures => supervisor \in Ending
    /\ supervisor \in Ending => result # "none"

(* What a step of the supervisor does to token and result. *)
LEMMA SuperviseEffects ==
    ASSUME PoolInv, Supervise
    PROVE  /\ supervisor \notin {"building", "returned", "panicked"} /\ supervisor' # "building"
           /\ \/ /\ UNCHANGED <<result, shutdown>>
                 /\ supervisor' \in Ending <=> supervisor \in Ending
              \/ /\ result' = "Ok" /\ shutdown /\ UNCHANGED shutdown /\ supervisor \notin Ending
                 /\ supervisor' \in {"draining", "returned"}
              \/ result' \in RuntimeFailures /\ shutdown' /\ supervisor' \in {"draining", "panicked"}
<1> USE DEF RuntimeFailures, Ending
<1>0. TypeOK /\ Len(channel) <= QueueCapacity
  BY Zenon DEF PoolInv
<1>1. CASE Begin \/ Tick \/ ClaimFails \/ ClaimEnds \/ SeeShutdown \/ DrainTimesOut \/ DrainEnds
  BY <1>1, Zenon DEF Begin, Tick, ClaimFails, ClaimEnds, SeeShutdown, DrainTimesOut, DrainEnds, Asking
<1>2. CASE Recovered \/ Notified
  BY <1>0, <1>2, Room, Zenon DEF Recovered, Notified
<1>3. ASSUME NEW n \in 0..QueueCapacity, ClaimFormat(n)
      PROVE  supervisor = "claiming" /\ UNCHANGED <<result, shutdown, supervisor>>
  BY <1>3, Zenon DEF ClaimFormat, Asking
<1>4. ASSUME NEW i \in Workers, TakeExit(i) \/ FactoryPanics(i) \/ Join(i)
      PROVE  \/ supervisor \in {"selecting", "draining"} /\ UNCHANGED <<result, shutdown>>
                /\ supervisor' = IF supervisor = "draining" THEN "draining" ELSE "rebuilding"
             \/ supervisor = "rebuilding" /\ result' = "Panicked" /\ shutdown' /\ supervisor' = "panicked"
  BY <1>4, Zenon DEF TakeExit, FactoryPanics, Join
<1>5. ASSUME NEW i \in Workers, NEW built \in FactoryResults, Rebuild(i, built)
      PROVE  supervisor = "rebuilding"
             /\ \/ supervisor' \in {"selecting", "claiming"} /\ UNCHANGED <<result, shutdown>>
                \/ result' = "Ok" /\ shutdown /\ UNCHANGED shutdown /\ supervisor' = "draining"
                \/ result' = "WorkerSetup" /\ shutdown' /\ supervisor' = "draining"
  BY <1>0, <1>5, Room, Zenon DEF Rebuild
<1> QED
  BY <1>1, <1>2, <1>3, <1>4, <1>5, Zenon DEF Supervise

(* A worker changes neither token nor supervisor. *)
LEMMA WorkerEffects ==
    ASSUME NEW i \in Workers, Advance(i) \/ HandlerEnds(i)
    PROVE  UNCHANGED <<shutdown, supervisor, result, dispatcher>>
  BY Zenon DEF Advance, Receive, Start, Stop, HandlerEnds, Aborted, Complete, Panic

LEMMA ServiceInitEstablishes == ServiceInit => ServiceInv
  BY InitEstablishes, PoolAssumption
     DEF ServiceInit, ServiceInv, Init, CleanStopOnlyOnSignal, RuntimeFailures, Ending

(* Start-up: the runtime's own state changes only by its preparation.      *)
LEMMA StartupKeeps == ServiceInv /\ Startup => ServiceInv'
<1> SUFFICES ASSUME ServiceInv, Startup PROVE ServiceInv'
  BY Zenon
<1>1. CASE LoadConfig \/ InstallLogger \/ ConnectPool
  <2>1. UNCHANGED <<vars, signal, inbound, branch, reason>>
        /\ startup \in {"configuration", "logging", "database"}
        /\ \/ startup' \in {"logging", "database", "preparation"} /\ UNCHANGED outcome
           \/ startup' = "failed" /\ outcome' \in {"Dotenv", "Configuration", "Logging", "Database"}
        /\ connections' \in {connections, "open"}
    BY <1>1, Zenon DEF LoadConfig, InstallLogger, ConnectPool, Proceed, Refuse
  <2>2. PoolInv'
    BY <2>1, StepKeeps, Zenon DEF ServiceInv
  <2> QED
    BY <2>1, <2>2, Zenon DEF ServiceInv, CleanStopOnlyOnSignal, vars, RuntimeEnded
<1>2. CASE PrepareTaskRuntime
  <2>1. /\ startup = "preparation" /\ UNCHANGED <<shutdown, supervisor, result, limit, first, offset, claimed>>
        /\ UNCHANGED <<channel, permit, worker, signal, inbound, branch, reason, connections>>
    BY <1>2, Zenon DEF PrepareTaskRuntime, poll
  <2>2. /\ dispatcher' \in [Workers -> Seq(0..FormatCount)]
        /\ \/ startup' = "binding" /\ UNCHANGED outcome /\ \A i \in Workers : dispatcher'[i] = FormatList
           \/ startup' = "failed" /\ outcome' = "TaskPreparation"
    <3>1. PICK built \in [Workers -> FactoryResults] :
              /\ built[0].error = "Ok" => built[0].formats = FormatList
              /\ \/ /\ Prepare(built, 0) = "Ok" /\ Proceed("binding")
                    /\ dispatcher' = [i \in Workers |-> built[i].formats]
                 \/ Prepare(built, 0) # "Ok" /\ Refuse("TaskPreparation") /\ UNCHANGED dispatcher
      BY <1>2, Zenon DEF PrepareTaskRuntime
    <3> QED
      BY <3>1, PrepareGivesFormats, FactoryFormats, ZenonT(60) DEF Proceed, Refuse, ServiceInv, PoolInv, TypeOK
  <2>3. \A i \in Workers : ~Serving(worker'[i])
    BY <2>1, WorkerRecords, Zenon DEF ServiceInv, PoolInv, Serving
  <2>4. PoolInv'
    BY <2>1, <2>2, <2>3, Zenon
       DEF ServiceInv, PoolInv, TypeOK, BatchFits, RoomIsSignalled, NothingRunsAfterReturn
  <2> QED
    BY <2>1, <2>2, <2>4, Zenon DEF ServiceInv, CleanStopOnlyOnSignal, RuntimeEnded
<1>3. CASE Bind
  <2>1. /\ startup = "binding" /\ UNCHANGED <<shutdown, result, limit, first, offset, claimed, channel>>
        /\ UNCHANGED <<permit, worker, dispatcher, signal, branch, reason, connections>>
        /\ \/ startup' = "running" /\ UNCHANGED outcome /\ inbound' = "serving" /\ supervisor' = "starting"
           \/ startup' = "failed" /\ outcome' = "Bind" /\ UNCHANGED <<inbound, supervisor>>
    BY <1>3, Zenon DEF Bind, Proceed, Refuse, poll
  <2>2. PoolInv'
    BY <2>1, Zenon DEF ServiceInv, PoolInv, TypeOK, BatchFits, RoomIsSignalled, NothingRunsAfterReturn
  <2> QED
    BY <2>1, <2>2, Zenon DEF ServiceInv, CleanStopOnlyOnSignal, RuntimeEnded, RuntimeFailures, Ending
<1> QED
  BY <1>1, <1>2, <1>3, Zenon DEF Startup

(* The task runtime, the signal and the HTTP server. *)
LEMMA RuntimeKeeps ==
    ASSUME ServiceInv, RuntimeStep(Supervise) \/ \E i \in Workers : RuntimeStep(Advance(i) \/ HandlerEnds(i))
    PROVE  ServiceInv'
<1>0. UNCHANGED hostVars /\ PoolInv
  BY Zenon DEF RuntimeStep, ServiceInv
<1>1. CASE Supervise
  <2>1. PoolInv'
    BY <1>0, <1>1, SuperviseKeeps, Zenon
  <2>2. startup = "running" /\ supervisor \notin {"building", "returned", "panicked"} /\ outcome = "none"
    BY <1>0, <1>1, SuperviseEffects, Zenon DEF ServiceInv, RuntimeEnded
  <2>3. supervisor' # "building" /\ UNCHANGED <<startup, connections, signal, inbound, branch, reason, outcome>>
    BY <1>0, <1>1, SuperviseEffects, Zenon DEF hostVars
  <2>4. CASE /\ UNCHANGED <<result, shutdown>>
             /\ supervisor' \in Ending <=> supervisor \in Ending
    BY <2>1, <2>2, <2>3, <2>4 DEF ServiceInv, CleanStopOnlyOnSignal, RuntimeEnded, RuntimeFailures, Ending
  <2>5. CASE /\ result' = "Ok" /\ shutdown /\ UNCHANGED shutdown /\ supervisor \notin Ending
             /\ supervisor' \in {"draining", "returned"}
    BY <2>1, <2>2, <2>3, <2>5, Zenon DEF ServiceInv, CleanStopOnlyOnSignal, RuntimeEnded, RuntimeFailures, Ending
  <2>6. CASE result' \in RuntimeFailures /\ shutdown' /\ supervisor' \in {"draining", "panicked"}
    BY <2>1, <2>2, <2>3, <2>6, Zenon DEF ServiceInv, CleanStopOnlyOnSignal, RuntimeEnded, RuntimeFailures, Ending
  <2> QED
    BY <1>0, <1>1, <2>4, <2>5, <2>6, SuperviseEffects, Zenon
<1>2. ASSUME NEW i \in Workers, Advance(i) \/ HandlerEnds(i)
      PROVE  ServiceInv'
  <2>1. PoolInv'
    BY <1>0, <1>2, WorkersKeep, Zenon
  <2> QED
    BY <1>0, <1>2, <2>1, WorkerEffects DEF ServiceInv, CleanStopOnlyOnSignal, hostVars, RuntimeEnded
<1> QED
  BY <1>1, <1>2, Zenon DEF RuntimeStep

LEMMA EnvironmentKeeps == ServiceInv /\ (SignalResolves \/ InboundEnds) => ServiceInv'
<1> SUFFICES ASSUME ServiceInv, SignalResolves \/ InboundEnds PROVE ServiceInv'
  BY Zenon
<1>1. UNCHANGED vars /\ PoolInv
  BY Zenon DEF SignalResolves, InboundEnds, ServiceInv
<1>2. PoolInv'
  BY <1>1, StepKeeps, Zenon
<1> QED
  BY <1>1, <1>2 DEF ServiceInv, CleanStopOnlyOnSignal, SignalResolves, InboundEnds, vars, RuntimeEnded

(* Cancelling the token keeps the invariant of the pool. *)
LEMMA CancelKeeps ==
    ASSUME PoolInv, shutdown' = TRUE,
           UNCHANGED <<supervisor, result, limit, first, offset, claimed, channel, permit, worker, dispatcher>>
    PROVE  PoolInv'
<1>1. TypeOK'
  BY Zenon DEF PoolInv, TypeOK
<1>2. BatchFits' /\ RoomIsSignalled'
  BY Zenon DEF PoolInv, BatchFits, RoomIsSignalled
<1>3. NothingRunsAfterReturn'
  BY Zenon DEF PoolInv, NothingRunsAfterReturn
<1>4. \A i \in Workers : Serving(worker[i])' => dispatcher'[i] = FormatList
  BY Zenon DEF PoolInv, Serving
<1> QED
  BY <1>1, <1>2, <1>3, <1>4, Zenon DEF PoolInv

(* What the host reports. *)
LEMMA HostKeeps == ServiceInv /\ Host => ServiceInv'
<1> SUFFICES ASSUME ServiceInv, Host PROVE ServiceInv'
  OBVIOUS
<1>1. CASE Observe
  <2>1. /\ startup = "running" /\ reason = "none"
        /\ UNCHANGED <<supervisor, result, limit, first, offset, claimed, channel, permit, worker, dispatcher>>
        /\ UNCHANGED <<startup, signal, inbound, outcome, connections>>
    BY <1>1, Zenon DEF Observe, poll
  <2>2. CASE Ready(Branches[branch])
    <3>1. reason' = Branches[branch] /\ shutdown' = TRUE /\ UNCHANGED branch
      BY <1>1, <2>2, Zenon DEF Observe
    <3>2. PoolInv'
      BY <2>1, <3>1, CancelKeeps, Zenon DEF ServiceInv
    <3>3. /\ reason' \in {"signal", "requested", "inbound", "runtime"}
          /\ reason' = "signal" => signal # "waiting"
          /\ reason' = "requested" => shutdown
      <4>0. branch \in 1..4
        BY Zenon DEF ServiceInv
      <4>1. CASE branch = 1
        BY <2>2, <3>1, <4>1, Zenon DEF Branches, Ready
      <4>2. CASE branch = 2
        BY <2>2, <3>1, <4>2, Zenon DEF Branches, Ready
      <4>3. CASE branch \in {3, 4}
        BY <3>1, <4>3 DEF Branches
      <4> QED
        BY <4>0, <4>1, <4>2, <4>3
    <3>4. outcome # "Ok"
      BY <2>1, Zenon DEF ServiceInv, CleanStopOnlyOnSignal
    <3> QED
      BY <2>1, <3>1, <3>2, <3>3, <3>4 DEF ServiceInv, CleanStopOnlyOnSignal, RuntimeEnded
  <2>3. CASE ~Ready(Branches[branch])
    <3>1. branch' = (branch % 4) + 1 /\ UNCHANGED <<reason, shutdown>>
      BY <1>1, <2>3, Zenon DEF Observe
    <3>2. branch' \in 1..4
      BY <3>1 DEF ServiceInv
    <3>3. PoolInv'
      BY <2>1, <3>1, StepKeeps, Zenon DEF ServiceInv, vars
    <3> QED
      BY <2>1, <3>1, <3>2, <3>3, Zenon DEF ServiceInv, CleanStopOnlyOnSignal, RuntimeEnded
  <2> QED
    BY <2>2, <2>3, Zenon
<1>2. CASE HostReturns
  <2>1. /\ reason # "none" /\ outcome = "none" /\ inbound # "serving" /\ RuntimeEnded
        /\ UNCHANGED <<vars, startup, signal, inbound, branch, reason, connections>>
        /\ outcome' = PreservePrimaryFailure(Primary, PreservePrimaryFailure(ExpectedRuntimeExit, ExpectedInboundExit))
    BY <1>2, Zenon DEF HostReturns
  <2>2. PoolInv' /\ startup = "running"
    BY <2>1, StepKeeps, Zenon DEF ServiceInv
  <2>3. result \in {"Ok", "WorkerSetup", "Panicked"} /\ inbound \in {"ok", "failed"}
    BY <2>1, <2>2, Zenon DEF ServiceInv, RuntimeEnded, PoolInv, TypeOK, Ending
  <2>4. /\ result = "Ok" => ExpectedRuntimeExit = "Ok"
        /\ result = "WorkerSetup" => ExpectedRuntimeExit = "TaskRuntime"
        /\ result = "Panicked" => ExpectedRuntimeExit = "TaskRuntimeJoin"
        /\ ExpectedInboundExit = IF inbound = "failed" THEN "Inbound" ELSE "Ok"
    BY Zenon DEF ExpectedRuntimeExit, ExpectedInboundExit
  <2>5. Primary = "Ok" => (reason = "signal" /\ signal # "failed") \/ reason = "requested"
    BY <2>1, <2>3, <2>4, Zenon DEF ServiceInv, Primary, SignalFailure, UnexpectedRuntimeExit
  <2>6. outcome' = "Ok" => reason = "signal" /\ signal = "ok" /\ inbound = "ok" /\ result = "Ok"
    BY <2>1, <2>3, <2>4, <2>5, Zenon DEF ServiceInv, PreservePrimaryFailure, RuntimeFailures
  <2>7. outcome' # "none"
    BY <2>1, <2>3, <2>4, Zenon DEF ServiceInv, PreservePrimaryFailure, Primary, SignalFailure, UnexpectedRuntimeExit
  <2> QED
    BY <2>1, <2>2, <2>6, <2>7, Zenon DEF ServiceInv, CleanStopOnlyOnSignal, vars, RuntimeEnded
<1>3. CASE ClosePool
  <2>1. outcome # "none" /\ UNCHANGED <<vars, startup, signal, inbound, branch, reason, outcome>>
    BY <1>3, Zenon DEF ClosePool
  <2>2. PoolInv'
    BY <2>1, StepKeeps, Zenon DEF ServiceInv
  <2> QED
    BY <2>1, <2>2, Zenon DEF ServiceInv, CleanStopOnlyOnSignal, vars, RuntimeEnded
<1> QED
  BY <1>1, <1>2, <1>3, Zenon DEF Host

LEMMA ServiceStepKeeps == ServiceInv /\ [ServiceNext]_serviceVars => ServiceInv'
<1> SUFFICES ASSUME ServiceInv, [ServiceNext]_serviceVars PROVE ServiceInv'
  OBVIOUS
<1>1. CASE UNCHANGED serviceVars
  <2>1. UNCHANGED vars /\ UNCHANGED hostVars
    BY <1>1, Zenon DEF serviceVars
  <2>2. PoolInv'
    BY <2>1, StepKeeps, Zenon DEF ServiceInv
  <2> QED
    BY <2>1, <2>2 DEF ServiceInv, CleanStopOnlyOnSignal, vars, hostVars, RuntimeEnded
<1> QED
  BY <1>1, StartupKeeps, RuntimeKeeps, EnvironmentKeeps, HostKeeps, Zenon DEF ServiceNext

----------------------------------------------------------------------------
THEOREM ServiceInvariant == ServiceSpec => []ServiceInv
  BY ServiceInitEstablishes, ServiceStepKeeps, PTL DEF ServiceSpec

(* The connection pool is closed only after every user of it is gone.      *)
THEOREM PoolsOutliveWork == ServiceSpec => []PoolOutlivesWork
<1>1. ServiceInv => PoolOutlivesWork
  BY Zenon DEF ServiceInv, PoolInv, NothingRunsAfterReturn, PoolOutlivesWork, RuntimeEnded
<1> QED
  BY <1>1, ServiceInvariant, PTL

(* A clean stop is reported only for a signal after which all ended well.  *)
THEOREM CleanStopsAreSignalled == ServiceSpec => []CleanStopOnlyOnSignal
<1>1. ServiceInv => CleanStopOnlyOnSignal
  BY Zenon DEF ServiceInv
<1> QED
  BY <1>1, ServiceInvariant, PTL
====
