--------------------------- MODULE Mission_proofs ---------------------------
(***************************************************************************)
(* Proofs about Mission, for any builds, any kind of queues, any number of *)
(* values, starts and workers: threads end before the pipelines they       *)
(* execute, queues join the pipelines they should, each value is in one    *)
(* place, and none overtakes another of the same source.                   *)
(***************************************************************************)
EXTENDS Mission, SequenceTheorems, FiniteSetTheorems, TLAPS

QueueType == [used : BOOLEAN, items : Seq(Values)]

Items == Values \union {None}

PCs == {"setup", "test", "execute", "source", "module", "sink", "done"}

(* The control thread and the threads of workers *)

\* The references that workers and pipelines hold lead somewhere.
Points ==
    /\ \A p \in DOMAIN pipelines : pipelines[p].from <= Len(queues) /\ pipelines[p].to <= Len(queues)
    /\ \A w \in DOMAIN workers : workers[w].pipeline <= Len(pipelines)

\* There is room for the workers that are still to be started.
Room ==
    /\ Len(pipelines) <= MaxWorkers
    /\ control.pc = "build" =>
         /\ control.i \in 1..Len(build) /\ control.i <= Len(pipelines) + 1 /\ starts >= 1
         /\ Len(workers) + Len(pipelines) + (Len(build) - control.i) + 1 <= MaxWorkers
    /\ control.pc = "start" =>
         /\ control.i \in 1..Len(pipelines) /\ starts >= 1
         /\ Len(workers) + control.i <= MaxWorkers

\* A thread holds a value only behind the source.
Hands == \A w \in DOMAIN workers : workers[w].pc \notin {"module", "sink"} => workers[w].item = None

\* Destruction joins the threads one after the other.
Joins ==
    /\ control.pc \in {"stop", "destroy", "join"} => control.i \in DOMAIN workers
    /\ control.pc \in {"destroy", "join"} =>
         \A w \in DOMAIN workers : w < control.i => workers[w].pc = "done"
    /\ NoThreadOutlivesPipelines

BasicInv == TypeOK /\ Points /\ Room /\ Hands /\ Joins

\* Another record takes the place of a worker's.
LEMMA Replaced ==
    ASSUME NEW ws \in Seq(WorkerType), NEW w \in DOMAIN ws, NEW r \in WorkerType,
           NEW new, new = [ws EXCEPT ![w] = r]
    PROVE  /\ new \in Seq(WorkerType) /\ Len(new) = Len(ws) /\ DOMAIN new = DOMAIN ws
           /\ new[w] = r /\ \A u \in DOMAIN ws : u # w => new[u] = ws[u]
OBVIOUS

\* What Goes does to workers.
Went(w, pc, item) ==
    /\ workers' \in Seq(WorkerType) /\ Len(workers') = Len(workers)
    /\ DOMAIN workers' = DOMAIN workers
    /\ workers'[w] = [workers[w] EXCEPT !.pc = pc, !.item = item]
    /\ workers'[w].pc = pc /\ workers'[w].item = item
    /\ workers'[w].pipeline = workers[w].pipeline
    /\ \A u \in DOMAIN workers : u # w => workers'[u] = workers[u]

\* What goes on in the thread of a worker leaves its pipeline and its flag alone.
LEMMA GoesOn ==
    ASSUME workers \in Seq(WorkerType), NEW w \in DOMAIN workers,
           NEW pc \in PCs,
           NEW item \in Items, Goes(w, pc, item)
    PROVE  Went(w, pc, item)
<1>1. workers[w] \in WorkerType /\ w \in 1..Len(workers) /\ Len(workers) \in Nat
  OBVIOUS
<1> DEFINE r == [workers[w] EXCEPT !.pc = pc, !.item = item]
<1>2. r \in WorkerType /\ r.pc = pc /\ r.item = item /\ r.pipeline = workers[w].pipeline
  BY <1>1 DEF WorkerType, Items, PCs
<1>3. workers' = [workers EXCEPT ![w] = r]
  BY DEF Goes
<1> HIDE DEF r
<1>4. workers' \in Seq(WorkerType) /\ Len(workers') = Len(workers) /\ workers'[w] = r
      /\ DOMAIN workers' = DOMAIN workers
      /\ \A u \in DOMAIN workers : u # w => workers'[u] = workers[u]
  BY <1>1, <1>2, <1>3
<1> QED BY <1>2, <1>4 DEF r, Went

\* What stop() does to a worker.
RaisesFlag(w) == workers' = [workers EXCEPT ![w].stop_flag = TRUE]

\* The same for the flag.
LEMMA Flagged ==
    ASSUME workers \in Seq(WorkerType), NEW w \in DOMAIN workers,
           RaisesFlag(w)
    PROVE  /\ workers' \in Seq(WorkerType) /\ Len(workers') = Len(workers)
           /\ DOMAIN workers' = DOMAIN workers
           /\ \A u \in DOMAIN workers : /\ workers'[u].pc = workers[u].pc
                                        /\ workers'[u].item = workers[u].item
                                        /\ workers'[u].pipeline = workers[u].pipeline
<1>1. workers[w] \in WorkerType /\ w \in 1..Len(workers) /\ Len(workers) \in Nat
  OBVIOUS
<1> DEFINE r == [workers[w] EXCEPT !.stop_flag = TRUE]
<1>2. r \in WorkerType /\ r.pc = workers[w].pc /\ r.item = workers[w].item /\ r.pipeline = workers[w].pipeline
  BY <1>1 DEF WorkerType
<1>3. workers' = [workers EXCEPT ![w] = r]
  BY DEF RaisesFlag
<1> HIDE DEF r
<1>4. workers' \in Seq(WorkerType) /\ Len(workers') = Len(workers) /\ workers'[w] = r
      /\ DOMAIN workers' = DOMAIN workers
      /\ \A u \in DOMAIN workers : u # w => workers'[u] = workers[u]
  BY <1>1, <1>2, <1>3, Replaced
<1>5. ASSUME NEW u \in DOMAIN workers
      PROVE  /\ workers'[u].pc = workers[u].pc
             /\ workers'[u].item = workers[u].item
             /\ workers'[u].pipeline = workers[u].pipeline
  <2>1. CASE u = w
    BY <2>1, <1>2, <1>4
  <2>2. CASE u # w
    BY <2>2, <1>4
  <2> QED BY <2>1, <2>2
<1> QED BY <1>4, <1>5

\* The last queue is handed out for the second time.
HandsOutLast(qs, r) ==
    /\ Len(qs) > 0 /\ ~qs[Len(qs)].used
    /\ Len(r) = Len(qs) /\ r[Len(r)].used /\ r[Len(r)].items = qs[Len(qs)].items
    /\ \A q \in 1..Len(qs) - 1 : r[q] = qs[q]

\* A new queue is handed out for the first time.
HandsOutNew(qs, r) ==
    /\ Len(qs) > 0 => qs[Len(qs)].used
    /\ Len(r) = Len(qs) + 1 /\ ~r[Len(r)].used /\ r[Len(r)].items = <<>>
    /\ \A q \in 1..Len(qs) : r[q] = qs[q]

\* The queue that is handed out is the last one.
LEMMA HandedOut ==
    ASSUME NEW qs \in Seq(QueueType), NEW r, r = GetOrCreateQueue(qs)
    PROVE  /\ r \in Seq(QueueType) /\ Len(r) \in Nat \ {0}
           /\ HandsOutLast(qs, r) \/ HandsOutNew(qs, r)
<1>1. Len(qs) \in Nat /\ (qs # <<>> <=> Len(qs) > 0) /\ Last(qs) = qs[Len(qs)]
  BY DEF Last
<1>2. CASE qs # <<>> /\ ~Last(qs).used
  <2>1. qs[Len(qs)] \in QueueType /\ Len(qs) \in DOMAIN qs
    BY <1>1, <1>2
  <2> DEFINE x == [qs[Len(qs)] EXCEPT !.used = TRUE]
  <2>2. x \in QueueType /\ x.used /\ x.items = qs[Len(qs)].items
    BY <2>1 DEF QueueType
  <2>3. GetOrCreateQueue(qs) = [qs EXCEPT ![Len(qs)] = x]
    BY <1>2 DEF GetOrCreateQueue
  <2> HIDE DEF x
  <2>4. r \in Seq(QueueType) /\ Len(r) = Len(qs) /\ r[Len(qs)] = x /\ \A q \in 1..Len(qs) - 1 : r[q] = qs[q]
    BY <1>1, <2>1, <2>2, <2>3
  <2> QED BY <1>1, <1>2, <2>2, <2>4 DEF HandsOutLast
<1>3. CASE ~(qs # <<>> /\ ~Last(qs).used)
  <2> DEFINE x == [used |-> FALSE, items |-> <<>>]
  <2>1. x \in QueueType /\ ~x.used /\ x.items = <<>>
    BY DEF QueueType
  <2>2. GetOrCreateQueue(qs) = Append(qs, x)
    BY <1>3 DEF GetOrCreateQueue
  <2> HIDE DEF x
  <2>3. r \in Seq(QueueType) /\ Len(r) = Len(qs) + 1 /\ r[Len(qs) + 1] = x /\ \A q \in 1..Len(qs) : r[q] = qs[q]
    BY <1>1, <2>1, <2>2
  <2> QED BY <1>1, <1>3, <2>1, <2>3 DEF HandsOutNew
<1> QED BY <1>2, <1>3

\* What is handed out keeps what it holds, and so do all other queues.
LEMMA HandingKeeps ==
    ASSUME NEW qs \in Seq(QueueType), NEW r, r = GetOrCreateQueue(qs)
    PROVE  /\ r \in Seq(QueueType) /\ Len(r) \in Nat \ {0} /\ Len(qs) <= Len(r)
           /\ \A q \in 1..Len(qs) : r[q].items = qs[q].items
           /\ \A q \in Len(qs) + 1 .. Len(r) : r[q].items = <<>>
<1>1. /\ r \in Seq(QueueType) /\ Len(r) \in Nat \ {0} /\ Len(qs) \in Nat
      /\ HandsOutLast(qs, r) \/ HandsOutNew(qs, r)
  BY HandedOut
<1>2. CASE HandsOutLast(qs, r)
  <2>1. Len(r) = Len(qs) /\ Len(qs) + 1 .. Len(r) = {}
    BY <1>1, <1>2 DEF HandsOutLast
  <2>2. \A q \in 1..Len(qs) : q = Len(qs) \/ q \in 1..Len(qs) - 1
    BY <1>1
  <2>3. \A q \in 1..Len(qs) : r[q].items = qs[q].items
    BY <1>2, <2>1, <2>2 DEF HandsOutLast
  <2> QED BY <1>1, <2>1, <2>3
<1>3. CASE HandsOutNew(qs, r)
  <2>1. Len(r) = Len(qs) + 1 /\ r[Len(r)].items = <<>>
    BY <1>3 DEF HandsOutNew
  <2>2. \A q \in Len(qs) + 1 .. Len(r) : q = Len(r)
    BY <1>1, <2>1
  <2>3. \A q \in Len(qs) + 1 .. Len(r) : r[q].items = <<>>
    BY <2>1, <2>2
  <2>4. \A q \in 1..Len(qs) : r[q].items = qs[q].items
    BY <1>3 DEF HandsOutNew
  <2> QED BY <1>1, <2>1, <2>3, <2>4
<1> QED BY <1>1, <1>2, <1>3

\* What add() does.
LEMMA AddKeeps ==
    ASSUME NEW qs \in Seq(QueueType), NEW ps \in Seq(PipelineType), NEW shape \in Shape
    PROVE  LET m == Add([queues |-> qs, pipelines |-> ps], shape)
               L == Len(ps)
           IN  /\ m.queues \in Seq(QueueType) /\ Len(qs) <= Len(m.queues) /\ Len(m.queues) \in Nat
               /\ \A q \in 1..Len(qs) : m.queues[q].items = qs[q].items
               /\ \A q \in Len(qs) + 1 .. Len(m.queues) : m.queues[q].items = <<>>
               /\ m.pipelines \in Seq(PipelineType) /\ Len(m.pipelines) = L + 1
               /\ \A p \in 1..L : m.pipelines[p] = ps[p]
               /\ m.pipelines[L + 1].from <= Len(m.queues) /\ m.pipelines[L + 1].to <= Len(m.queues)
<1> DEFINE forSource == IF shape.sources THEN qs ELSE GetOrCreateQueue(qs)
           forSink == IF shape.sinks THEN forSource ELSE GetOrCreateQueue(forSource)
           pipeline == [from |-> IF shape.sources THEN 0 ELSE Len(forSource),
                        module |-> shape.module,
                        to |-> IF shape.sinks THEN 0 ELSE Len(forSink)]
<1>1. Add([queues |-> qs, pipelines |-> ps], shape)
        = [queues |-> forSink, pipelines |-> Append(ps, pipeline)]
  BY DEF Add
<1>2. /\ forSource \in Seq(QueueType) /\ Len(qs) \in Nat /\ Len(qs) <= Len(forSource) /\ Len(forSource) \in Nat
      /\ \A q \in 1..Len(qs) : forSource[q].items = qs[q].items
      /\ \A q \in Len(qs) + 1 .. Len(forSource) : forSource[q].items = <<>>
  BY HandingKeeps
<1>3. /\ forSink \in Seq(QueueType) /\ Len(forSource) <= Len(forSink) /\ Len(forSink) \in Nat
      /\ \A q \in 1..Len(forSource) : forSink[q].items = forSource[q].items
      /\ \A q \in Len(forSource) + 1 .. Len(forSink) : forSink[q].items = <<>>
  <2> HIDE DEF forSource
  <2> QED BY <1>2, HandingKeeps
<1>4. pipeline.from <= Len(forSource) /\ pipeline.to <= Len(forSink) /\ pipeline \in PipelineType
  <2>1. shape.module \in BOOLEAN
    BY DEF Shape
  <2> HIDE DEF forSource, forSink
  <2> QED BY <1>2, <1>3, <2>1 DEF PipelineType
<1> HIDE DEF forSource, forSink, pipeline
<1>5. /\ Append(ps, pipeline) \in Seq(PipelineType) /\ Len(Append(ps, pipeline)) = Len(ps) + 1
      /\ \A p \in 1..Len(ps) : Append(ps, pipeline)[p] = ps[p]
      /\ Append(ps, pipeline)[Len(ps) + 1] = pipeline
  BY <1>4
<1>6. /\ forSink \in Seq(QueueType) /\ Len(qs) <= Len(forSink) /\ Len(forSink) \in Nat
      /\ \A q \in 1..Len(qs) : forSink[q].items = qs[q].items
      /\ \A q \in Len(qs) + 1 .. Len(forSink) : forSink[q].items = <<>>
  <2>1. \A q \in 1..Len(qs) : q \in 1..Len(forSource)
    BY <1>2
  <2>2. \A q \in Len(qs) + 1 .. Len(forSink) :
            q \in Len(qs) + 1 .. Len(forSource) \/ q \in Len(forSource) + 1 .. Len(forSink)
    BY <1>2, <1>3
  <2>3. \A q \in Len(qs) + 1 .. Len(forSource) : q \in 1..Len(forSource)
    BY <1>2
  <2>4. \A q \in 1..Len(qs) : forSink[q].items = qs[q].items
    BY <1>2, <1>3, <2>1
  <2>5. \A q \in Len(qs) + 1 .. Len(forSink) : forSink[q].items = <<>>
    BY <1>2, <1>3, <2>2, <2>3
  <2>6. Len(qs) <= Len(forSink)
    BY <1>2, <1>3
  <2> QED BY <1>3, <2>4, <2>5, <2>6
<1>7. pipeline.from <= Len(forSink) /\ pipeline.to <= Len(forSink)
  <2>1. pipeline.from \in Nat
    BY <1>4 DEF PipelineType
  <2> QED BY <1>2, <1>3, <1>4, <2>1
<1>8. PICK m : m = Add([queues |-> qs, pipelines |-> ps], shape)
  OBVIOUS
<1>9. m.queues = forSink /\ m.pipelines = Append(ps, pipeline)
  BY <1>1, <1>8
<1>10. /\ m.queues \in Seq(QueueType) /\ Len(qs) <= Len(m.queues) /\ Len(m.queues) \in Nat
       /\ \A q \in 1..Len(qs) : m.queues[q].items = qs[q].items
       /\ \A q \in Len(qs) + 1 .. Len(m.queues) : m.queues[q].items = <<>>
  BY <1>6, <1>9
<1>11. /\ m.pipelines \in Seq(PipelineType) /\ Len(m.pipelines) = Len(ps) + 1
       /\ \A p \in 1..Len(ps) : m.pipelines[p] = ps[p]
       /\ m.pipelines[Len(ps) + 1].from <= Len(m.queues) /\ m.pipelines[Len(ps) + 1].to <= Len(m.queues)
  BY <1>5, <1>7, <1>9
<1> QED BY <1>8, <1>10, <1>11

-----------------------------------------------------------------------------
(* BasicInv is an invariant *)

\* What TypeOK says of queues.
QueuesOK ==
    /\ queues \in Seq(QueueType)
    /\ queue_type # "STD_QUEUE" => \A q \in DOMAIN queues : Len(queues[q].items) <= Capacity

\* What TypeOK says of what has been made, received and lost.
LogsOK ==
    /\ made \in Seq(0..MaxValues) /\ Len(made) = Len(pipelines)
    /\ received \in Seq(Seq(Values)) /\ Len(received) = Len(pipelines)
    /\ lost \subseteq Values

\* A mission that is made has nothing yet.
LEMMA BasicInit == Init => BasicInv
<1> SUFFICES ASSUME Init PROVE BasicInv
  OBVIOUS
<1>1. TypeOK
  BY BoundsAssumption DEF Init, TypeOK, At
<1>2. Points /\ Room /\ Hands
  BY BoundsAssumption DEF Init, Points, Room, Hands, At
<1>3. Joins
  BY DEF Init, Joins, NoThreadOutlivesPipelines, At
<1> QED BY <1>1, <1>2, <1>3 DEF BasicInv

\* A thread goes on: what remains to be seen is what it does to the data.
LEMMA ThreadGoesKeeps ==
    ASSUME BasicInv, NEW w \in DOMAIN workers, NEW pc \in PCs, NEW item \in Items, Goes(w, pc, item),
           ThreadOnly, process' = process, workers[w].pc # "done",
           pc \notin {"module", "sink"} => item = None,
           QueuesOK', Len(queues') = Len(queues), LogsOK'
    PROVE  BasicInv'
<1>1. workers \in Seq(WorkerType)
  BY DEF BasicInv, TypeOK
<1>2. /\ workers' \in Seq(WorkerType) /\ Len(workers') = Len(workers)
      /\ DOMAIN workers' = DOMAIN workers
      /\ workers'[w].pc = pc /\ workers'[w].item = item
      /\ workers'[w].pipeline = workers[w].pipeline
      /\ \A u \in DOMAIN workers : u # w => workers'[u] = workers[u]
  <2>1. Went(w, pc, item)
    BY <1>1, GoesOn
  <2> QED BY <2>1 DEF Went
<1>3. TypeOK'
  BY <1>2 DEF BasicInv, TypeOK, QueuesOK, LogsOK, ThreadOnly, mission, QueueType
<1>4. Points'
  BY <1>2 DEF BasicInv, Points, ThreadOnly, mission
<1>5. Room'
  BY <1>2 DEF BasicInv, Room, ThreadOnly, mission
<1>6. Hands'
  BY <1>2 DEF BasicInv, Hands
<1>7. Joins'
  <2>1. control' = control
    BY DEF ThreadOnly
  <2>2. Joins
    BY DEF BasicInv
  <2>3. (control.pc \in {"destroy", "join"} => \A u \in DOMAIN workers' : u < control.i => workers'[u].pc = "done")
    BY <1>2, <2>2 DEF Joins
  <2>4. control.pc # "dead"
    BY <2>2 DEF Joins, NoThreadOutlivesPipelines
  <2> QED BY <1>2, <2>1, <2>2, <2>3, <2>4 DEF Joins, NoThreadOutlivesPipelines
<1> QED BY <1>3, <1>4, <1>5, <1>6, <1>7 DEF BasicInv

\* The process ends, or goes wrong.
LEMMA ProcessEndsKeeps ==
    ASSUME BasicInv, ThreadOnly, UNCHANGED <<data, workers>>, process' \in {"terminated", "undefined"}
    PROVE  BasicInv'
<1>1. TypeOK'
  BY DEF BasicInv, TypeOK, ThreadOnly, mission, data
<1>2. Points' /\ Room' /\ Hands' /\ Joins'
  BY DEF BasicInv, Points, Room, Hands, Joins, NoThreadOutlivesPipelines, ThreadOnly, mission, data
<1> QED BY <1>1, <1>2 DEF BasicInv

\* What the threads find when a pipeline is executed.
LEMMA WorkerAt ==
    ASSUME BasicInv, NEW w \in DOMAIN workers
    PROVE  /\ workers[w] \in WorkerType /\ workers[w].pipeline \in DOMAIN pipelines
           /\ workers[w].pipeline \in DOMAIN made /\ workers[w].pipeline \in DOMAIN received
           /\ workers[w].item \in Items /\ Pipe(w) \in PipelineType
           /\ Pipe(w).from # 0 => Pipe(w).from \in DOMAIN queues
           /\ Pipe(w).to # 0 => Pipe(w).to \in DOMAIN queues
           /\ queues \in Seq(QueueType) /\ pipelines \in Seq(PipelineType) /\ workers \in Seq(WorkerType)
<1>1. /\ workers \in Seq(WorkerType) /\ pipelines \in Seq(PipelineType) /\ queues \in Seq(QueueType)
      /\ Len(made) = Len(pipelines) /\ Len(received) = Len(pipelines)
      /\ made \in Seq(0..MaxValues) /\ received \in Seq(Seq(Values))
  BY DEF BasicInv, TypeOK, QueueType
<1>2. workers[w] \in WorkerType /\ workers[w].pipeline \in 1..MaxWorkers /\ workers[w].item \in Items
  <2>1. workers[w] \in WorkerType
    BY <1>1
  <2> QED BY <2>1 DEF WorkerType, Items
<1>3. workers[w].pipeline \in DOMAIN pipelines
  BY <1>1, <1>2, BoundsAssumption DEF BasicInv, Points
<1>4. Pipe(w) \in PipelineType /\ Pipe(w).from <= Len(queues) /\ Pipe(w).to <= Len(queues)
  BY <1>1, <1>3 DEF Pipe, BasicInv, Points
<1>5. Pipe(w).from \in Nat /\ Pipe(w).to \in Nat
  BY <1>4 DEF PipelineType
<1> QED BY <1>1, <1>2, <1>3, <1>4, <1>5

\* What is said of queues and logs holds on where they are left alone.
LEMMA DataStays ==
    ASSUME BasicInv, UNCHANGED data, UNCHANGED mission
    PROVE  QueuesOK' /\ Len(queues') = Len(queues) /\ LogsOK'
BY DEF BasicInv, TypeOK, QueuesOK, LogsOK, QueueType, data, mission

\* One queue is changed.
LEMMA QueueChanges ==
    ASSUME BasicInv, NEW q \in DOMAIN queues, NEW items \in Seq(Values),
           queue_type # "STD_QUEUE" => Len(items) <= Capacity,
           queues' = [queues EXCEPT ![q].items = items], queue_type' = queue_type
    PROVE  QueuesOK' /\ Len(queues') = Len(queues)
<1>1. queues \in Seq(QueueType) /\ q \in 1..Len(queues)
      /\ (queue_type # "STD_QUEUE" => \A r \in DOMAIN queues : Len(queues[r].items) <= Capacity)
  BY DEF BasicInv, TypeOK, QueueType
<1> DEFINE x == [queues[q] EXCEPT !.items = items]
<1>2. x \in QueueType /\ x.items = items
  <2>1. queues[q] \in QueueType
    BY <1>1
  <2> QED BY <2>1 DEF QueueType
<1>3. PICK new : new = queues'
  OBVIOUS
<1>4. new = [queues EXCEPT ![q] = x]
  BY <1>3
<1> HIDE DEF x
<1>5. new \in Seq(QueueType) /\ Len(new) = Len(queues) /\ DOMAIN new = DOMAIN queues
      /\ new[q] = x /\ \A r \in DOMAIN queues : r # q => new[r] = queues[r]
  BY <1>1, <1>2, <1>4
<1>6. queue_type # "STD_QUEUE" => \A r \in DOMAIN new : Len(new[r].items) <= Capacity
  BY <1>1, <1>2, <1>5
<1> QED BY <1>3, <1>5, <1>6 DEF QueuesOK

\* A thread's step keeps what a later step relies on.
LEMMA ThreadKeepsBasic ==
    ASSUME BasicInv, NEW w \in DOMAIN workers, ThreadNext(w)
    PROVE  BasicInv'
<1>0. /\ None \in Items /\ workers[w].item \in Items /\ Pipe(w) \in PipelineType
      /\ workers[w].pipeline \in DOMAIN made /\ workers[w].pipeline \in DOMAIN received
      /\ workers[w].pipeline \in 1..MaxWorkers
      /\ (Pipe(w).from # 0 => Pipe(w).from \in DOMAIN queues)
      /\ (Pipe(w).to # 0 => Pipe(w).to \in DOMAIN queues)
      /\ queues \in Seq(QueueType)
  BY WorkerAt DEF Items, WorkerType
<1>a. AfterSource(w) \in {"module", "sink"}
  BY DEF AfterSource
<1>b. QueuesOK /\ LogsOK
  BY DEF BasicInv, TypeOK, QueuesOK, LogsOK, QueueType
<1>1. CASE SetUp(w)
  <2>1. CASE Goes(w, "test", None) /\ UNCHANGED <<data, process>>
    BY <1>0, <1>1, <2>1, DataStays, ThreadGoesKeeps DEF SetUp, ThreadAt, ThreadOnly, PCs
  <2>2. CASE Terminates
    BY <1>1, <2>2, ProcessEndsKeeps DEF SetUp, Terminates
  <2> QED BY <1>1, <2>1, <2>2 DEF SetUp
<1>2. CASE SeeStop(w)
  BY <1>0, <1>2, DataStays, ThreadGoesKeeps DEF SeeStop, ThreadAt, ThreadOnly, PCs
<1>3. CASE SeeNoStop(w)
  BY <1>0, <1>3, DataStays, ThreadGoesKeeps DEF SeeNoStop, ThreadAt, ThreadOnly, PCs
<1>4. CASE Execute(w)
  <2>1. CASE Goes(w, "source", None) /\ UNCHANGED process
    BY <1>0, <1>4, <2>1, DataStays, ThreadGoesKeeps DEF Execute, ThreadAt, ThreadOnly, PCs
  <2>2. CASE process' = "undefined" /\ UNCHANGED workers
    BY <1>4, <2>2, ProcessEndsKeeps DEF Execute
  <2> QED BY <1>4, <2>1, <2>2 DEF Execute
<1>5. CASE OwnSource(w)
  <2> DEFINE p == workers[w].pipeline
  <2>1. /\ workers[w].pc # "done" /\ UNCHANGED <<queues, received, lost, process>> /\ ThreadOnly
        /\ UNCHANGED mission
    BY <1>5 DEF OwnSource, ThreadAt, ThreadOnly
  <2>2. QueuesOK' /\ Len(queues') = Len(queues)
    BY <1>b, <2>1 DEF QueuesOK, mission
  <2>3. CASE Goes(w, AfterSource(w), None) /\ UNCHANGED made
    <3>1. LogsOK'
      BY <1>b, <2>1, <2>3 DEF LogsOK, mission
    <3> QED BY <1>0, <1>a, <2>1, <2>2, <2>3, <3>1, ThreadGoesKeeps DEF PCs
  <2>4. CASE /\ made[p] < MaxValues
             /\ made' = [made EXCEPT ![p] = @ + 1]
             /\ Goes(w, AfterSource(w), <<p, made[p] + 1>>)
    <3>1. made[p] \in 0..MaxValues /\ made[p] + 1 \in 1..MaxValues
      <4>1. made \in Seq(0..MaxValues) /\ p \in DOMAIN made
        BY <1>0, <1>b DEF LogsOK
      <4>2. made[p] \in 0..MaxValues
        <5>1. PICK S : S = 0..MaxValues
          OBVIOUS
        <5>2. made \in Seq(S)
          BY <4>1, <5>1
        <5>3. p \in DOMAIN made
          BY <4>1
        <5>4. made[p] \in S
          <6> HIDE DEF p
          <6> QED BY <5>2, <5>3
        <5> QED BY <5>1, <5>4
      <4> QED BY <2>4, <4>2, BoundsAssumption
    <3>2. made' \in Seq(0..MaxValues) /\ Len(made') = Len(made)
      BY <1>0, <1>b, <2>4, <3>1 DEF LogsOK
    <3>3. LogsOK'
      BY <1>b, <2>1, <3>2 DEF LogsOK, mission
    <3>4. <<p, made[p] + 1>> \in Items
      BY <1>0, <3>1 DEF Items, Values
    <3> QED BY <1>0, <1>a, <2>1, <2>2, <2>4, <3>3, <3>4, ThreadGoesKeeps DEF PCs
  <2> QED BY <1>5, <2>3, <2>4 DEF OwnSource
<1>6. CASE Pop(w)
  <2> DEFINE q == Pipe(w).from
             items == queues[q].items
  <2>1. /\ workers[w].pc # "done" /\ UNCHANGED <<made, received, lost, process>> /\ ThreadOnly
        /\ UNCHANGED mission /\ q \in DOMAIN queues
    BY <1>0, <1>6 DEF Pop, ThreadAt, ThreadOnly
  <2>2. LogsOK'
    BY <1>b, <2>1 DEF LogsOK, mission
  <2>3. CASE items = <<>>
    <3>1. Goes(w, AfterSource(w), None) /\ UNCHANGED queues
      BY <1>6, <2>3 DEF Pop
    <3>2. QueuesOK' /\ Len(queues') = Len(queues)
      BY <1>b, <2>1, <3>1 DEF QueuesOK, mission
    <3> QED BY <1>0, <1>a, <2>1, <2>2, <3>1, <3>2, ThreadGoesKeeps DEF PCs
  <2>4. CASE items # <<>>
    <3>1. Goes(w, AfterSource(w), Head(items)) /\ queues' = [queues EXCEPT ![q].items = Tail(items)]
      BY <1>6, <2>4 DEF Pop
    <3>2. items \in Seq(Values)
      <4>1. queues[q] \in QueueType
        BY <1>0, <2>1
      <4> QED BY <4>1 DEF QueueType
    <3>3. Head(items) \in Items /\ Tail(items) \in Seq(Values) /\ Len(Tail(items)) = Len(items) - 1
          /\ Len(items) \in Nat
      <4> HIDE DEF items
      <4> QED BY <2>4, <3>2 DEF Items
    <3>4. queue_type # "STD_QUEUE" => Len(Tail(items)) <= Capacity
      BY <1>b, <2>1, <3>3, BoundsAssumption DEF QueuesOK
    <3>5. QueuesOK' /\ Len(queues') = Len(queues)
      BY <2>1, <3>1, <3>3, <3>4, QueueChanges DEF mission
    <3> QED BY <1>0, <1>a, <2>1, <2>2, <3>1, <3>3, <3>5, ThreadGoesKeeps DEF PCs
  <2> QED BY <2>3, <2>4
<1>7. CASE ModuleProcess(w)
  <2>1. CASE Goes(w, "sink", workers[w].item) /\ UNCHANGED <<data, process>>
    BY <1>0, <1>7, <2>1, DataStays, ThreadGoesKeeps DEF ModuleProcess, ThreadAt, ThreadOnly, PCs
  <2>2. CASE Terminates
    BY <1>7, <2>2, ProcessEndsKeeps DEF ModuleProcess, Terminates
  <2> QED BY <1>7, <2>1, <2>2 DEF ModuleProcess
<1>8. CASE SinkPassesOver(w)
  BY <1>0, <1>8, DataStays, ThreadGoesKeeps DEF SinkPassesOver, ThreadAt, ThreadOnly, PCs
<1>9. CASE OwnSink(w)
  <2> DEFINE p == workers[w].pipeline
  <2>1. /\ workers[w].pc # "done" /\ UNCHANGED <<queues, made, lost, process>> /\ ThreadOnly
        /\ UNCHANGED mission /\ Goes(w, "test", None) /\ workers[w].item \in Values
        /\ received' = [received EXCEPT ![p] = Append(@, workers[w].item)]
    BY <1>0, <1>9 DEF OwnSink, ThreadAt, ThreadOnly, Items
  <2>2. QueuesOK' /\ Len(queues') = Len(queues)
    BY <1>b, <2>1 DEF QueuesOK, mission
  <2>3. Append(received[p], workers[w].item) \in Seq(Values)
    BY <1>0, <1>b, <2>1 DEF LogsOK
  <2>4. received' \in Seq(Seq(Values)) /\ Len(received') = Len(received)
    BY <1>0, <1>b, <2>1, <2>3 DEF LogsOK
  <2>5. LogsOK'
    BY <1>b, <2>1, <2>4 DEF LogsOK, mission
  <2> QED BY <1>0, <2>1, <2>2, <2>5, ThreadGoesKeeps DEF PCs
<1>10. CASE Push(w)
  <2> DEFINE q == Pipe(w).to
             items == queues[q].items
             item == workers[w].item
  <2>1. /\ workers[w].pc # "done" /\ UNCHANGED <<made, received, process>> /\ ThreadOnly
        /\ UNCHANGED mission /\ Goes(w, "test", None) /\ item \in Values /\ q \in DOMAIN queues
    BY <1>0, <1>10 DEF Push, ThreadAt, ThreadOnly, Items
  <2>2. CASE HasRoom(q)
    <3>1. queues' = [queues EXCEPT ![q].items = Append(items, item)] /\ UNCHANGED lost
      BY <1>10, <2>2 DEF Push
    <3>2. items \in Seq(Values)
      <4>1. queues[q] \in QueueType
        BY <1>0, <2>1
      <4> QED BY <4>1 DEF QueueType
    <3>3. Append(items, item) \in Seq(Values) /\ Len(Append(items, item)) = Len(items) + 1 /\ Len(items) \in Nat
      <4> HIDE DEF items, item
      <4> QED BY <2>1, <3>2
    <3>4. queue_type # "STD_QUEUE" => Len(Append(items, item)) <= Capacity
      BY <2>2, <3>3, BoundsAssumption DEF HasRoom
    <3>5. QueuesOK' /\ Len(queues') = Len(queues)
      BY <2>1, <3>1, <3>3, <3>4, QueueChanges DEF mission
    <3>6. LogsOK'
      BY <1>b, <2>1, <3>1 DEF LogsOK, mission
    <3> QED BY <1>0, <2>1, <3>5, <3>6, ThreadGoesKeeps DEF PCs
  <2>3. CASE ~HasRoom(q)
    <3>1. lost' = lost \union {item} /\ UNCHANGED queues
      BY <1>10, <2>3 DEF Push
    <3>2. QueuesOK' /\ Len(queues') = Len(queues)
      BY <1>b, <2>1, <3>1 DEF QueuesOK, mission
    <3>3. LogsOK'
      BY <1>b, <2>1, <3>1 DEF LogsOK, mission
    <3> QED BY <1>0, <2>1, <3>2, <3>3, ThreadGoesKeeps DEF PCs
  <2> QED BY <2>2, <2>3
<1>11. CASE Contend(w)
  BY <1>11, ProcessEndsKeeps DEF Contend
<1> QED BY <1>1, <1>2, <1>3, <1>4, <1>5, <1>6, <1>7, <1>8, <1>9, <1>10, <1>11 DEF ThreadNext

\* What AddPipeline finds, and what it leaves.
Added ==
    LET L == Len(pipelines) IN
    /\ queues' \in Seq(QueueType) /\ Len(queues) <= Len(queues')
    /\ \A q \in 1..Len(queues) : queues'[q].items = queues[q].items
    /\ \A q \in Len(queues) + 1 .. Len(queues') : queues'[q].items = <<>>
    /\ pipelines' \in Seq(PipelineType) /\ Len(pipelines') = L + 1
    /\ \A p \in 1..L : pipelines'[p] = pipelines[p]
    /\ pipelines'[L + 1].from <= Len(queues') /\ pipelines'[L + 1].to <= Len(queues')
    /\ made' \in Seq(0..MaxValues) /\ Len(made') = L + 1
    /\ \A p \in 1..L : made'[p] = made[p]
    /\ made'[L + 1] = 0
    /\ received' \in Seq(Seq(Values)) /\ Len(received') = L + 1
    /\ \A p \in 1..L : received'[p] = received[p]
    /\ received'[L + 1] = <<>>

\* The control thread is at a pipeline of build().
LEMMA BuildShape ==
    ASSUME BasicInv, control.pc = "build"
    PROVE  /\ build \in Seq(Shape) /\ control.i \in 1..Len(build) /\ build[control.i] \in Shape
           /\ Len(build) \in Nat
<1>1. build \in Seq(Shape) /\ control.i \in 1..Len(build)
  BY BuildsAssumption DEF BasicInv, TypeOK, Room
<1> QED BY <1>1

\* A step of build() adds a pipeline and leaves workers alone.
LEMMA AddPipelineAdds ==
    ASSUME BasicInv, AddPipeline
    PROVE  Added
<1> DEFINE L == Len(pipelines)
<1>1. /\ queues \in Seq(QueueType) /\ pipelines \in Seq(PipelineType) /\ L \in Nat
      /\ made \in Seq(0..MaxValues) /\ Len(made) = L
      /\ received \in Seq(Seq(Values)) /\ Len(received) = L
  BY DEF BasicInv, TypeOK, QueueType
<1>2. build[control.i] \in Shape
  BY BuildShape DEF AddPipeline
<1>3. PICK m : m = Add([queues |-> queues, pipelines |-> pipelines], build[control.i])
  OBVIOUS
<1>4. queues' = m.queues /\ pipelines' = m.pipelines /\ made' = Append(made, 0) /\ received' = Append(received, <<>>)
  BY <1>3 DEF AddPipeline
<1>5. /\ m.queues \in Seq(QueueType) /\ Len(queues) <= Len(m.queues)
      /\ \A q \in 1..Len(queues) : m.queues[q].items = queues[q].items
      /\ \A q \in Len(queues) + 1 .. Len(m.queues) : m.queues[q].items = <<>>
      /\ m.pipelines \in Seq(PipelineType) /\ Len(m.pipelines) = L + 1
      /\ \A p \in 1..L : m.pipelines[p] = pipelines[p]
      /\ m.pipelines[L + 1].from <= Len(m.queues) /\ m.pipelines[L + 1].to <= Len(m.queues)
  BY <1>1, <1>2, <1>3, AddKeeps
<1>6. /\ Append(made, 0) \in Seq(0..MaxValues) /\ Len(Append(made, 0)) = L + 1
      /\ (\A p \in 1..L : Append(made, 0)[p] = made[p]) /\ Append(made, 0)[L + 1] = 0
  BY <1>1, BoundsAssumption
<1>7. <<>> \in Seq(Values)
  OBVIOUS
<1>8. /\ Append(received, <<>>) \in Seq(Seq(Values)) /\ Len(Append(received, <<>>)) = L + 1
      /\ (\A p \in 1..L : Append(received, <<>>)[p] = received[p]) /\ Append(received, <<>>)[L + 1] = <<>>
  <2>1. PICK e : e = <<>> /\ e \in Seq(Values)
    BY <1>7
  <2>2. PICK S : S = Seq(Values)
    OBVIOUS
  <2>3. received \in Seq(S) /\ e \in S
    BY <1>1, <2>1, <2>2
  <2>4. /\ Append(received, e) \in Seq(S) /\ Len(Append(received, e)) = L + 1
        /\ (\A p \in 1..L : Append(received, e)[p] = received[p]) /\ Append(received, e)[L + 1] = e
    BY <1>1, <2>3
  <2> QED BY <2>1, <2>2, <2>4
<1> QED BY <1>4, <1>5, <1>6, <1>8 DEF Added

\* The control thread's step keeps what a later step relies on.
LEMMA ControlKeepsBasic ==
    ASSUME BasicInv, Start \/ Stop \/ Destroy \/ ControlGoesOn
    PROVE  BasicInv'
<1>0. /\ build \in Seq(Shape) /\ Len(build) \in Nat \ {0} /\ Len(workers) \in Nat /\ Len(pipelines) \in Nat
      /\ starts \in Nat /\ workers \in Seq(WorkerType) /\ DOMAIN workers = 1..Len(workers)
      /\ control.i \in 0..MaxWorkers
  <2>1. /\ build \in Seq(Shape) /\ build # <<>> /\ workers \in Seq(WorkerType) /\ pipelines \in Seq(PipelineType)
    BY BuildsAssumption DEF BasicInv, TypeOK
  <2>2. starts \in Nat /\ control.i \in 0..MaxWorkers
    BY BoundsAssumption DEF BasicInv, TypeOK
  <2> QED BY <2>1, <2>2
<1>a. /\ \A i \in 0..MaxWorkers :
           \A pc \in {"idle", "build", "start", "stop", "destroy", "join", "dead"} :
             At(pc, i) \in [pc : {"idle", "build", "start", "stop", "destroy", "join", "dead"}, i : 0..MaxWorkers]
      /\ \A i, pc : At(pc, i).pc = pc /\ At(pc, i).i = i
  BY DEF At
<1>b. 0 \in 0..MaxWorkers /\ (\A i \in 0..MaxWorkers : i \in Nat) /\ MaxWorkers \in Nat /\ MaxStarts \in Nat
  BY BoundsAssumption
<1>c. TypeOK /\ Points /\ Room /\ Hands /\ Joins
  BY DEF BasicInv
<1>1. CASE Start
  <2>1. /\ control.pc = "idle" /\ starts < MaxStarts /\ Len(workers) + Len(pipelines) + Len(build) <= MaxWorkers
        /\ starts' = starts + 1 /\ control' = At("build", 1)
        /\ UNCHANGED <<build, queue_type, pipelines, data, workers, process>>
    BY <1>1 DEF Start, At
  <2>2. 1 \in 0..MaxWorkers
    BY <1>0, <1>b, <2>1
  <2>3. TypeOK'
    <3>1. starts' \in 0..MaxStarts
      BY <1>0, <1>b, <2>1
    <3>2. control' \in [pc : {"idle", "build", "start", "stop", "destroy", "join", "dead"}, i : 0..MaxWorkers]
      BY <1>a, <2>1, <2>2
    <3> QED BY <1>c, <2>1, <3>1, <3>2 DEF TypeOK, data
  <2>4. control'.pc = "build" /\ control'.i = 1
    BY <1>a, <2>1
  <2>5. Points' /\ Hands'
    BY <1>c, <2>1 DEF Points, Hands, data
  <2>6. Room'
    BY <1>0, <1>b, <1>c, <2>1, <2>4 DEF Room
  <2>7. Joins'
    BY <2>4 DEF Joins, NoThreadOutlivesPipelines
  <2> QED BY <2>3, <2>5, <2>6, <2>7 DEF BasicInv
<1>2. CASE AddPipeline
  <2>1. Added
    BY <1>2, AddPipelineAdds
  <2>2. /\ control.pc = "build" /\ UNCHANGED <<build, queue_type, starts, lost, workers, process>>
        /\ control' = IF control.i = Len(build) THEN At("start", Len(pipelines')) ELSE At("build", control.i + 1)
    BY <1>2 DEF AddPipeline
  <2>3. /\ control.i \in 1..Len(build) /\ control.i <= Len(pipelines) + 1 /\ starts >= 1
        /\ Len(workers) + Len(pipelines) + (Len(build) - control.i) + 1 <= MaxWorkers
    BY <1>c, <2>2 DEF Room
  <2>4. Len(pipelines') = Len(pipelines) + 1
    BY <2>1 DEF Added
  <2>5. Len(pipelines) + 1 \in 0..MaxWorkers /\ control.i + 1 \in Nat
    BY <1>0, <1>b, <2>3
  <2>6. \/ control.i = Len(build) /\ control' = At("start", Len(pipelines) + 1)
        \/ control.i < Len(build) /\ control' = At("build", control.i + 1) /\ control.i + 1 \in 0..MaxWorkers
    <3>1. CASE control.i = Len(build)
      BY <2>2, <2>4, <3>1
    <3>2. CASE control.i # Len(build)
      <4>1. control.i < Len(build) /\ control.i + 1 \in 0..MaxWorkers
        BY <1>0, <1>b, <2>3, <3>2
      <4> QED BY <2>2, <3>2, <4>1
    <3> QED BY <3>1, <3>2
  <2>7. control' \in [pc : {"idle", "build", "start", "stop", "destroy", "join", "dead"}, i : 0..MaxWorkers]
    BY <1>a, <2>5, <2>6
  <2>8. TypeOK'
    <3>1. queues' \in Seq([used : BOOLEAN, items : Seq(Values)])
      BY <2>1 DEF Added, QueueType
    <3>2. queue_type' # "STD_QUEUE" => \A q \in DOMAIN queues' : Len(queues'[q].items) <= Capacity
      <4> SUFFICES ASSUME queue_type # "STD_QUEUE", NEW q \in DOMAIN queues'
                   PROVE  Len(queues'[q].items) <= Capacity
        BY <2>2
      <4>1. q \in 1..Len(queues) \/ q \in Len(queues) + 1 .. Len(queues')
        <5>1. queues \in Seq(QueueType)
          BY <1>c DEF TypeOK, QueueType
        <5>2. Len(queues) \in Nat
          BY <5>1
        <5>3. q \in 1..Len(queues') /\ Len(queues') \in Nat
          <6>1. queues' \in Seq(QueueType)
            BY <2>1 DEF Added
          <6> QED BY <6>1
        <5> QED BY <5>2, <5>3
      <4>2. CASE q \in 1..Len(queues)
        <5>1. queues'[q].items = queues[q].items
          BY <2>1, <4>2 DEF Added
        <5>2. Len(queues[q].items) <= Capacity
          BY <1>c, <4>2 DEF TypeOK
        <5> QED BY <5>1, <5>2
      <4>3. CASE q \in Len(queues) + 1 .. Len(queues')
        <5>1. queues'[q].items = <<>>
          BY <2>1, <4>3 DEF Added
        <5> QED BY <5>1, BoundsAssumption
      <4> QED BY <4>1, <4>2, <4>3
    <3>3. /\ pipelines' \in Seq(PipelineType)
          /\ made' \in Seq(0..MaxValues) /\ Len(made') = Len(pipelines')
          /\ received' \in Seq(Seq(Values)) /\ Len(received') = Len(pipelines')
      BY <2>1 DEF Added
    <3> QED BY <1>c, <2>2, <2>7, <3>1, <3>2, <3>3 DEF TypeOK
  <2>9. Points'
    <3>1. ASSUME NEW p \in DOMAIN pipelines'
          PROVE  pipelines'[p].from <= Len(queues') /\ pipelines'[p].to <= Len(queues')
      <4>1. p \in 1..Len(pipelines) \/ p = Len(pipelines) + 1
        <5>1. p \in 1..Len(pipelines')
          BY <2>1 DEF Added
        <5> QED BY <1>0, <2>4, <5>1
      <4>2. CASE p = Len(pipelines) + 1
        BY <2>1, <4>2 DEF Added
      <4>3. CASE p \in 1..Len(pipelines)
        <5>1. pipelines'[p] = pipelines[p] /\ Len(queues) <= Len(queues')
          BY <2>1, <4>3 DEF Added
        <5>4. Len(queues) \in Nat /\ Len(queues') \in Nat
          BY <1>c, <2>1 DEF Added, TypeOK
        <5>2. pipelines[p].from <= Len(queues) /\ pipelines[p].to <= Len(queues) /\ pipelines[p] \in PipelineType
          BY <1>c, <4>3 DEF Points, TypeOK
        <5>3. pipelines[p].from \in Nat /\ pipelines[p].to \in Nat
          BY <5>2 DEF PipelineType
        <5> QED BY <5>1, <5>2, <5>3, <5>4
      <4> QED BY <4>1, <4>2, <4>3
    <3>2. ASSUME NEW w \in DOMAIN workers PROVE workers[w].pipeline <= Len(pipelines')
      <4>1. workers[w] \in WorkerType /\ workers[w].pipeline <= Len(pipelines)
        BY <1>0, <1>c DEF Points
      <4>2. workers[w].pipeline \in Nat
        BY <1>b, <4>1 DEF WorkerType
      <4> QED BY <1>0, <2>4, <4>1, <4>2
    <3> QED BY <2>2, <3>1, <3>2 DEF Points
  <2>10. Room'
    <3>1. CASE control.i = Len(build) /\ control' = At("start", Len(pipelines) + 1)
      <4>1. control'.pc = "start" /\ control'.i = Len(pipelines) + 1
        BY <1>a, <3>1
      <4> QED BY <1>0, <1>b, <2>2, <2>3, <2>4, <3>1, <4>1 DEF Room
    <3>2. CASE control.i < Len(build) /\ control' = At("build", control.i + 1)
      <4>1. control'.pc = "build" /\ control'.i = control.i + 1
        BY <1>a, <3>2
      <4>2. /\ control.i + 1 \in 1..Len(build) /\ control.i + 1 <= Len(pipelines) + 1 + 1
            /\ Len(workers) + (Len(pipelines) + 1) + (Len(build) - (control.i + 1)) + 1 <= MaxWorkers
            /\ Len(pipelines) + 1 <= MaxWorkers
        <5>1. PICK n, N, L, W :
                n = control.i /\ N = Len(build) /\ L = Len(pipelines) /\ W = Len(workers)
          OBVIOUS
        <5>2. /\ n \in 1..N /\ n < N /\ n <= L + 1 /\ W + L + (N - n) + 1 <= MaxWorkers
              /\ N \in Nat /\ L \in Nat /\ W \in Nat /\ MaxWorkers \in Nat
          BY <1>0, <1>b, <2>3, <3>2, <5>1
        <5>3. /\ n + 1 \in 1..N /\ n + 1 <= L + 1 + 1
              /\ W + (L + 1) + (N - (n + 1)) + 1 <= MaxWorkers
              /\ L + 1 <= MaxWorkers
          BY <5>2
        <5> QED BY <5>1, <5>3
      <4> QED BY <2>2, <2>3, <2>4, <4>1, <4>2 DEF Room
    <3> QED BY <2>6, <3>1, <3>2
  <2>11. Hands'
    BY <1>c, <2>2 DEF Hands
  <2>12. control'.pc \in {"build", "start"}
    BY <1>a, <2>6
  <2>13. Joins'
    BY <2>12 DEF Joins, NoThreadOutlivesPipelines
  <2> QED BY <2>8, <2>9, <2>10, <2>11, <2>13 DEF BasicInv
<1>3. CASE StartWorker
  <2> DEFINE r == [pipeline |-> control.i, start |-> starts, stop_flag |-> FALSE, pc |-> "setup", item |-> None]
  <2>1. /\ control.pc = "start" /\ workers' = Append(workers, r) /\ UNCHANGED <<mission, data, process>>
        /\ control' = IF control.i = 1 THEN At("idle", 0) ELSE At("start", control.i - 1)
    BY <1>3 DEF StartWorker
  <2>2. control.i \in 1..Len(pipelines) /\ starts >= 1 /\ Len(workers) + control.i <= MaxWorkers
        /\ Len(pipelines) <= MaxWorkers
    BY <1>c, <2>1 DEF Room
  <2>3. starts \in 1..MaxStarts /\ control.i \in 1..MaxWorkers
    BY <1>0, <1>b, <1>c, <2>2 DEF TypeOK
  <2>4. r \in WorkerType /\ r.item = None /\ r.pipeline = control.i /\ r.pc = "setup"
    BY <2>3 DEF WorkerType
  <2> HIDE DEF r
  <2>5. /\ workers' \in Seq(WorkerType) /\ Len(workers') = Len(workers) + 1
        /\ \A w \in DOMAIN workers : workers'[w] = workers[w]
        /\ workers'[Len(workers) + 1] = r
        /\ \A w \in DOMAIN workers' : w \in DOMAIN workers \/ w = Len(workers) + 1
    BY <1>0, <2>1, <2>4
  <2>6. \/ control.i = 1 /\ control' = At("idle", 0)
        \/ control.i > 1 /\ control' = At("start", control.i - 1) /\ control.i - 1 \in 0..MaxWorkers
    BY <1>0, <1>b, <2>1, <2>2
  <2>7. control' \in [pc : {"idle", "build", "start", "stop", "destroy", "join", "dead"}, i : 0..MaxWorkers]
    BY <1>a, <1>b, <2>6
  <2>8. Len(workers') <= MaxWorkers
    BY <1>0, <1>b, <2>2, <2>5
  <2>9. TypeOK'
    BY <1>c, <2>1, <2>5, <2>7, <2>8 DEF TypeOK, mission, data
  <2>10. Points'
    <3>1. ASSUME NEW w \in DOMAIN workers' PROVE workers'[w].pipeline <= Len(pipelines)
      <4>1. CASE w \in DOMAIN workers
        BY <1>c, <2>5, <4>1 DEF Points
      <4>2. CASE w = Len(workers) + 1
        BY <1>0, <2>2, <2>4, <2>5, <4>2
      <4> QED BY <2>5, <4>1, <4>2
    <3> QED BY <1>c, <2>1, <3>1 DEF Points, mission, data
  <2>11. Room'
    <3>1. CASE control' = At("idle", 0)
      <4>1. control'.pc = "idle"
        BY <1>a, <3>1
      <4> QED BY <2>1, <2>2, <4>1 DEF Room, mission
    <3>2. CASE control.i > 1 /\ control' = At("start", control.i - 1)
      <4>1. control'.pc = "start" /\ control'.i = control.i - 1
        BY <1>a, <3>2
      <4>2. control.i - 1 \in 1..Len(pipelines) /\ Len(workers) + 1 + (control.i - 1) <= MaxWorkers
        BY <1>0, <1>b, <2>2, <3>2
      <4> QED BY <2>1, <2>2, <2>5, <4>1, <4>2 DEF Room, mission
    <3> QED BY <2>6, <3>1, <3>2
  <2>12. Hands'
    <3>1. ASSUME NEW w \in DOMAIN workers', workers'[w].pc \notin {"module", "sink"}
          PROVE  workers'[w].item = None
      <4>1. CASE w \in DOMAIN workers
        BY <1>c, <2>5, <3>1, <4>1 DEF Hands
      <4>2. CASE w = Len(workers) + 1
        BY <2>4, <2>5, <4>2
      <4> QED BY <2>5, <4>1, <4>2
    <3> QED BY <3>1 DEF Hands
  <2>13. control'.pc \in {"idle", "start"}
    BY <1>a, <2>6
  <2>14. Joins'
    BY <2>13 DEF Joins, NoThreadOutlivesPipelines
  <2> QED BY <2>9, <2>10, <2>11, <2>12, <2>14 DEF BasicInv
<1>4. CASE Stop
  <2>1. /\ workers # <<>> /\ control' = At("stop", Len(workers))
        /\ UNCHANGED <<mission, data, workers, process>>
    BY <1>4 DEF Stop
  <2>2. Len(workers) \in 0..MaxWorkers /\ Len(workers) \in DOMAIN workers
    BY <1>0, <1>b, <1>c, <2>1 DEF TypeOK
  <2>3. control'.pc = "stop" /\ control'.i = Len(workers)
    BY <1>a, <2>1
  <2>4. control' \in [pc : {"idle", "build", "start", "stop", "destroy", "join", "dead"}, i : 0..MaxWorkers]
    BY <1>a, <2>1, <2>2
  <2>5. TypeOK'
    BY <1>c, <2>1, <2>4 DEF TypeOK, mission, data
  <2>6. Points' /\ Hands'
    BY <1>c, <2>1 DEF Points, Hands, mission, data
  <2>7. Room'
    BY <1>c, <2>1, <2>3 DEF Room, mission
  <2>8. Joins'
    BY <2>1, <2>2, <2>3 DEF Joins, NoThreadOutlivesPipelines
  <2> QED BY <2>5, <2>6, <2>7, <2>8 DEF BasicInv
<1>5. CASE StopWorker \/ DestroyWorker
  <2>1. /\ control.pc \in {"stop", "destroy"} /\ RaisesFlag(control.i)
        /\ UNCHANGED <<mission, data, process>>
    BY <1>5 DEF StopWorker, DestroyWorker, RaisesFlag
  <2>2. control.i \in DOMAIN workers
    BY <1>c, <2>1 DEF Joins
  <2>3. /\ workers' \in Seq(WorkerType) /\ Len(workers') = Len(workers)
        /\ DOMAIN workers' = DOMAIN workers
        /\ \A u \in DOMAIN workers : /\ workers'[u].pc = workers[u].pc
                                     /\ workers'[u].item = workers[u].item
                                     /\ workers'[u].pipeline = workers[u].pipeline
    BY <1>0, <2>1, <2>2, Flagged
  <2>4. \/ control.pc = "stop" /\ control' = At("idle", 0)
        \/ control.pc = "stop" /\ control.i > 1 /\ control' = At("stop", control.i - 1)
        \/ control.pc = "destroy" /\ control' = At("join", control.i)
    BY <1>0, <1>5, <2>2 DEF StopWorker, DestroyWorker
  <2>5. control' \in [pc : {"idle", "build", "start", "stop", "destroy", "join", "dead"}, i : 0..MaxWorkers]
    <3>1. control.i > 1 => control.i - 1 \in 0..MaxWorkers
      BY <1>0, <1>b
    <3> QED BY <1>0, <1>a, <1>b, <2>4, <3>1
  <2>6. TypeOK'
    BY <1>c, <2>1, <2>3, <2>5 DEF TypeOK, mission, data
  <2>7. Points' /\ Hands'
    BY <1>c, <2>1, <2>3 DEF Points, Hands, mission, data
  <2>8. control'.pc \in {"idle", "stop", "join"}
    BY <1>a, <2>4
  <2>9. Room'
    BY <1>c, <2>1, <2>3, <2>8 DEF Room, mission
  <2>10. Joins'
    <3>1. CASE control' = At("idle", 0)
      <4>1. control'.pc = "idle"
        BY <1>a, <3>1
      <4> QED BY <4>1 DEF Joins, NoThreadOutlivesPipelines
    <3>2. CASE control.i > 1 /\ control' = At("stop", control.i - 1)
      <4>1. control'.pc = "stop" /\ control'.i = control.i - 1
        BY <1>a, <3>2
      <4>2. control.i - 1 \in DOMAIN workers'
        BY <1>0, <2>2, <2>3, <3>2
      <4> QED BY <4>1, <4>2 DEF Joins, NoThreadOutlivesPipelines
    <3>3. CASE control.pc = "destroy" /\ control' = At("join", control.i)
      <4>1. control'.pc = "join" /\ control'.i = control.i
        BY <1>a, <3>3
      <4>2. \A w \in DOMAIN workers : w < control.i => workers[w].pc = "done"
        BY <1>c, <3>3 DEF Joins
      <4> QED BY <2>2, <2>3, <4>1, <4>2 DEF Joins, NoThreadOutlivesPipelines
    <3> QED BY <2>4, <3>1, <3>2, <3>3
  <2> QED BY <2>6, <2>7, <2>9, <2>10 DEF BasicInv
<1>6. CASE Destroy \/ JoinWorker
  <2>1. UNCHANGED <<mission, data, workers, process>>
    BY <1>6 DEF Destroy, JoinWorker
  <2>2. \/ workers = <<>> /\ control' = At("dead", 0)
        \/ workers # <<>> /\ control' = At("destroy", 1)
        \/ control.pc = "join" /\ control.i = Len(workers) /\ workers[control.i].pc = "done" /\ control' = At("dead", 0)
        \/ control.pc = "join" /\ control.i # Len(workers) /\ workers[control.i].pc = "done"
           /\ control' = At("destroy", control.i + 1)
    BY <1>6 DEF Destroy, JoinWorker
  <2>3. control.pc = "join" => control.i \in DOMAIN workers /\ \A w \in DOMAIN workers : w < control.i => workers[w].pc = "done"
    BY <1>c DEF Joins
  <2>4. CASE workers = <<>> /\ control' = At("dead", 0)
    <3>1. control'.pc = "dead" /\ control' \in [pc : {"idle", "build", "start", "stop", "destroy", "join", "dead"}, i : 0..MaxWorkers]
      BY <1>a, <1>b, <2>4
    <3>2. TypeOK'
      BY <1>c, <2>1, <3>1 DEF TypeOK, mission, data
    <3>3. Points' /\ Hands' /\ Room'
      BY <1>c, <2>1, <3>1 DEF Points, Hands, Room, mission, data
    <3>4. Joins'
      BY <2>1, <2>4, <3>1 DEF Joins, NoThreadOutlivesPipelines
    <3> QED BY <3>2, <3>3, <3>4 DEF BasicInv
  <2>5. CASE workers # <<>> /\ control' = At("destroy", 1)
    <3>1. 1 \in DOMAIN workers /\ 1 \in 0..MaxWorkers
      BY <1>0, <1>b, <1>c, <2>5 DEF TypeOK
    <3>2. control'.pc = "destroy" /\ control'.i = 1 /\ control' \in [pc : {"idle", "build", "start", "stop", "destroy", "join", "dead"}, i : 0..MaxWorkers]
      BY <1>a, <2>5, <3>1
    <3>3. TypeOK'
      BY <1>c, <2>1, <3>2 DEF TypeOK, mission, data
    <3>4. Points' /\ Hands' /\ Room'
      BY <1>c, <2>1, <3>2 DEF Points, Hands, Room, mission, data
    <3>5. Joins'
      BY <1>0, <2>1, <3>1, <3>2 DEF Joins, NoThreadOutlivesPipelines
    <3> QED BY <3>3, <3>4, <3>5 DEF BasicInv
  <2>6. CASE control.pc = "join" /\ control.i = Len(workers) /\ workers[control.i].pc = "done" /\ control' = At("dead", 0)
    <3>1. control'.pc = "dead" /\ control' \in [pc : {"idle", "build", "start", "stop", "destroy", "join", "dead"}, i : 0..MaxWorkers]
      BY <1>a, <1>b, <2>6
    <3>2. TypeOK'
      BY <1>c, <2>1, <3>1 DEF TypeOK, mission, data
    <3>3. Points' /\ Hands' /\ Room'
      BY <1>c, <2>1, <3>1 DEF Points, Hands, Room, mission, data
    <3>4. \A w \in DOMAIN workers : workers[w].pc = "done"
      BY <1>0, <2>3, <2>6
    <3>5. Joins'
      BY <2>1, <3>1, <3>4 DEF Joins, NoThreadOutlivesPipelines
    <3> QED BY <3>2, <3>3, <3>5 DEF BasicInv
  <2>7. CASE control.pc = "join" /\ control.i # Len(workers) /\ workers[control.i].pc = "done"
             /\ control' = At("destroy", control.i + 1)
    <3>1. control.i + 1 \in DOMAIN workers /\ control.i + 1 \in 0..MaxWorkers
      BY <1>0, <1>b, <1>c, <2>3, <2>7 DEF TypeOK
    <3>2. control'.pc = "destroy" /\ control'.i = control.i + 1 /\ control' \in [pc : {"idle", "build", "start", "stop", "destroy", "join", "dead"}, i : 0..MaxWorkers]
      BY <1>a, <2>7, <3>1
    <3>3. TypeOK'
      BY <1>c, <2>1, <3>2 DEF TypeOK, mission, data
    <3>4. Points' /\ Hands' /\ Room'
      BY <1>c, <2>1, <3>2 DEF Points, Hands, Room, mission, data
    <3>5. \A w \in DOMAIN workers : w < control.i + 1 => workers[w].pc = "done"
      BY <1>0, <2>3, <2>7
    <3>6. Joins'
      BY <2>1, <3>1, <3>2, <3>5 DEF Joins, NoThreadOutlivesPipelines
    <3> QED BY <3>3, <3>4, <3>6 DEF BasicInv
  <2> QED BY <2>2, <2>4, <2>5, <2>6, <2>7
<1> QED BY <1>1, <1>2, <1>3, <1>4, <1>5, <1>6 DEF ControlGoesOn

\* BasicInv is about the variables.
LEMMA BasicStays == BasicInv /\ UNCHANGED vars => BasicInv'
<1> SUFFICES ASSUME BasicInv, UNCHANGED vars PROVE BasicInv'
  OBVIOUS
<1>1. TypeOK'
  BY DEF BasicInv, TypeOK, vars, mission, data
<1>2. Points' /\ Hands' /\ Room' /\ Joins'
  BY DEF BasicInv, Points, Hands, Room, Joins, NoThreadOutlivesPipelines, vars, mission, data
<1> QED BY <1>1, <1>2 DEF BasicInv

\* Every step keeps BasicInv.
LEMMA BasicNext == BasicInv /\ [Next]_vars => BasicInv'
<1> SUFFICES ASSUME BasicInv, [Next]_vars PROVE BasicInv'
  OBVIOUS
<1>1. CASE Start \/ Stop \/ Destroy \/ ControlGoesOn
  BY <1>1, ControlKeepsBasic
<1>2. CASE \E w \in DOMAIN workers : ThreadNext(w)
  BY <1>2, ThreadKeepsBasic
<1>3. CASE UNCHANGED vars
  BY <1>3, BasicStays
<1> QED BY <1>1, <1>2, <1>3 DEF Next

\* The variables have their types.
THEOREM TypeCorrect == Spec => []TypeOK
<1>1. BasicInv => TypeOK
  BY DEF BasicInv
<1> QED BY <1>1, BasicInit, BasicNext, PTL DEF Spec

\* ~Mission() joins each thread before the pipelines are destroyed, which come
\* before the workers among its members (Mission.hpp:242-245).
THEOREM ThreadsEndFirst == Spec => []NoThreadOutlivesPipelines
<1>1. BasicInv => NoThreadOutlivesPipelines
  BY DEF BasicInv, Joins
<1> QED BY <1>1, BasicInit, BasicNext, PTL DEF Spec

-----------------------------------------------------------------------------
(* Wiring: the ends of queues *)

\* An end of a queue that a pipeline has: the pipeline, the side and the queue.
Wires(ps) ==
    {<<p, "from", ps[p].from>> : p \in {x \in DOMAIN ps : ps[x].from # 0}}
      \union {<<p, "to", ps[p].to>> : p \in {x \in DOMAIN ps : ps[x].to # 0}}

\* Every queue has two ends at the most, and one as long as it is not used.  It
\* is the last queue that is not used.
Wired(qs, S) ==
    /\ \A a \in S : a[3] \in 1..Len(qs)
    /\ \A q \in 1..Len(qs) : ~qs[q].used => q = Len(qs)
    /\ \A a, b, c \in S : a[3] = b[3] /\ b[3] = c[3] => a = b \/ b = c \/ a = c
    /\ \A a, b \in S : a[3] = b[3] /\ ~qs[a[3]].used => a = b

\* A queue after the one that a pipeline pops, unless it is the same.
Onward(ps) ==
    \A p \in DOMAIN ps : ps[p].from # 0 /\ ps[p].to # 0 => ps[p].to \in {ps[p].from, ps[p].from + 1}

WiringInv == Wired(queues, Wires(pipelines)) /\ Onward(pipelines)

-----------------------------------------------------------------------------
(* Where values are *)

Hand(w) == IF w \in DOMAIN workers THEN workers[w].item ELSE None
Line(q) == IF q \in DOMAIN queues THEN queues[q].items ELSE <<>>
Got(p) == IF p \in DOMAIN received THEN received[p] ELSE <<>>
MadeBy(p) == IF p \in DOMAIN made THEN made[p] ELSE 0

\* A place is in a queue, at an index, in the hands of a worker, in a sink, at
\* an index, or with what is lost.
IsAt(v, k, a, b) ==
    \/ k = "queue" /\ b \in DOMAIN Line(a) /\ Line(a)[b] = v
    \/ k = "worker" /\ b = 0 /\ Hand(a) = v
    \/ k = "sink" /\ b \in DOMAIN Got(a) /\ Got(a)[b] = v
    \/ k = "lost" /\ a = 0 /\ b = 0 /\ v \in lost

Kinds == {"queue", "worker", "sink", "lost"}

IsMade(v) == v[2] <= MadeBy(v[1])

\* What has been made is in one place, what has not is nowhere.
Somewhere(v) == \E k \in Kinds : \E a, b \in Nat : IsAt(v, k, a, b)

Once(v) ==
    \A k, l \in Kinds : \A a, b, c, d \in Nat :
        IsAt(v, k, a, b) /\ IsAt(v, l, c, d) => k = l /\ a = c /\ b = d

PlacesInv == \A v \in Values : (IsMade(v) <=> Somewhere(v)) /\ Once(v)

-----------------------------------------------------------------------------
(* The order of values *)

\* Two threads are never in one pipeline.
Exclusive ==
    \A u, w \in DOMAIN workers :
        Executing(u) /\ Executing(w) /\ workers[u].pipeline = workers[w].pipeline => u = w

OwnSourced(s) == s \in DOMAIN pipelines /\ pipelines[s].from = 0

\* The queues that may hold values of pipeline s are the one it pushes to and
\* later ones, and another pipeline than the one that pops a queue pushes to it.
Passes(s, q) ==
    /\ pipelines[s].to # 0 /\ pipelines[s].to <= q
    /\ \E f \in DOMAIN pipelines : pipelines[f].to = q /\ pipelines[f].from # q

Reaches(s, p) ==
    \/ p = s
    \/ /\ pipelines[s].to # 0 /\ pipelines[s].to <= pipelines[p].from
       /\ \E f \in DOMAIN pipelines \ {p} : pipelines[f].to = pipelines[p].from

HandsFed ==
    \A w \in Nat : \A v \in Values :
        Hand(w) = v => OwnSourced(v[1]) /\ Reaches(v[1], workers[w].pipeline)

QueuesFed ==
    \A q \in Nat : \A i \in DOMAIN Line(q) :
        OwnSourced(Line(q)[i][1]) /\ Passes(Line(q)[i][1], q)

\* How far a value has come: queue q has the distance 2q-1, the pipeline that
\* pops it 2q, and one with a source of its own 0.
InTransit(v, d) ==
    \/ \E w \in Nat : Hand(w) = v /\ d = 2 * Pipe(w).from
    \/ \E q \in Nat : (\E i \in DOMAIN Line(q) : Line(q)[i] = v) /\ d + 1 = 2 * q

\* Of the values of one source, the older one is ahead.
QueueOrder ==
    \A q \in Nat : \A i, j \in DOMAIN Line(q) :
        i < j /\ Line(q)[i][1] = Line(q)[j][1] => Line(q)[i][2] < Line(q)[j][2]

TransitOrder ==
    \A v, u \in Values : \A c, d \in Nat :
        v[1] = u[1] /\ InTransit(v, c) /\ InTransit(u, d) /\ c < d => u[2] < v[2]

SinkOrder ==
    \A p \in Nat : \A i \in DOMAIN Got(p) : \A v \in Values : \A c \in Nat :
        Got(p)[i][1] = v[1] /\ InTransit(v, c) /\ c <= 2 * pipelines[p].from => Got(p)[i][2] < v[2]

GotOrder ==
    \A p \in Nat : \A i, j \in DOMAIN Got(p) :
        i < j /\ Got(p)[i][1] = Got(p)[j][1] => Got(p)[i][2] < Got(p)[j][2]

OrderInv == QueueOrder /\ TransitOrder /\ SinkOrder /\ GotOrder

-----------------------------------------------------------------------------
(* Queues join pipelines *)

Closed(p) == pipelines[p].from = 0 /\ pipelines[p].to = 0

Joined(q) ==
    \E p, c \in DOMAIN pipelines :
        p < c /\ pipelines[p].to = q /\ pipelines[c].from = q /\ \A i \in p+1 .. c-1 : Closed(i)

\* The pipelines that the build under way has added so far come after these.
Base == Len(pipelines) - (control.i - 1)

\* The queue waits for the next pipeline without sources.
Waits(q) ==
    /\ control.pc = "build"
    /\ \E p \in Base + 1 .. Len(pipelines) :
         pipelines[p].to = q /\ \A i \in p+1 .. Len(pipelines) : Closed(i)

Follows ==
    control.pc = "build" => \A j \in 1 .. control.i - 1 :
        /\ pipelines[Base + j].from = 0 <=> build[j].sources
        /\ pipelines[Base + j].to = 0 <=> build[j].sinks

LineInv ==
    /\ Follows
    /\ Alternates => \A q \in DOMAIN queues : IF queues[q].used THEN Joined(q) ELSE Waits(q)

-----------------------------------------------------------------------------
(* What a step does to the values *)

\* Nothing changes but in the hands of W, the queues Q, the sinks P and the
\* sources M.
Still(W, Q, P, M) ==
    /\ \A u \in Nat \ W : Hand(u)' = Hand(u)
    /\ \A r \in Nat \ Q : Line(r)' = Line(r)
    /\ \A x \in Nat \ P : Got(x)' = Got(x)
    /\ \A x \in Nat \ M : MadeBy(x)' = MadeBy(x)

Holds(w, p, v) == w \in DOMAIN workers /\ p = workers[w].pipeline /\ v \in Values /\ Hand(w) = v /\ Hand(w)' = None

Quiet == Still({}, {}, {}, {}) /\ lost' = lost

Makes(w, p, v) ==
    /\ Still({w}, {}, {}, {p}) /\ lost' = lost
    /\ w \in DOMAIN workers /\ p = workers[w].pipeline /\ pipelines[p].from = 0
    /\ v \in Values /\ v = <<p, MadeBy(p) + 1>> /\ MadeBy(p)' = MadeBy(p) + 1
    /\ Hand(w) = None /\ Hand(w)' = v

Pops(w, p, q, v) ==
    /\ Still({w}, {q}, {}, {}) /\ lost' = lost
    /\ w \in DOMAIN workers /\ p = workers[w].pipeline /\ pipelines[p].from = q /\ q \in DOMAIN queues
    /\ v \in Values /\ Line(q) # <<>> /\ v = Head(Line(q)) /\ Line(q)' = Tail(Line(q))
    /\ Hand(w) = None /\ Hand(w)' = v

Puts(w, p, q, v) ==
    /\ Still({w}, {q}, {}, {}) /\ lost' = lost /\ Holds(w, p, v)
    /\ pipelines[p].to = q /\ q \in DOMAIN queues
    /\ Line(q)' = Append(Line(q), v)

Delivers(w, p, v) ==
    /\ Still({w}, {}, {p}, {}) /\ lost' = lost /\ Holds(w, p, v)
    /\ Got(p)' = Append(Got(p), v)

Loses(w, p, v) ==
    /\ Still({w}, {}, {}, {}) /\ Holds(w, p, v)
    /\ lost' = lost \union {v}

Moves ==
    /\ pipelines' = pipelines
    /\ \E w \in DOMAIN workers : \E p \in DOMAIN pipelines : \E v \in Values :
         \/ Makes(w, p, v) \/ Delivers(w, p, v) \/ Loses(w, p, v)
         \/ \E q \in DOMAIN queues : Pops(w, p, q, v) \/ Puts(w, p, q, v)

\* Pipelines and workers stay what they are.
Grows ==
    /\ \A p \in DOMAIN pipelines : p \in DOMAIN pipelines' /\ pipelines'[p] = pipelines[p]
    /\ \A w \in DOMAIN workers : w \in DOMAIN workers' /\ workers'[w].pipeline = workers[w].pipeline

\* The sequences begin at 1.
LEMMA Ranges ==
    ASSUME BasicInv
    PROVE  /\ DOMAIN workers \subseteq Nat /\ DOMAIN queues \subseteq Nat /\ DOMAIN pipelines \subseteq Nat
           /\ DOMAIN received = DOMAIN pipelines /\ DOMAIN made = DOMAIN pipelines
           /\ DOMAIN workers = 1..Len(workers) /\ DOMAIN queues = 1..Len(queues)
           /\ DOMAIN pipelines = 1..Len(pipelines)
           /\ Len(workers) \in Nat /\ Len(queues) \in Nat /\ Len(pipelines) \in Nat
<1>1. /\ workers \in Seq(WorkerType) /\ queues \in Seq(QueueType) /\ pipelines \in Seq(PipelineType)
      /\ Len(made) = Len(pipelines) /\ made \in Seq(0..MaxValues)
      /\ Len(received) = Len(pipelines) /\ received \in Seq(Seq(Values))
  BY DEF BasicInv, TypeOK, QueueType
<1> QED BY <1>1

\* What is in hands, queues and sinks are values.
LEMMA Contents ==
    ASSUME BasicInv
    PROVE  /\ \A w \in Nat : Hand(w) \in Items
           /\ \A q \in Nat : Line(q) \in Seq(Values)
           /\ \A p \in Nat : Got(p) \in Seq(Values)
           /\ \A p \in Nat : MadeBy(p) \in 0..MaxValues
           /\ \A w \in Nat : Hand(w) # None =>
                w \in DOMAIN workers /\ workers[w].pc \in {"module", "sink"} /\ Executing(w) /\ Hand(w) \in Values
           /\ \A q \in Nat : Line(q) # <<>> => q \in DOMAIN queues
           /\ \A p \in Nat : Got(p) # <<>> => p \in DOMAIN pipelines
           /\ \A p \in Nat : MadeBy(p) # 0 => p \in DOMAIN pipelines
<1>1. /\ workers \in Seq(WorkerType) /\ queues \in Seq(QueueType)
      /\ made \in Seq(0..MaxValues) /\ received \in Seq(Seq(Values)) /\ Hands
  BY DEF BasicInv, TypeOK, QueueType
<1>2. DOMAIN received = DOMAIN pipelines /\ DOMAIN made = DOMAIN pipelines
  BY Ranges
<1>3. ASSUME NEW w \in Nat PROVE Hand(w) \in Items
  <2>1. CASE w \in DOMAIN workers
    <3>1. workers[w] \in WorkerType
      BY <1>1, <2>1
    <3> QED BY <2>1, <3>1 DEF Hand, WorkerType, Items
  <2>2. CASE w \notin DOMAIN workers
    BY <2>2 DEF Hand, Items
  <2> QED BY <2>1, <2>2
<1>4. ASSUME NEW q \in Nat PROVE Line(q) \in Seq(Values)
  <2>1. CASE q \in DOMAIN queues
    <3>1. queues[q] \in QueueType
      BY <1>1, <2>1
    <3> QED BY <2>1, <3>1 DEF Line, QueueType
  <2>2. CASE q \notin DOMAIN queues
    BY <2>2 DEF Line
  <2> QED BY <2>1, <2>2
<1>5. ASSUME NEW p \in Nat PROVE Got(p) \in Seq(Values)
  <2>1. CASE p \in DOMAIN received
    <3>1. received[p] \in Seq(Values)
      BY <1>1, <2>1
    <3> QED BY <2>1, <3>1 DEF Got
  <2>2. CASE p \notin DOMAIN received
    BY <2>2 DEF Got
  <2> QED BY <2>1, <2>2
<1>6. ASSUME NEW p \in Nat PROVE MadeBy(p) \in 0..MaxValues
  <2>1. CASE p \in DOMAIN made
    <3>1. PICK S : S = 0..MaxValues
      OBVIOUS
    <3>2. made \in Seq(S)
      BY <1>1, <3>1
    <3>3. made[p] \in S
      BY <2>1, <3>2
    <3> QED BY <2>1, <3>1, <3>3 DEF MadeBy
  <2>2. CASE p \notin DOMAIN made
    BY <2>2, BoundsAssumption DEF MadeBy
  <2> QED BY <2>1, <2>2
<1>7. ASSUME NEW w \in Nat, Hand(w) # None
      PROVE  w \in DOMAIN workers /\ workers[w].pc \in {"module", "sink"} /\ Executing(w) /\ Hand(w) \in Values
  BY <1>1, <1>3, <1>7 DEF Hand, Hands, Executing, Items
<1> QED BY <1>2, <1>3, <1>4, <1>5, <1>6, <1>7 DEF Line, Got, MadeBy

\* A thread that goes on has the item it goes on with.
LEMMA GoesHands ==
    ASSUME BasicInv, NEW w \in DOMAIN workers, NEW pc \in PCs, NEW item \in Items, Goes(w, pc, item),
           UNCHANGED pipelines
    PROVE  /\ Grows /\ Hand(w) = workers[w].item /\ Hand(w)' = item
           /\ \A u \in Nat \ {w} : Hand(u)' = Hand(u)
<1>1. workers \in Seq(WorkerType)
  BY DEF BasicInv, TypeOK
<1>2. Went(w, pc, item)
  BY <1>1, GoesOn
<1>3. Grows
  BY <1>2 DEF Went, Grows
<1>4. Hand(w) = workers[w].item /\ Hand(w)' = item
  BY <1>2 DEF Went, Hand
<1>5. \A u \in Nat \ {w} : Hand(u)' = Hand(u)
  BY <1>2 DEF Went, Hand
<1> QED BY <1>3, <1>4, <1>5

\* Data and hands stay as they are.
LEMMA StaysQuiet ==
    ASSUME BasicInv, UNCHANGED data, UNCHANGED pipelines, \A u \in Nat : Hand(u)' = Hand(u)
    PROVE  Quiet
BY DEF Quiet, Still, Line, Got, MadeBy, data

\* A thread moves one value at the most.
LEMMA ThreadEffect ==
    ASSUME BasicInv, NEW w \in DOMAIN workers, ThreadNext(w)
    PROVE  Grows /\ (Quiet \/ Moves)
<1> DEFINE p == workers[w].pipeline
<1>0. /\ None \in Items /\ workers[w].item \in Items /\ Pipe(w) \in PipelineType
      /\ p \in DOMAIN pipelines /\ p \in DOMAIN made /\ p \in DOMAIN received
      /\ (Pipe(w).from # 0 => Pipe(w).from \in DOMAIN queues)
      /\ (Pipe(w).to # 0 => Pipe(w).to \in DOMAIN queues)
      /\ Pipe(w) = pipelines[p]
  BY WorkerAt DEF Items, Pipe
<1>a. AfterSource(w) \in {"module", "sink"} /\ AfterSource(w) \in PCs
  BY DEF AfterSource, PCs
<1>b. "test" \in PCs /\ "execute" \in PCs /\ "source" \in PCs /\ "sink" \in PCs /\ "done" \in PCs
  BY DEF PCs
<1>c. workers[w].pc \notin {"module", "sink"} => workers[w].item = None
  BY DEF BasicInv, Hands
<1>d. w \in Nat /\ p \in Nat /\ \A q \in DOMAIN queues : q \in Nat
  BY <1>0, Ranges
<1>e. UNCHANGED pipelines
  BY DEF ThreadNext, SetUp, SeeStop, SeeNoStop, Execute, OwnSource, Pop, ModuleProcess, SinkPassesOver,
         OwnSink, Push, Contend, ThreadOnly, mission
<1>f. ASSUME NEW pc \in PCs, Goes(w, pc, workers[w].item), UNCHANGED data
      PROVE  Grows /\ Quiet
  <2>1. Grows /\ Hand(w) = workers[w].item /\ Hand(w)' = workers[w].item /\ \A u \in Nat \ {w} : Hand(u)' = Hand(u)
    BY <1>0, <1>e, <1>f, GoesHands
  <2>2. \A u \in Nat : Hand(u)' = Hand(u)
    BY <2>1
  <2> QED BY <1>e, <1>f, <2>1, <2>2, StaysQuiet
<1>g. ASSUME UNCHANGED workers, UNCHANGED data PROVE Grows /\ Quiet
  <2>1. \A u \in Nat : Hand(u)' = Hand(u)
    BY <1>g DEF Hand
  <2>2. Grows
    BY <1>e, <1>g DEF Grows
  <2> QED BY <1>e, <1>g, <2>1, <2>2, StaysQuiet
<1>1. CASE SetUp(w)
  BY <1>1, <1>b, <1>c, <1>f, <1>g DEF SetUp, ThreadAt, Terminates
<1>2. CASE SeeStop(w)
  <2>1. workers[w].pc = "test" /\ Goes(w, "done", None) /\ UNCHANGED data
    BY <1>2 DEF SeeStop, ThreadAt
  <2> QED BY <2>1, <1>b, <1>c, <1>f
<1>3. CASE SeeNoStop(w)
  <2>1. workers[w].pc = "test" /\ Goes(w, "execute", None) /\ UNCHANGED data
    BY <1>3 DEF SeeNoStop, ThreadAt
  <2> QED BY <2>1, <1>b, <1>c, <1>f
<1>4. CASE Execute(w)
  BY <1>4, <1>b, <1>c, <1>f, <1>g DEF Execute, ThreadAt
<1>5. CASE OwnSource(w)
  <2>1. /\ workers[w].pc = "source" /\ UNCHANGED <<queues, received, lost>> /\ Pipe(w).from = 0
        /\ workers[w].item = None
    BY <1>5, <1>c DEF OwnSource, ThreadAt
  <2>2. CASE Goes(w, AfterSource(w), None) /\ UNCHANGED made
    BY <1>a, <1>f, <2>1, <2>2 DEF data
  <2>3. CASE /\ made[p] < MaxValues
             /\ made' = [made EXCEPT ![p] = @ + 1]
             /\ Goes(w, AfterSource(w), <<p, made[p] + 1>>)
    <3> DEFINE v == <<p, made[p] + 1>>
    <3>1. MadeBy(p) \in 0..MaxValues /\ MadeBy(p) = made[p]
      BY <1>0, <1>d, Contents DEF MadeBy
    <3>2. made[p] + 1 \in 1..MaxValues
      BY <2>3, <3>1, BoundsAssumption
    <3>3. p \in 1..MaxWorkers
      BY WorkerAt DEF WorkerType
    <3>4. v \in Values /\ v \in Items
      BY <3>2, <3>3 DEF Values, Items
    <3>5. /\ Grows /\ Hand(w) = None /\ Hand(w)' = v
          /\ \A u \in Nat \ {w} : Hand(u)' = Hand(u)
      <4> HIDE DEF v
      <4>1. Goes(w, AfterSource(w), v)
        BY <2>3 DEF v
      <4> QED BY <1>a, <1>e, <2>1, <3>4, <4>1, GoesHands
    <3>6. PICK x : x = p
      OBVIOUS
    <3>7. MadeBy(x)' = MadeBy(x) + 1 /\ \A y \in Nat \ {x} : MadeBy(y)' = MadeBy(y)
      <4>1. x \in DOMAIN made /\ made' = [made EXCEPT ![x] = @ + 1]
        BY <1>0, <2>3, <3>6
      <4> QED BY <4>1 DEF MadeBy
    <3>8. Still({w}, {}, {}, {x}) /\ lost' = lost
      BY <2>1, <3>5, <3>7 DEF Still, Line, Got
    <3>9. Makes(w, x, v)
      BY <1>0, <2>1, <3>1, <3>4, <3>5, <3>6, <3>7, <3>8 DEF Makes
    <3>10. x \in DOMAIN pipelines
      BY <1>0, <3>6
    <3> QED BY <1>e, <3>4, <3>5, <3>9, <3>10 DEF Moves
  <2> QED BY <1>5, <2>2, <2>3 DEF OwnSource
<1>6. CASE Pop(w)
  <2>1. PICK q : q = Pipe(w).from
    OBVIOUS
  <2>2. /\ UNCHANGED <<made, received, lost>> /\ workers[w].item = None
        /\ q \in DOMAIN queues /\ q \in Nat
    BY <1>0, <1>6, <1>c, <1>d, <2>1 DEF Pop, ThreadAt
  <2>3. Line(q) = queues[q].items /\ Line(q) \in Seq(Values)
    BY <2>2, Contents DEF Line
  <2>4. CASE Line(q) = <<>>
    <3>1. Goes(w, AfterSource(w), None) /\ UNCHANGED queues
      BY <1>6, <2>1, <2>3, <2>4 DEF Pop
    <3> QED BY <1>a, <1>f, <2>2, <3>1 DEF data
  <2>5. CASE Line(q) # <<>>
    <3>1. Goes(w, AfterSource(w), Head(Line(q))) /\ queues' = [queues EXCEPT ![q].items = Tail(Line(q))]
      BY <1>6, <2>1, <2>3, <2>5 DEF Pop
    <3>2. PICK v : v = Head(Line(q)) /\ v \in Values /\ v \in Items
      BY <2>3, <2>5 DEF Items
    <3>3. /\ Grows /\ Hand(w) = None /\ Hand(w)' = v
          /\ \A u \in Nat \ {w} : Hand(u)' = Hand(u)
      BY <1>a, <1>e, <2>2, <3>1, <3>2, GoesHands
    <3>4. Line(q)' = Tail(Line(q)) /\ \A r \in Nat \ {q} : Line(r)' = Line(r)
      <4>1. PICK t : t = Tail(Line(q))
        OBVIOUS
      <4>2. queues' = [queues EXCEPT ![q].items = t]
        BY <3>1, <4>1
      <4>3. queues \in Seq(QueueType)
        BY DEF BasicInv, TypeOK, QueueType
      <4>4. queues[q] \in QueueType
        BY <2>2, <4>3
      <4>5. Line(q)' = t
        BY <2>2, <4>2, <4>4 DEF Line, QueueType
      <4>6. \A r \in Nat \ {q} : Line(r)' = Line(r)
        BY <2>2, <4>2 DEF Line
      <4> QED BY <4>1, <4>5, <4>6
    <3>5. PICK x : x = p
      OBVIOUS
    <3>6. Still({w}, {q}, {}, {}) /\ lost' = lost
      BY <2>2, <3>3, <3>4 DEF Still, MadeBy, Got
    <3>7. Pops(w, x, q, v)
      BY <1>0, <2>1, <2>2, <2>5, <3>2, <3>3, <3>4, <3>5, <3>6 DEF Pops
    <3>8. x \in DOMAIN pipelines
      BY <1>0, <3>5
    <3> QED BY <1>e, <2>2, <3>2, <3>3, <3>7, <3>8 DEF Moves
  <2> QED BY <2>4, <2>5
<1>7. CASE ModuleProcess(w)
  BY <1>7, <1>b, <1>f, <1>g DEF ModuleProcess, ThreadAt, Terminates
<1>8. CASE SinkPassesOver(w)
  <2>1. workers[w].item = None /\ Goes(w, "test", None) /\ UNCHANGED data
    BY <1>8 DEF SinkPassesOver
  <2> QED BY <2>1, <1>b, <1>f
<1>9. CASE OwnSink(w)
  <2>1. /\ UNCHANGED <<queues, made, lost>> /\ Goes(w, "test", None)
        /\ workers[w].item \in Values
        /\ received' = [received EXCEPT ![p] = Append(@, workers[w].item)]
    BY <1>0, <1>9 DEF OwnSink, Items
  <2>2. PICK v : v = workers[w].item /\ v \in Values
    BY <2>1
  <2>3. PICK x : x = p
    OBVIOUS
  <2>4. /\ Grows /\ Hand(w) = v /\ Hand(w)' = None
        /\ \A u \in Nat \ {w} : Hand(u)' = Hand(u)
    BY <1>0, <1>b, <1>e, <2>1, <2>2, GoesHands
  <2>5. Got(x)' = Append(Got(x), v) /\ \A y \in Nat \ {x} : Got(y)' = Got(y)
    <3>1. x \in DOMAIN received /\ received' = [received EXCEPT ![x] = Append(@, v)]
      BY <1>0, <2>1, <2>2, <2>3
    <3>2. PICK t : t = Append(received[x], v)
      OBVIOUS
    <3>3. received' = [received EXCEPT ![x] = t]
      BY <3>1, <3>2
    <3>4. Got(x)' = t /\ \A y \in Nat \ {x} : Got(y)' = Got(y)
      BY <3>1, <3>3 DEF Got
    <3> QED BY <3>1, <3>2, <3>4 DEF Got
  <2>6. Still({w}, {}, {x}, {}) /\ lost' = lost
    BY <2>1, <2>4, <2>5 DEF Still, MadeBy, Line
  <2>7. Delivers(w, x, v)
    BY <1>0, <2>2, <2>3, <2>4, <2>5, <2>6 DEF Delivers, Holds
  <2>8. x \in DOMAIN pipelines
    BY <1>0, <2>3
  <2> QED BY <1>e, <2>2, <2>4, <2>7, <2>8 DEF Moves
<1>10. CASE Push(w)
  <2>1. PICK q : q = Pipe(w).to
    OBVIOUS
  <2>2. /\ UNCHANGED <<made, received>> /\ workers[w].item \in Values /\ Goes(w, "test", None)
        /\ q \in DOMAIN queues /\ q \in Nat
    BY <1>0, <1>10, <1>d, <2>1 DEF Push, Items
  <2>3. PICK v : v = workers[w].item /\ v \in Values
    BY <2>2
  <2>4. PICK x : x = p
    OBVIOUS
  <2>5. /\ Grows /\ Hand(w) = v /\ Hand(w)' = None
        /\ \A u \in Nat \ {w} : Hand(u)' = Hand(u)
    BY <1>0, <1>b, <1>e, <2>2, <2>3, GoesHands
  <2>6. Line(q) = queues[q].items /\ Line(q) \in Seq(Values)
    BY <2>2, Contents DEF Line
  <2>7. CASE HasRoom(q)
    <3>1. queues' = [queues EXCEPT ![q].items = Append(Line(q), v)] /\ UNCHANGED lost
      BY <1>10, <2>1, <2>3, <2>6, <2>7 DEF Push
    <3>2. Line(q)' = Append(Line(q), v) /\ \A r \in Nat \ {q} : Line(r)' = Line(r)
      <4>1. PICK t : t = Append(Line(q), v)
        OBVIOUS
      <4>2. queues' = [queues EXCEPT ![q].items = t]
        BY <3>1, <4>1
      <4>3. queues \in Seq(QueueType)
        BY DEF BasicInv, TypeOK, QueueType
      <4>4. queues[q] \in QueueType
        BY <2>2, <4>3
      <4>5. Line(q)' = t
        BY <2>2, <4>2, <4>4 DEF Line, QueueType
      <4>6. \A r \in Nat \ {q} : Line(r)' = Line(r)
        BY <2>2, <4>2 DEF Line
      <4> QED BY <4>1, <4>5, <4>6
    <3>3. Still({w}, {q}, {}, {}) /\ lost' = lost
      BY <2>2, <2>5, <3>1, <3>2 DEF Still, MadeBy, Got
    <3>4. Puts(w, x, q, v)
      BY <1>0, <2>1, <2>2, <2>3, <2>4, <2>5, <3>2, <3>3 DEF Puts, Holds
    <3>5. x \in DOMAIN pipelines
      BY <1>0, <2>4
    <3> QED BY <1>e, <2>2, <2>3, <2>5, <3>4, <3>5 DEF Moves
  <2>8. CASE ~HasRoom(q)
    <3>1. lost' = lost \union {v} /\ UNCHANGED queues
      BY <1>10, <2>1, <2>3, <2>8 DEF Push
    <3>2. Still({w}, {}, {}, {})
      BY <2>2, <2>5, <3>1 DEF Still, MadeBy, Got, Line
    <3>3. Loses(w, x, v)
      BY <2>3, <2>4, <2>5, <3>1, <3>2 DEF Loses, Holds
    <3>4. x \in DOMAIN pipelines
      BY <1>0, <2>4
    <3> QED BY <1>e, <2>3, <2>5, <3>3, <3>4 DEF Moves
  <2> QED BY <2>7, <2>8
<1>11. CASE Contend(w)
  BY <1>11, <1>g DEF Contend
<1> QED BY <1>1, <1>2, <1>3, <1>4, <1>5, <1>6, <1>7, <1>8, <1>9, <1>10, <1>11 DEF ThreadNext

\* The control thread moves no value.
LEMMA ControlEffect ==
    ASSUME BasicInv, Start \/ Stop \/ Destroy \/ ControlGoesOn
    PROVE  Grows /\ Quiet
<1>0. /\ workers \in Seq(WorkerType) /\ Len(workers) \in Nat /\ DOMAIN workers = 1..Len(workers)
      /\ DOMAIN queues = 1..Len(queues) /\ DOMAIN pipelines = 1..Len(pipelines)
      /\ Len(queues) \in Nat /\ Len(pipelines) \in Nat
      /\ DOMAIN received = DOMAIN pipelines /\ DOMAIN made = DOMAIN pipelines
  BY Ranges DEF BasicInv, TypeOK
<1>1. CASE Start \/ Stop \/ Destroy \/ JoinWorker
  <2>1. UNCHANGED <<workers, data, pipelines>>
    BY <1>1 DEF Start, Stop, Destroy, JoinWorker, mission
  <2>2. \A u \in Nat : Hand(u)' = Hand(u)
    BY <2>1 DEF Hand
  <2>3. Grows
    BY <2>1 DEF Grows
  <2> QED BY <2>1, <2>2, <2>3, StaysQuiet
<1>2. CASE StopWorker \/ DestroyWorker
  <2>1. /\ control.pc \in {"stop", "destroy"} /\ RaisesFlag(control.i)
        /\ UNCHANGED <<data, pipelines>>
    BY <1>2 DEF StopWorker, DestroyWorker, RaisesFlag, mission
  <2>2. control.i \in DOMAIN workers
    BY <2>1 DEF Joins, BasicInv
  <2>3. /\ DOMAIN workers' = DOMAIN workers
        /\ \A u \in DOMAIN workers : workers'[u].item = workers[u].item
                                     /\ workers'[u].pipeline = workers[u].pipeline
    BY <1>0, <2>1, <2>2, Flagged
  <2>4. \A u \in Nat : Hand(u)' = Hand(u)
    BY <2>3 DEF Hand
  <2>5. Grows
    BY <2>1, <2>3 DEF Grows
  <2> QED BY <2>1, <2>4, <2>5, StaysQuiet
<1>3. CASE StartWorker
  <2>1. PICK r : r = [pipeline |-> control.i, start |-> starts, stop_flag |-> FALSE, pc |-> "setup", item |-> None]
    OBVIOUS
  <2>2. workers' = Append(workers, r) /\ UNCHANGED <<data, pipelines>>
    BY <1>3, <2>1 DEF StartWorker, mission
  <2>3. r.item = None
    BY <2>1
  <2>4. /\ \A w \in DOMAIN workers : w \in DOMAIN workers' /\ workers'[w] = workers[w]
        /\ workers'[Len(workers) + 1] = r
        /\ \A w \in DOMAIN workers' : w \in DOMAIN workers \/ w = Len(workers) + 1
    BY <1>0, <2>2
  <2>5. \A u \in Nat : Hand(u)' = Hand(u)
    BY <2>3, <2>4 DEF Hand
  <2>6. Grows
    BY <2>2, <2>4 DEF Grows
  <2> QED BY <2>2, <2>5, <2>6, StaysQuiet
<1>4. CASE AddPipeline
  <2>1. Added /\ UNCHANGED <<workers, lost>>
    BY <1>4, AddPipelineAdds DEF AddPipeline
  <2>2. PICK L : L = Len(pipelines) /\ L \in Nat
    BY <1>0
  <2>3. /\ DOMAIN queues' = 1..Len(queues') /\ Len(queues') \in Nat /\ Len(queues) <= Len(queues')
        /\ DOMAIN pipelines' = 1..L+1 /\ DOMAIN made' = 1..L+1 /\ DOMAIN received' = 1..L+1
    BY <2>1, <2>2 DEF Added
  <2>4. \A u \in Nat : Hand(u)' = Hand(u)
    BY <2>1 DEF Hand
  <2>5. ASSUME NEW q \in Nat PROVE Line(q)' = Line(q)
    <3>1. CASE q \in DOMAIN queues
      <4>1. q \in DOMAIN queues' /\ queues'[q].items = queues[q].items
        BY <1>0, <2>1, <2>3, <3>1 DEF Added
      <4> QED BY <3>1, <4>1 DEF Line
    <3>2. CASE q \notin DOMAIN queues
      <4>1. q \in DOMAIN queues' => queues'[q].items = <<>>
        <5>1. q \in DOMAIN queues' => q \in Len(queues) + 1 .. Len(queues')
          BY <1>0, <2>3, <3>2
        <5> QED BY <2>1, <5>1 DEF Added
      <4> QED BY <3>2, <4>1 DEF Line
    <3> QED BY <3>1, <3>2
  <2>6. ASSUME NEW x \in Nat PROVE Got(x)' = Got(x) /\ MadeBy(x)' = MadeBy(x)
    <3>1. CASE x \in 1..L
      <4>1. x \in 1..L+1 /\ received'[x] = received[x] /\ made'[x] = made[x]
        BY <2>1, <2>2, <3>1 DEF Added
      <4> QED BY <1>0, <2>2, <2>3, <3>1, <4>1 DEF Got, MadeBy
    <3>2. CASE x = L + 1
      <4>1. received'[x] = <<>> /\ made'[x] = 0 /\ x \notin 1..L
        BY <2>1, <2>2, <3>2 DEF Added
      <4> QED BY <1>0, <2>2, <2>3, <4>1 DEF Got, MadeBy
    <3>3. CASE x \notin 1..L+1
      <4>1. x \notin 1..L
        BY <2>2, <3>3
      <4> QED BY <1>0, <2>2, <2>3, <3>3, <4>1 DEF Got, MadeBy
    <3> QED BY <2>2, <3>1, <3>2, <3>3
  <2>7. Grows
    <3>1. \A p \in DOMAIN pipelines : p \in DOMAIN pipelines' /\ pipelines'[p] = pipelines[p]
      BY <1>0, <2>1, <2>2, <2>3 DEF Added
    <3> QED BY <2>1, <3>1 DEF Grows
  <2> QED BY <2>1, <2>4, <2>5, <2>6, <2>7 DEF Quiet, Still
<1> QED BY <1>1, <1>2, <1>3, <1>4 DEF ControlGoesOn

\* A step leaves all values where they are, or moves one.
LEMMA Effect ==
    ASSUME BasicInv, [Next]_vars
    PROVE  Grows /\ (Quiet \/ Moves)
<1>1. CASE Start \/ Stop \/ Destroy \/ ControlGoesOn
  BY <1>1, ControlEffect
<1>2. CASE \E w \in DOMAIN workers : ThreadNext(w)
  BY <1>2, ThreadEffect
<1>3. CASE UNCHANGED vars
  <2>1. UNCHANGED <<workers, data, pipelines>>
    BY <1>3 DEF vars, mission
  <2>2. \A u \in Nat : Hand(u)' = Hand(u)
    BY <2>1 DEF Hand
  <2>3. Grows
    BY <2>1 DEF Grows
  <2> QED BY <2>1, <2>2, <2>3, StaysQuiet
<1> QED BY <1>1, <1>2, <1>3 DEF Next

-----------------------------------------------------------------------------
(* PlacesInv is an invariant *)

\* A value is a pipeline and a number.
LEMMA ValueParts ==
    ASSUME NEW v \in Values
    PROVE  /\ v[1] \in 1..MaxWorkers /\ v[2] \in 1..MaxValues /\ v[1] \in Nat /\ v[2] \in Nat \ {0}
           /\ v # None /\ v = <<v[1], v[2]>>
BY NoneAssumption, BoundsAssumption DEF Values

\* At first there is no value.
LEMMA PlacesInit == Init => PlacesInv
<1> SUFFICES ASSUME Init, NEW v \in Values PROVE (IsMade(v) <=> Somewhere(v)) /\ Once(v)
  BY DEF PlacesInv
<1>1. \A a : Line(a) = <<>> /\ Hand(a) = None /\ Got(a) = <<>> /\ MadeBy(a) = 0
  BY DEF Init, Line, Hand, Got, MadeBy
<1>2. v # None /\ v[2] \in Nat \ {0} /\ lost = {}
  BY ValueParts DEF Init
<1>3. \A k, a, b : ~IsAt(v, k, a, b)
  BY <1>1, <1>2 DEF IsAt
<1>4. ~IsMade(v)
  BY <1>1, <1>2 DEF IsMade
<1> QED BY <1>3, <1>4 DEF Somewhere, Once

\* Where nothing moves.
LEMMA PlacesQuiet ==
    ASSUME PlacesInv, Quiet
    PROVE  PlacesInv'
<1> SUFFICES ASSUME NEW v \in Values PROVE ((IsMade(v) <=> Somewhere(v)) /\ Once(v))'
  BY DEF PlacesInv
<1>1. (IsMade(v) <=> Somewhere(v)) /\ Once(v)
  BY DEF PlacesInv
<1>2. \A k \in Kinds : \A a, b \in Nat : IsAt(v, k, a, b)' <=> IsAt(v, k, a, b)
  <2> TAKE k \in Kinds
  <2> TAKE a, b \in Nat
  <2>1. Line(a)' = Line(a) /\ Hand(a)' = Hand(a) /\ Got(a)' = Got(a) /\ lost' = lost
    BY DEF Quiet, Still
  <2> QED BY <2>1 DEF IsAt
<1>3. IsMade(v)' <=> IsMade(v)
  BY ValueParts DEF Quiet, Still, IsMade
<1> QED BY <1>1, <1>2, <1>3 DEF Somewhere, Once

\* A new value.
LEMMA PlacesMake ==
    ASSUME BasicInv, PlacesInv, NEW w \in Nat, NEW p \in Nat, NEW x \in Values, Makes(w, p, x)
    PROVE  PlacesInv'
<1> SUFFICES ASSUME NEW v \in Values PROVE ((IsMade(v) <=> Somewhere(v)) /\ Once(v))'
  BY DEF PlacesInv
<1>1. (IsMade(v) <=> Somewhere(v)) /\ Once(v) /\ v # None /\ v[1] \in Nat /\ v[2] \in Nat /\ v = <<v[1], v[2]>>
  BY ValueParts DEF PlacesInv
<1>2. /\ x = <<p, MadeBy(p) + 1>> /\ x[1] = p /\ x[2] = MadeBy(p) + 1 /\ MadeBy(p)' = MadeBy(p) + 1
      /\ Hand(w) = None /\ Hand(w)' = x /\ x # None
  BY ValueParts DEF Makes
<1>3. MadeBy(p) \in Nat
  BY Contents, BoundsAssumption
<1>4. \A k \in Kinds : \A a, b \in Nat :
        IsAt(v, k, a, b)' <=> \/ IsAt(v, k, a, b)
                              \/ k = "worker" /\ a = w /\ b = 0 /\ v = x
  <2> TAKE k \in Kinds
  <2> TAKE a, b \in Nat
  <2>1. Line(a)' = Line(a) /\ (a # w => Hand(a)' = Hand(a)) /\ Got(a)' = Got(a) /\ lost' = lost
    BY DEF Makes, Still
  <2> QED BY <1>1, <1>2, <2>1 DEF IsAt
<1>5. CASE v = x
  <2>1. ~IsMade(v) /\ IsMade(v)'
    BY <1>2, <1>3, <1>5 DEF IsMade
  <2>2. \A k \in Kinds : \A a, b \in Nat : ~IsAt(v, k, a, b)
    BY <1>1, <2>1 DEF Somewhere
  <2>3. IsAt(v, "worker", w, 0)' /\ "worker" \in Kinds /\ 0 \in Nat
    BY <1>4, <1>5 DEF Kinds
  <2>4. Somewhere(v)'
    BY <2>3 DEF Somewhere
  <2>5. Once(v)'
    BY <1>4, <2>2 DEF Once
  <2> QED BY <2>1, <2>4, <2>5
<1>6. CASE v # x
  <2>1. IsMade(v)' <=> IsMade(v)
    <3>1. CASE v[1] # p
      <4>1. MadeBy(v[1])' = MadeBy(v[1])
        BY <1>1, <3>1 DEF Makes, Still
      <4> QED BY <4>1 DEF IsMade
    <3>2. CASE v[1] = p
      <4>1. v[2] # MadeBy(p) + 1
        BY <1>1, <1>2, <1>6, <3>2
      <4> QED BY <1>1, <1>2, <1>3, <3>2, <4>1 DEF IsMade
    <3> QED BY <3>1, <3>2
  <2> QED BY <1>1, <1>4, <1>6, <2>1 DEF Somewhere, Once
<1> QED BY <1>5, <1>6

\* A value is popped.
LEMMA PlacesPop ==
    ASSUME BasicInv, PlacesInv, NEW w \in Nat, NEW p \in Nat, NEW q \in Nat, NEW x \in Values, Pops(w, p, q, x)
    PROVE  PlacesInv'
<1> SUFFICES ASSUME NEW v \in Values PROVE ((IsMade(v) <=> Somewhere(v)) /\ Once(v))'
  BY DEF PlacesInv
<1>1. (IsMade(v) <=> Somewhere(v)) /\ Once(v) /\ v # None /\ v[1] \in Nat
  BY ValueParts DEF PlacesInv
<1>2. /\ Line(q) \in Seq(Values) /\ Line(q) # <<>> /\ Hand(w) = None /\ Hand(w)' = x
      /\ x = Head(Line(q)) /\ Line(q)' = Tail(Line(q)) /\ lost' = lost
  BY Contents DEF Pops
<1>3. PICK n \in Nat \ {0} : n = Len(Line(q))
  BY <1>2
<1>4. /\ DOMAIN Line(q) = 1..n /\ Line(q)[1] = x /\ DOMAIN Line(q)' = 1..n-1
      /\ \A i \in 1..n-1 : Line(q)'[i] = Line(q)[i + 1]
  BY <1>2, <1>3
<1>5. \A k \in Kinds : \A a, b \in Nat :
        IsAt(v, k, a, b)' <=>
          \/ k = "queue" /\ a = q /\ b \in 1..n-1 /\ IsAt(v, "queue", q, b + 1)
          \/ k = "worker" /\ a = w /\ b = 0 /\ IsAt(v, "queue", q, 1)
          \/ ~(k = "queue" /\ a = q) /\ ~(k = "worker" /\ a = w) /\ IsAt(v, k, a, b)
  <2> TAKE k \in Kinds
  <2> TAKE a, b \in Nat
  <2>1. (a # q => Line(a)' = Line(a)) /\ (a # w => Hand(a)' = Hand(a)) /\ Got(a)' = Got(a)
    BY DEF Pops, Still
  <2>2. IsAt(v, "queue", q, 1) <=> x = v
    BY <1>4 DEF IsAt
  <2>3. b \in 1..n-1 => (IsAt(v, "queue", q, b + 1) <=> Line(q)'[b] = v)
    BY <1>4 DEF IsAt
  <2>4. CASE k = "queue"
    BY <1>4, <2>1, <2>3, <2>4 DEF IsAt
  <2>5. CASE k = "worker"
    BY <1>1, <1>2, <2>1, <2>2, <2>5 DEF IsAt
  <2>6. CASE k = "sink"
    BY <2>1, <2>6 DEF IsAt
  <2>7. CASE k = "lost"
    BY <1>2, <2>7 DEF IsAt
  <2> QED BY <2>4, <2>5, <2>6, <2>7 DEF Kinds
<1>6. IsMade(v)' <=> IsMade(v)
  BY <1>1 DEF Pops, Still, IsMade
<1>k. "queue" \in Kinds /\ "worker" \in Kinds /\ 0 \in Nat /\ 1 \in Nat
  BY DEF Kinds
<1>7. Somewhere(v)' => Somewhere(v)
  <2> SUFFICES ASSUME Somewhere(v)' PROVE Somewhere(v)
    OBVIOUS
  <2>1. PICK k \in Kinds : \E a, b \in Nat : IsAt(v, k, a, b)'
    BY DEF Somewhere
  <2>2. PICK a \in Nat, b \in Nat : IsAt(v, k, a, b)'
    BY <2>1
  <2>3. b + 1 \in Nat
    OBVIOUS
  <2> QED BY <1>5, <1>k, <2>2, <2>3 DEF Somewhere
<1>8. Somewhere(v) => Somewhere(v)'
  <2> SUFFICES ASSUME Somewhere(v) PROVE Somewhere(v)'
    OBVIOUS
  <2>1. PICK k \in Kinds : \E a, b \in Nat : IsAt(v, k, a, b)
    BY DEF Somewhere
  <2>2. PICK a \in Nat, b \in Nat : IsAt(v, k, a, b)
    BY <2>1
  <2>3. CASE k = "queue" /\ a = q
    <3>1. b \in 1..n
      BY <1>4, <2>2, <2>3 DEF IsAt
    <3>2. CASE b = 1
      <4>1. IsAt(v, "worker", w, 0)'
        BY <1>5, <1>k, <2>2, <2>3, <3>2
      <4> QED BY <1>k, <4>1 DEF Somewhere
    <3>3. CASE b # 1
      <4>1. b - 1 \in 1..n-1 /\ b - 1 \in Nat /\ (b - 1) + 1 = b
        BY <3>1, <3>3
      <4>2. IsAt(v, "queue", q, b - 1)'
        BY <1>5, <1>k, <2>2, <2>3, <4>1
      <4> QED BY <1>k, <4>1, <4>2 DEF Somewhere
    <3> QED BY <3>2, <3>3
  <2>4. CASE ~(k = "queue" /\ a = q)
    <3>1. ~(k = "worker" /\ a = w)
      BY <1>1, <1>2, <2>2 DEF IsAt
    <3> QED BY <1>5, <2>2, <2>4, <3>1 DEF Somewhere
  <2> QED BY <2>3, <2>4
<1>9. Once(v)'
  <2> SUFFICES ASSUME NEW k \in Kinds, NEW l \in Kinds, NEW a \in Nat, NEW b \in Nat, NEW c \in Nat, NEW d \in Nat,
                      IsAt(v, k, a, b)', IsAt(v, l, c, d)'
               PROVE  k = l /\ a = c /\ b = d
    BY DEF Once
  <2>1. \A i, j \in Nat : IsAt(v, "queue", q, i) /\ IsAt(v, "queue", q, j) => i = j
    BY <1>1, <1>k DEF Once
  <2>2. \A i \in Nat : IsAt(v, "queue", q, i) /\ IsAt(v, k, a, b) => k = "queue" /\ a = q /\ b = i
    BY <1>1, <1>k DEF Once
  <2>3. \A i \in Nat : IsAt(v, "queue", q, i) /\ IsAt(v, l, c, d) => l = "queue" /\ c = q /\ d = i
    BY <1>1, <1>k DEF Once
  <2>4. IsAt(v, k, a, b) /\ IsAt(v, l, c, d) => k = l /\ a = c /\ b = d
    BY <1>1 DEF Once
  <2>5. b + 1 \in Nat /\ d + 1 \in Nat /\ (b + 1 = d + 1 => b = d) /\ (b \in 1..n-1 => b + 1 # 1) /\ (d \in 1..n-1 => d + 1 # 1)
    OBVIOUS
  <2>6. \/ k = "queue" /\ a = q /\ b \in 1..n-1 /\ IsAt(v, "queue", q, b + 1)
        \/ k = "worker" /\ a = w /\ b = 0 /\ IsAt(v, "queue", q, 1)
        \/ ~(k = "queue" /\ a = q) /\ ~(k = "worker" /\ a = w) /\ IsAt(v, k, a, b)
    BY <1>5
  <2>7. \/ l = "queue" /\ c = q /\ d \in 1..n-1 /\ IsAt(v, "queue", q, d + 1)
        \/ l = "worker" /\ c = w /\ d = 0 /\ IsAt(v, "queue", q, 1)
        \/ ~(l = "queue" /\ c = q) /\ ~(l = "worker" /\ c = w) /\ IsAt(v, l, c, d)
    BY <1>5
  <2> QED BY <1>k, <2>1, <2>2, <2>3, <2>4, <2>5, <2>6, <2>7
<1> QED BY <1>1, <1>6, <1>7, <1>8, <1>9

HandedOver(w, x, K, A, B) ==
    \A v \in Values : \A k \in Kinds : \A a, b \in Nat :
        IsAt(v, k, a, b)' <=> \/ v = x /\ k = K /\ a = A /\ b = B
                              \/ ~(k = "worker" /\ a = w) /\ IsAt(v, k, a, b)

\* A value leaves a worker's hands for one new place.
LEMMA PlacesHandOver ==
    ASSUME PlacesInv, NEW w \in Nat, NEW p, NEW x \in Values, Holds(w, p, x),
           NEW K \in Kinds, NEW A \in Nat, NEW B \in Nat,
           \A y \in Nat : MadeBy(y)' = MadeBy(y),
           HandedOver(w, x, K, A, B)
    PROVE  PlacesInv'
<1> SUFFICES ASSUME NEW v \in Values PROVE ((IsMade(v) <=> Somewhere(v)) /\ Once(v))'
  BY DEF PlacesInv
<1>1. (IsMade(v) <=> Somewhere(v)) /\ Once(v) /\ v # None /\ v[1] \in Nat
  BY ValueParts DEF PlacesInv
<1>2. IsMade(v)' <=> IsMade(v)
  BY <1>1 DEF IsMade
<1>3. "worker" \in Kinds /\ 0 \in Nat /\ IsAt(x, "worker", w, 0)
  BY DEF Kinds, IsAt, Holds
<1>4. CASE v = x
  <2>1. \A k \in Kinds : \A a, b \in Nat : IsAt(v, k, a, b) => k = "worker" /\ a = w
    BY <1>1, <1>3, <1>4 DEF Once
  <2>2. \A k \in Kinds : \A a, b \in Nat : IsAt(v, k, a, b)' <=> k = K /\ a = A /\ b = B
    BY <1>4, <2>1 DEF HandedOver
  <2>3. Somewhere(v) /\ Somewhere(v)'
    BY <1>3, <1>4, <2>2 DEF Somewhere
  <2>4. Once(v)'
    BY <2>2 DEF Once
  <2> QED BY <1>1, <1>2, <2>3, <2>4
<1>5. CASE v # x
  <2>1. \A k \in Kinds : \A a, b \in Nat : IsAt(v, k, a, b)' <=> IsAt(v, k, a, b)
    <3> TAKE k \in Kinds
    <3> TAKE a, b \in Nat
    <3>1. k = "worker" /\ a = w => ~IsAt(v, k, a, b)
      BY <1>5 DEF IsAt, Holds
    <3> QED BY <1>5, <3>1 DEF HandedOver
  <2> QED BY <1>1, <1>2, <2>1 DEF Somewhere, Once
<1> QED BY <1>4, <1>5

\* A value that is moved is in one place again.
LEMMA PlacesMove ==
    ASSUME BasicInv, PlacesInv, Moves
    PROVE  PlacesInv'
<1>1. PICK w \in DOMAIN workers, p \in DOMAIN pipelines, x \in Values :
         \/ Makes(w, p, x) \/ Delivers(w, p, x) \/ Loses(w, p, x)
         \/ \E q \in DOMAIN queues : Pops(w, p, q, x) \/ Puts(w, p, q, x)
  BY DEF Moves
<1>2. w \in Nat /\ p \in Nat /\ (\A q \in DOMAIN queues : q \in Nat) /\ x # None
  BY Ranges, ValueParts
<1>k. "queue" \in Kinds /\ "sink" \in Kinds /\ "lost" \in Kinds /\ 0 \in Nat /\ \A v \in Values : v # None
  BY ValueParts DEF Kinds
<1>3. CASE Makes(w, p, x)
  BY <1>2, <1>3, PlacesMake
<1>4. CASE Delivers(w, p, x)
  <2>1. /\ Got(p) \in Seq(Values) /\ Got(p)' = Append(Got(p), x) /\ Holds(w, p, x) /\ lost' = lost
        /\ Hand(w)' = None
    BY <1>2, <1>4, Contents DEF Delivers, Holds
  <2>2. PICK n \in Nat, m \in Nat : n = Len(Got(p)) /\ m = n + 1
    BY <2>1
  <2>3. DOMAIN Got(p) = 1..n /\ DOMAIN Got(p)' = 1..m /\ Got(p)'[m] = x /\ \A i \in 1..n : Got(p)'[i] = Got(p)[i]
    BY <2>1, <2>2
  <2>4. \A y \in Nat : MadeBy(y)' = MadeBy(y)
    BY <1>4 DEF Delivers, Still
  <2>5. ASSUME NEW v \in Values, NEW k \in Kinds, NEW a \in Nat, NEW b \in Nat
        PROVE  IsAt(v, k, a, b)' <=> \/ v = x /\ k = "sink" /\ a = p /\ b = m
                                     \/ ~(k = "worker" /\ a = w) /\ IsAt(v, k, a, b)
    <3>1. Line(a)' = Line(a) /\ (a # w => Hand(a)' = Hand(a)) /\ (a # p => Got(a)' = Got(a))
      BY <1>4 DEF Delivers, Still
    <3>2. CASE k = "queue"
      BY <3>1, <3>2 DEF IsAt
    <3>3. CASE k = "worker"
      BY <1>k, <2>1, <3>1, <3>3 DEF IsAt
    <3>4. CASE k = "sink"
      <4>1. CASE a # p
        BY <3>1, <3>4, <4>1 DEF IsAt
      <4>2. CASE a = p
        BY <2>2, <2>3, <3>4, <4>2 DEF IsAt
      <4> QED BY <4>1, <4>2
    <3>5. CASE k = "lost"
      BY <2>1, <3>5 DEF IsAt
    <3> QED BY <3>2, <3>3, <3>4, <3>5 DEF Kinds
  <2>6. HandedOver(w, x, "sink", p, m)
    BY <2>5 DEF HandedOver
  <2> QED BY <1>2, <1>k, <2>1, <2>2, <2>4, <2>6, PlacesHandOver
<1>5. CASE Loses(w, p, x)
  <2>1. Holds(w, p, x) /\ lost' = lost \union {x} /\ Hand(w)' = None
    BY <1>5 DEF Loses, Holds
  <2>2. \A y \in Nat : MadeBy(y)' = MadeBy(y)
    BY <1>5 DEF Loses, Still
  <2>3. ASSUME NEW v \in Values, NEW k \in Kinds, NEW a \in Nat, NEW b \in Nat
        PROVE  IsAt(v, k, a, b)' <=> \/ v = x /\ k = "lost" /\ a = 0 /\ b = 0
                                     \/ ~(k = "worker" /\ a = w) /\ IsAt(v, k, a, b)
    <3>1. Line(a)' = Line(a) /\ (a # w => Hand(a)' = Hand(a)) /\ Got(a)' = Got(a)
      BY <1>5 DEF Loses, Still
    <3>2. CASE k = "queue"
      BY <3>1, <3>2 DEF IsAt
    <3>3. CASE k = "worker"
      BY <1>k, <2>1, <3>1, <3>3 DEF IsAt
    <3>4. CASE k = "sink"
      BY <3>1, <3>4 DEF IsAt
    <3>5. CASE k = "lost"
      BY <2>1, <3>5 DEF IsAt
    <3> QED BY <3>2, <3>3, <3>4, <3>5 DEF Kinds
  <2>4. HandedOver(w, x, "lost", 0, 0)
    BY <2>3 DEF HandedOver
  <2> QED BY <1>2, <1>k, <2>1, <2>2, <2>4, PlacesHandOver
<1>6. CASE \E q \in DOMAIN queues : Pops(w, p, q, x)
  BY <1>2, <1>6, PlacesPop
<1>7. CASE \E q \in DOMAIN queues : Puts(w, p, q, x)
  <2>0. PICK q \in Nat : Puts(w, p, q, x)
    BY <1>2, <1>7
  <2>1. /\ q \in Nat /\ Line(q) \in Seq(Values) /\ Line(q)' = Append(Line(q), x) /\ Holds(w, p, x)
        /\ lost' = lost /\ Hand(w)' = None
    BY <1>2, <2>0, Contents DEF Puts, Holds
  <2>2. PICK n \in Nat, m \in Nat : n = Len(Line(q)) /\ m = n + 1
    BY <2>1
  <2>3. DOMAIN Line(q) = 1..n /\ DOMAIN Line(q)' = 1..m /\ Line(q)'[m] = x /\ \A i \in 1..n : Line(q)'[i] = Line(q)[i]
    BY <2>1, <2>2
  <2>4. \A y \in Nat : MadeBy(y)' = MadeBy(y)
    BY <2>0 DEF Puts, Still
  <2>5. ASSUME NEW v \in Values, NEW k \in Kinds, NEW a \in Nat, NEW b \in Nat
        PROVE  IsAt(v, k, a, b)' <=> \/ v = x /\ k = "queue" /\ a = q /\ b = m
                                     \/ ~(k = "worker" /\ a = w) /\ IsAt(v, k, a, b)
    <3>1. Got(a)' = Got(a) /\ (a # w => Hand(a)' = Hand(a)) /\ (a # q => Line(a)' = Line(a))
      BY <2>0 DEF Puts, Still
    <3>2. CASE k = "sink"
      BY <3>1, <3>2 DEF IsAt
    <3>3. CASE k = "worker"
      BY <1>k, <2>1, <3>1, <3>3 DEF IsAt
    <3>4. CASE k = "queue"
      <4>1. CASE a # q
        BY <3>1, <3>4, <4>1 DEF IsAt
      <4>2. CASE a = q
        BY <2>2, <2>3, <3>4, <4>2 DEF IsAt
      <4> QED BY <4>1, <4>2
    <3>5. CASE k = "lost"
      BY <2>1, <3>5 DEF IsAt
    <3> QED BY <3>2, <3>3, <3>4, <3>5 DEF Kinds
  <2>6. HandedOver(w, x, "queue", q, m)
    BY <2>5 DEF HandedOver
  <2> QED BY <1>2, <1>k, <2>1, <2>2, <2>4, <2>6, PlacesHandOver
<1> QED BY <1>1, <1>3, <1>4, <1>5, <1>6, <1>7

\* Every step keeps PlacesInv.
LEMMA PlacesNext == BasicInv /\ PlacesInv /\ [Next]_vars => PlacesInv'
BY Effect, PlacesQuiet, PlacesMove

\* The places of a value that has been made are one.
LEMMA PlacesCount == BasicInv /\ PlacesInv => EachValueInOnePlace
<1> SUFFICES ASSUME BasicInv, PlacesInv, NEW p \in DOMAIN made, NEW n \in 1..made[p]
             PROVE  Cardinality(Places(<<p, n>>)) = 1
  BY DEF EachValueInOnePlace
<1>1. /\ p \in DOMAIN pipelines /\ p \in 1..MaxWorkers /\ p \in Nat
  BY Ranges, BoundsAssumption DEF BasicInv, Room
<1>2. made[p] = MadeBy(p) /\ MadeBy(p) \in 0..MaxValues
  BY <1>1, Contents DEF MadeBy
<1>3. PICK v \in Values : v = <<p, n>> /\ v[1] = p /\ v[2] = n
  <2>1. n \in 1..MaxValues
    BY <1>2, BoundsAssumption
  <2>2. <<p, n>> \in Values
    BY <1>1, <2>1 DEF Values
  <2> QED BY <2>2
<1>4. v # None /\ IsMade(v)
  BY <1>1, <1>2, <1>3, ValueParts DEF IsMade
<1>5. Somewhere(v) /\ Once(v)
  BY <1>4 DEF PlacesInv
<1>6. PICK k \in Kinds : \E a, b \in Nat : IsAt(v, k, a, b)
  BY <1>5 DEF Somewhere
<1>7. PICK a \in Nat, b \in Nat : IsAt(v, k, a, b)
  BY <1>6
<1>8. \A l \in Kinds : \A c, d \in Nat : IsAt(v, l, c, d) => k = l /\ a = c /\ b = d
  BY <1>5, <1>7 DEF Once
<1>9. \A e : e \in Places(v) <=>
         \/ \E q \in Nat, i \in Nat : e = <<"queue", q, i>> /\ IsAt(v, "queue", q, i)
         \/ \E w \in Nat : e = <<"worker", w>> /\ IsAt(v, "worker", w, 0)
         \/ \E s \in Nat, i \in Nat : e = <<"sink", s, i>> /\ IsAt(v, "sink", s, i)
         \/ e = <<"lost">> /\ IsAt(v, "lost", 0, 0)
  <2> TAKE e
  <2>1. (\E q \in DOMAIN queues : e \in {<<"queue", q, i>> : i \in {j \in DOMAIN queues[q].items : queues[q].items[j] = v}})
          <=> \E q \in Nat, i \in Nat : e = <<"queue", q, i>> /\ IsAt(v, "queue", q, i)
    <3>1. ASSUME NEW q \in DOMAIN queues, NEW i \in DOMAIN queues[q].items, queues[q].items[i] = v
          PROVE  q \in Nat /\ i \in Nat /\ IsAt(v, "queue", q, i)
      <4>1. q \in Nat /\ Line(q) = queues[q].items /\ Line(q) \in Seq(Values)
        BY Ranges, Contents DEF Line
      <4> QED BY <3>1, <4>1 DEF IsAt
    <3>2. ASSUME NEW q \in Nat, NEW i \in Nat, IsAt(v, "queue", q, i)
          PROVE  q \in DOMAIN queues /\ i \in DOMAIN queues[q].items /\ queues[q].items[i] = v
      <4>1. i \in DOMAIN Line(q) /\ Line(q)[i] = v
        BY <3>2 DEF IsAt
      <4>2. Line(q) # <<>>
        BY <4>1
      <4> QED BY <4>1, <4>2, Contents DEF Line
    <3> QED BY <3>1, <3>2
  <2>2. e \in {<<"worker", w>> : w \in {u \in DOMAIN workers : InHands(u) /\ workers[u].item = v}}
          <=> \E w \in Nat : e = <<"worker", w>> /\ IsAt(v, "worker", w, 0)
    <3>1. ASSUME NEW w \in DOMAIN workers, InHands(w), workers[w].item = v
          PROVE  w \in Nat /\ IsAt(v, "worker", w, 0)
      BY <3>1, Ranges DEF IsAt, Hand
    <3>2. ASSUME NEW w \in Nat, IsAt(v, "worker", w, 0)
          PROVE  w \in DOMAIN workers /\ InHands(w) /\ workers[w].item = v
      <4>1. Hand(w) = v
        BY <3>2 DEF IsAt
      <4> QED BY <1>4, <4>1, Contents DEF Hand, InHands
    <3> QED BY <3>1, <3>2
  <2>3. (\E s \in DOMAIN received : e \in {<<"sink", s, i>> : i \in {j \in DOMAIN received[s] : received[s][j] = v}})
          <=> \E s \in Nat, i \in Nat : e = <<"sink", s, i>> /\ IsAt(v, "sink", s, i)
    <3>1. ASSUME NEW s \in DOMAIN received, NEW i \in DOMAIN received[s], received[s][i] = v
          PROVE  s \in Nat /\ i \in Nat /\ IsAt(v, "sink", s, i)
      <4>1. s \in Nat /\ Got(s) = received[s] /\ Got(s) \in Seq(Values)
        BY Ranges, Contents DEF Got
      <4> QED BY <3>1, <4>1 DEF IsAt
    <3>2. ASSUME NEW s \in Nat, NEW i \in Nat, IsAt(v, "sink", s, i)
          PROVE  s \in DOMAIN received /\ i \in DOMAIN received[s] /\ received[s][i] = v
      <4>1. i \in DOMAIN Got(s) /\ Got(s)[i] = v
        BY <3>2 DEF IsAt
      <4>2. s \in DOMAIN received
        BY <4>1 DEF Got
      <4> QED BY <4>1, <4>2 DEF Got
    <3> QED BY <3>1, <3>2
  <2>4. e \in {<<"lost">> : u \in {v} \intersect lost} <=> e = <<"lost">> /\ IsAt(v, "lost", 0, 0)
    BY DEF IsAt
  <2> DEFINE Qs == {{<<"queue", q, i>> : i \in {j \in DOMAIN queues[q].items : queues[q].items[j] = v}} :
                            q \in DOMAIN queues}
             Ws == {<<"worker", w>> : w \in {u \in DOMAIN workers : InHands(u) /\ workers[u].item = v}}
             Ss == {{<<"sink", s, i>> : i \in {j \in DOMAIN received[s] : received[s][j] = v}} :
                            s \in DOMAIN received}
             Ls == {<<"lost">> : u \in {v} \intersect lost}
  <2>5. Places(v) = (UNION Qs) \union Ws \union (UNION Ss) \union Ls
    BY DEF Places
  <2>6. e \in UNION Qs <=> \E q \in Nat, i \in Nat : e = <<"queue", q, i>> /\ IsAt(v, "queue", q, i)
    <3>1. e \in UNION Qs <=> \E q \in DOMAIN queues :
            e \in {<<"queue", q, i>> : i \in {j \in DOMAIN queues[q].items : queues[q].items[j] = v}}
      OBVIOUS
    <3> HIDE DEF Qs
    <3> QED BY <2>1, <3>1
  <2>7. e \in UNION Ss <=> \E s \in Nat, i \in Nat : e = <<"sink", s, i>> /\ IsAt(v, "sink", s, i)
    <3>1. e \in UNION Ss <=> \E s \in DOMAIN received :
            e \in {<<"sink", s, i>> : i \in {j \in DOMAIN received[s] : received[s][j] = v}}
      OBVIOUS
    <3> HIDE DEF Ss
    <3> QED BY <2>3, <3>1
  <2>8. e \in Ws <=> \E w \in Nat : e = <<"worker", w>> /\ IsAt(v, "worker", w, 0)
    BY <2>2
  <2>9. e \in Ls <=> e = <<"lost">> /\ IsAt(v, "lost", 0, 0)
    BY <2>4
  <2> HIDE DEF Qs, Ws, Ss, Ls
  <2>10. e \in Places(v) <=> e \in UNION Qs \/ e \in Ws \/ e \in UNION Ss \/ e \in Ls
    BY <2>5
  <2> QED BY <2>6, <2>7, <2>8, <2>9, <2>10
<1>10. \E e : Places(v) = {e}
  <2>0. {"queue", "worker", "sink", "lost"} = Kinds /\ 0 \in Nat
    BY DEF Kinds
  <2>1. CASE k = "queue"
    <3>0. PICK t : t = <<"queue", a, b>>
      OBVIOUS
    <3>1. \A e : e \in Places(v) <=> e = t
      BY <1>7, <1>8, <1>9, <2>0, <2>1, <3>0
    <3> QED BY <3>1
  <2>2. CASE k = "worker"
    <3>1. b = 0
      BY <1>7, <2>2 DEF IsAt
    <3>0. PICK t : t = <<"worker", a>>
      OBVIOUS
    <3>2. \A e : e \in Places(v) <=> e = t
      BY <1>7, <1>8, <1>9, <2>0, <2>2, <3>0, <3>1
    <3> QED BY <3>2
  <2>3. CASE k = "sink"
    <3>0. PICK t : t = <<"sink", a, b>>
      OBVIOUS
    <3>1. \A e : e \in Places(v) <=> e = t
      BY <1>7, <1>8, <1>9, <2>0, <2>3, <3>0
    <3> QED BY <3>1
  <2>4. CASE k = "lost"
    <3>1. a = 0 /\ b = 0
      BY <1>7, <2>4 DEF IsAt
    <3>0. PICK t : t = <<"lost">>
      OBVIOUS
    <3>2. \A e : e \in Places(v) <=> e = t
      BY <1>7, <1>8, <1>9, <2>0, <2>4, <3>0, <3>1
    <3> QED BY <3>2
  <2> QED BY <2>1, <2>2, <2>3, <2>4 DEF Kinds
<1> QED BY <1>3, <1>10, FS_Singleton

\* A value that a source has made is in one place: it is not lost on the way,
\* nor duplicated, unless a full queue refuses it (QueueSink.hpp:13).
THEOREM ValuesInOnePlace == Spec => []EachValueInOnePlace
<1> DEFINE Inv == BasicInv /\ PlacesInv
<1>1. Init => Inv
  BY BasicInit, PlacesInit
<1>2. Inv /\ [Next]_vars => Inv'
  BY BasicNext, PlacesNext
<1>3. Inv => EachValueInOnePlace
  BY PlacesCount
<1> QED BY <1>1, <1>2, <1>3, PTL DEF Spec

-----------------------------------------------------------------------------
(* WiringInv is an invariant *)

Framed ==
    /\ pipelines' = pipelines /\ build' = build
    /\ Len(queues') = Len(queues) /\ DOMAIN queues' = DOMAIN queues
    /\ \A q \in DOMAIN queues : queues'[q].used = queues[q].used

\* A step that leaves queues alone.
LEMMA FramedStays ==
    ASSUME UNCHANGED <<pipelines, build, queues>>
    PROVE  Framed
BY DEF Framed

\* A step that changes what a queue holds.
LEMMA FramedItems ==
    ASSUME BasicInv, UNCHANGED <<pipelines, build>>, NEW q \in DOMAIN queues, NEW items,
           queues' = [queues EXCEPT ![q].items = items]
    PROVE  Framed
<1>1. queues \in Seq(QueueType) /\ queues[q] \in QueueType
  <2>1. queues \in Seq(QueueType)
    BY DEF BasicInv, TypeOK, QueueType
  <2> QED BY <2>1
<1>2. PICK x : x = [queues[q] EXCEPT !.items = items]
  OBVIOUS
<1>3. x.used = queues[q].used
  BY <1>1, <1>2 DEF QueueType
<1>4. PICK new : new = queues'
  OBVIOUS
<1>5. new = [queues EXCEPT ![q] = x]
  BY <1>2, <1>4
<1>6. Len(new) = Len(queues) /\ DOMAIN new = DOMAIN queues /\ new[q] = x
      /\ \A r \in DOMAIN queues : r # q => new[r] = queues[r]
  BY <1>1, <1>5
<1>7. \A r \in DOMAIN queues : new[r].used = queues[r].used
  BY <1>3, <1>6
<1> QED BY <1>4, <1>6, <1>7 DEF Framed

\* All steps but the one of build() leave pipelines and queues alone.
LEMMA Frame ==
    ASSUME BasicInv, [Next]_vars
    PROVE  \/ AddPipeline
           \/ /\ Framed
              /\ \/ control' = control
                 \/ control.pc = "idle" /\ control' = At("build", 1)
                 \/ control.pc # "build" /\ control'.pc # "build"
<1>1. CASE Start \/ Stop \/ Destroy \/ StartWorker \/ StopWorker \/ DestroyWorker \/ JoinWorker
  <2>1. UNCHANGED <<pipelines, build, queues>>
    BY <1>1 DEF Start, Stop, Destroy, StartWorker, StopWorker, DestroyWorker, JoinWorker, mission, data
  <2>2. \/ control.pc = "idle" /\ control' = At("build", 1)
        \/ control.pc # "build" /\ control'.pc # "build"
    BY <1>1 DEF Start, Stop, Destroy, StartWorker, StopWorker, DestroyWorker, JoinWorker, At
  <2> QED BY <2>1, <2>2, FramedStays
<1>2. CASE \E w \in DOMAIN workers : ThreadNext(w)
  <2>1. PICK w \in DOMAIN workers : ThreadNext(w)
    BY <1>2
  <2>2. UNCHANGED <<pipelines, build, control>>
    BY <2>1 DEF ThreadNext, SetUp, SeeStop, SeeNoStop, Execute, OwnSource, Pop, ModuleProcess, SinkPassesOver,
           OwnSink, Push, Contend, ThreadOnly, mission
  <2>3. Framed
    <3>1. CASE Pop(w)
      <4>1. PICK q : q = Pipe(w).from
        OBVIOUS
      <4>2. PICK items : items = Tail(queues[q].items)
        OBVIOUS
      <4>3. q \in DOMAIN queues
        BY <3>1, <4>1, WorkerAt DEF Pop
      <4>4. queues' = queues \/ queues' = [queues EXCEPT ![q].items = items]
        BY <3>1, <4>1, <4>2 DEF Pop
      <4> QED BY <2>2, <4>3, <4>4, FramedStays, FramedItems
    <3>2. CASE Push(w)
      <4>1. PICK q : q = Pipe(w).to
        OBVIOUS
      <4>2. PICK items : items = Append(queues[q].items, workers[w].item)
        OBVIOUS
      <4>3. q \in DOMAIN queues
        BY <3>2, <4>1, WorkerAt DEF Push
      <4>4. queues' = queues \/ queues' = [queues EXCEPT ![q].items = items]
        BY <3>2, <4>1, <4>2 DEF Push
      <4> QED BY <2>2, <4>3, <4>4, FramedStays, FramedItems
    <3>3. CASE ~Pop(w) /\ ~Push(w)
      <4>1. UNCHANGED queues
        BY <2>1, <3>3 DEF ThreadNext, SetUp, SeeStop, SeeNoStop, Execute, OwnSource, ModuleProcess,
               SinkPassesOver, OwnSink, Contend, Terminates, data
      <4> QED BY <2>2, <4>1, FramedStays
    <3> QED BY <3>1, <3>2, <3>3
  <2> QED BY <2>2, <2>3
<1>3. CASE UNCHANGED vars
  <2>1. UNCHANGED <<pipelines, build, queues, control>>
    BY <1>3 DEF vars, mission, data
  <2> QED BY <2>1, FramedStays
<1> QED BY <1>1, <1>2, <1>3 DEF Next, ControlGoesOn

\* What has been wired stays so with fewer ends.
LEMMA WiredLess ==
    ASSUME NEW qs, NEW S, NEW T \in SUBSET S, Wired(qs, S)
    PROVE  Wired(qs, T)
BY DEF Wired

\* A queue that is handed out gets one more end.
LEMMA WiredHandsOut ==
    ASSUME NEW qs \in Seq(QueueType), NEW S, Wired(qs, S), NEW p, NEW side,
           NEW r, r = GetOrCreateQueue(qs)
    PROVE  Wired(r, S \union {<<p, side, Len(r)>>})
<1> DEFINE t == <<p, side, Len(r)>>
           N == Len(qs)
<1>1. t[3] = Len(r) /\ N \in Nat
  OBVIOUS
<1>2. r \in Seq(QueueType) /\ Len(r) \in Nat \ {0} /\ (HandsOutLast(qs, r) \/ HandsOutNew(qs, r))
  BY HandedOut
<1>3. /\ \A a \in S : a[3] \in 1..N
      /\ \A q \in 1..N : ~qs[q].used => q = N
      /\ \A a, b, c \in S : a[3] = b[3] /\ b[3] = c[3] => a = b \/ b = c \/ a = c
      /\ \A a, b \in S : a[3] = b[3] /\ ~qs[a[3]].used => a = b
  BY DEF Wired
<1> HIDE DEF t, N
<1>4. CASE HandsOutLast(qs, r)
  <2>0. N > 0 /\ ~qs[N].used /\ Len(r) = N /\ r[Len(r)].used /\ \A q \in 1..N - 1 : r[q] = qs[q]
    BY <1>4 DEF HandsOutLast, N
  <2>1. \A a \in S \union {t} : a[3] \in 1..Len(r)
    BY <1>1, <1>3, <2>0
  <2>2. \A q \in 1..Len(r) : r[q].used
    <3> TAKE q \in 1..Len(r)
    <3>1. CASE q = N
      BY <2>0, <3>1
    <3>2. CASE q # N
      <4>1. q \in 1..N-1 /\ q \in 1..N
        BY <1>1, <2>0, <3>2
      <4> QED BY <1>3, <2>0, <3>2, <4>1
    <3> QED BY <3>1, <3>2
  <2>3. \A a, b \in S : a[3] = Len(r) /\ b[3] = Len(r) => a = b
    BY <1>3, <2>0
  <2>4. \A a, b, c \in S \union {t} : a[3] = b[3] /\ b[3] = c[3] => a = b \/ b = c \/ a = c
    BY <1>1, <1>3, <2>3
  <2> QED BY <2>1, <2>2, <2>4 DEF Wired, t
<1>5. CASE HandsOutNew(qs, r)
  <2>0. /\ N > 0 => qs[N].used
        /\ Len(r) = N + 1 /\ ~r[Len(r)].used /\ \A q \in 1..N : r[q] = qs[q]
    BY <1>5 DEF HandsOutNew, N
  <2>1. \A a \in S \union {t} : a[3] \in 1..Len(r)
    BY <1>1, <1>3, <2>0
  <2>2. \A q \in 1..N : r[q].used
    BY <1>1, <1>3, <2>0
  <2>3. \A q \in 1..Len(r) : q \in 1..N \/ q = Len(r)
    BY <1>1, <2>0
  <2>4. \A q \in 1..Len(r) : ~r[q].used => q = Len(r)
    BY <2>2, <2>3
  <2>5. \A a \in S : a[3] # Len(r)
    BY <1>1, <1>3, <2>0
  <2>6. \A a, b, c \in S \union {t} : a[3] = b[3] /\ b[3] = c[3] => a = b \/ b = c \/ a = c
    BY <1>1, <1>3, <2>5
  <2>7. \A a, b \in S \union {t} : a[3] = b[3] /\ ~r[a[3]].used => a = b
    BY <1>1, <2>1, <2>4, <2>5
  <2> QED BY <2>1, <2>4, <2>6, <2>7 DEF Wired, t
<1> QED BY <1>2, <1>4, <1>5

\* add() keeps to it.
LEMMA AddWires ==
    ASSUME NEW qs \in Seq(QueueType), NEW ps \in Seq(PipelineType), NEW shape \in Shape,
           Wired(qs, Wires(ps)), Onward(ps),
           NEW m, m = Add([queues |-> qs, pipelines |-> ps], shape)
    PROVE  Wired(m.queues, Wires(m.pipelines)) /\ Onward(m.pipelines)
<1>1. PICK L : L = Len(ps) /\ L \in Nat
  OBVIOUS
<1>2. PICK A : A = IF shape.sources THEN qs ELSE GetOrCreateQueue(qs)
  OBVIOUS
<1>3. PICK B : B = IF shape.sinks THEN A ELSE GetOrCreateQueue(A)
  OBVIOUS
<1>4. PICK x : x = [from |-> IF shape.sources THEN 0 ELSE Len(A), module |-> shape.module,
                    to |-> IF shape.sinks THEN 0 ELSE Len(B)]
  OBVIOUS
<1>5. m.queues = B /\ m.pipelines = Append(ps, x)
  BY <1>2, <1>3, <1>4 DEF Add
<1>6. x.from = (IF shape.sources THEN 0 ELSE Len(A)) /\ x.to = IF shape.sinks THEN 0 ELSE Len(B)
  BY <1>4
<1>7. PICK S : S = Wires(ps) \union (IF x.from = 0 THEN {} ELSE {<<L + 1, "from", x.from>>})
  OBVIOUS
<1>8. PICK T : T = S \union (IF x.to = 0 THEN {} ELSE {<<L + 1, "to", x.to>>})
  OBVIOUS
<1>9. A \in Seq(QueueType) /\ (~shape.sources => Len(A) \in Nat \ {0})
  BY <1>2, HandedOut
<1>10. B \in Seq(QueueType) /\ (~shape.sinks => Len(B) \in Nat \ {0})
  BY <1>3, <1>9, HandedOut
<1>11. Wired(A, S)
  <2>1. CASE shape.sources
    BY <1>2, <1>6, <1>7, <2>1
  <2>2. CASE ~shape.sources
    <3>1. A = GetOrCreateQueue(qs) /\ x.from = Len(A) /\ x.from # 0
      BY <1>2, <1>6, <1>9, <2>2
    <3>2. PICK l : l = L + 1
      OBVIOUS
    <3>3. S = Wires(ps) \union {<<l, "from", Len(A)>>}
      BY <1>7, <3>1, <3>2
    <3> QED BY <3>1, <3>3, WiredHandsOut
  <2> QED BY <2>1, <2>2
<1>12. Wired(B, T)
  <2>1. CASE shape.sinks
    BY <1>3, <1>6, <1>8, <1>11, <2>1
  <2>2. CASE ~shape.sinks
    <3>1. B = GetOrCreateQueue(A) /\ x.to = Len(B) /\ x.to # 0
      BY <1>3, <1>6, <1>10, <2>2
    <3>2. PICK l : l = L + 1
      OBVIOUS
    <3>3. T = S \union {<<l, "to", Len(B)>>}
      BY <1>8, <3>1, <3>2
    <3> QED BY <1>9, <1>11, <3>1, <3>3, WiredHandsOut
  <2> QED BY <2>1, <2>2
<1>13. PICK ns : ns = Append(ps, x)
  OBVIOUS
<1>14. DOMAIN ns = 1..L+1 /\ ns[L+1] = x /\ \A p \in 1..L : ns[p] = ps[p]
  BY <1>1, <1>13
<1>15. \A p \in 1..L+1 : p \in 1..L \/ p = L+1
  BY <1>1
<1>16. ASSUME NEW a \in Wires(ns) PROVE a \in T
  <2>1. CASE \E p \in DOMAIN ns : ns[p].from # 0 /\ a = <<p, "from", ns[p].from>>
    <3>1. PICK p \in DOMAIN ns : ns[p].from # 0 /\ a = <<p, "from", ns[p].from>>
      BY <2>1
    <3>2. CASE p \in 1..L
      <4>1. p \in DOMAIN ps /\ ps[p].from # 0 /\ a = <<p, "from", ps[p].from>>
        BY <1>1, <1>14, <3>1, <3>2
      <4>2. a \in Wires(ps)
        BY <4>1 DEF Wires
      <4> QED BY <1>7, <1>8, <4>2
    <3>3. CASE p = L + 1
      BY <1>7, <1>8, <1>14, <3>1, <3>3
    <3> QED BY <1>14, <1>15, <3>2, <3>3
  <2>2. CASE \E p \in DOMAIN ns : ns[p].to # 0 /\ a = <<p, "to", ns[p].to>>
    <3>1. PICK p \in DOMAIN ns : ns[p].to # 0 /\ a = <<p, "to", ns[p].to>>
      BY <2>2
    <3>2. CASE p \in 1..L
      <4>1. p \in DOMAIN ps /\ ps[p].to # 0 /\ a = <<p, "to", ps[p].to>>
        BY <1>1, <1>14, <3>1, <3>2
      <4>2. a \in Wires(ps)
        BY <4>1 DEF Wires
      <4> QED BY <1>7, <1>8, <4>2
    <3>3. CASE p = L + 1
      BY <1>7, <1>8, <1>14, <3>1, <3>3
    <3> QED BY <1>14, <1>15, <3>2, <3>3
  <2> QED BY <2>1, <2>2 DEF Wires
<1>17. Wired(B, Wires(ns))
  BY <1>12, <1>16, WiredLess
<1>18. x.from # 0 /\ x.to # 0 => x.to \in {x.from, x.from + 1}
  <2> SUFFICES ASSUME x.from # 0, x.to # 0 PROVE x.to \in {x.from, x.from + 1}
    OBVIOUS
  <2>1. ~shape.sources /\ ~shape.sinks /\ x.from = Len(A) /\ x.to = Len(B) /\ B = GetOrCreateQueue(A)
    BY <1>3, <1>6
  <2>2. Len(B) \in {Len(A), Len(A) + 1}
    BY <1>9, <2>1, HandedOut DEF HandsOutLast, HandsOutNew
  <2> QED BY <2>1, <2>2
<1>19. Onward(ns)
  <2> SUFFICES ASSUME NEW p \in DOMAIN ns, ns[p].from # 0, ns[p].to # 0
               PROVE  ns[p].to \in {ns[p].from, ns[p].from + 1}
    BY DEF Onward
  <2>1. CASE p \in 1..L
    BY <1>1, <1>14, <2>1 DEF Onward
  <2>2. CASE p = L + 1
    BY <1>14, <1>18, <2>2
  <2> QED BY <1>14, <1>15, <2>1, <2>2
<1> QED BY <1>5, <1>13, <1>17, <1>19

\* At first there is no queue.
LEMMA WiringInit == Init => WiringInv
<1> SUFFICES ASSUME Init PROVE WiringInv
  OBVIOUS
<1>1. queues = <<>> /\ pipelines = <<>>
  BY DEF Init
<1>2. Wires(pipelines) = {} /\ Onward(pipelines)
  BY <1>1 DEF Wires, Onward
<1> QED BY <1>1, <1>2 DEF WiringInv, Wired

\* Every step keeps the wiring.
LEMMA WiringNext == BasicInv /\ WiringInv /\ [Next]_vars => WiringInv'
<1> SUFFICES ASSUME BasicInv, WiringInv, [Next]_vars PROVE WiringInv'
  OBVIOUS
<1>1. CASE AddPipeline
  <2>1. queues \in Seq(QueueType) /\ pipelines \in Seq(PipelineType) /\ build[control.i] \in Shape
    BY <1>1, BuildShape DEF BasicInv, TypeOK, QueueType, AddPipeline
  <2>2. PICK m : m = Add([queues |-> queues, pipelines |-> pipelines], build[control.i])
    OBVIOUS
  <2>3. queues' = m.queues /\ pipelines' = m.pipelines
    BY <1>1, <2>2 DEF AddPipeline
  <2>4. Wired(m.queues, Wires(m.pipelines)) /\ Onward(m.pipelines)
    BY <2>1, <2>2, AddWires DEF WiringInv
  <2> QED BY <2>3, <2>4 DEF WiringInv
<1>2. CASE Framed
  <2>1. Wires(pipelines)' = Wires(pipelines) /\ Onward(pipelines)'
    BY <1>2 DEF Framed, WiringInv
  <2>2. DOMAIN queues = 1..Len(queues)
    BY Ranges
  <2>3. Wired(queues, Wires(pipelines))'
    <3>1. PICK S : S = Wires(pipelines)
      OBVIOUS
    <3>0. Wired(queues, S)
      BY <3>1 DEF WiringInv
    <3>2. /\ \A a \in S : a[3] \in 1..Len(queues)
          /\ \A q \in 1..Len(queues) : ~queues[q].used => q = Len(queues)
          /\ \A a, b, c \in S : a[3] = b[3] /\ b[3] = c[3] => a = b \/ b = c \/ a = c
          /\ \A a, b \in S : a[3] = b[3] /\ ~queues[a[3]].used => a = b
      BY <3>0 DEF Wired
    <3>3. /\ \A a \in S : a[3] \in 1..Len(queues')
          /\ \A q \in 1..Len(queues') : ~queues'[q].used => q = Len(queues')
          /\ \A a, b \in S : a[3] = b[3] /\ ~queues'[a[3]].used => a = b
      BY <1>2, <2>2, <3>2 DEF Framed
    <3> QED BY <2>1, <3>1, <3>2, <3>3 DEF Wired
  <2> QED BY <2>1, <2>3 DEF WiringInv
<1> QED BY <1>1, <1>2, Frame

-----------------------------------------------------------------------------
(* LineInv is an invariant *)

\* A queue that one pipeline pushes to and one pops has no third end.
LEMMA OnlyEnds ==
    ASSUME WiringInv, NEW f \in DOMAIN pipelines, NEW c \in DOMAIN pipelines, NEW i \in DOMAIN pipelines,
           NEW q, q # 0, pipelines[f].to = q, pipelines[c].from = q
    PROVE  /\ pipelines[i].to = q => i = f
           /\ pipelines[i].from = q => i = c
<1> DEFINE S == Wires(pipelines)
<1>1. \A a, b, d \in S : a[3] = b[3] /\ b[3] = d[3] => a = b \/ b = d \/ a = d
  BY DEF WiringInv, Wired
<1>2. <<f, "to", q>> \in S /\ <<c, "from", q>> \in S
  BY DEF Wires
<1>3. pipelines[i].to = q => <<i, "to", q>> \in S
  BY DEF Wires
<1>4. pipelines[i].from = q => <<i, "from", q>> \in S
  BY DEF Wires
<1> HIDE DEF S
<1>5. CASE pipelines[i].to = q
  <2>1. <<i, "to", q>> = <<f, "to", q>>
    BY <1>1, <1>2, <1>3, <1>5
  <2>2. i = f
    BY <2>1
  <2> QED BY <1>1, <1>2, <1>4, <2>2
<1>6. CASE pipelines[i].from = q
  <2>1. <<i, "from", q>> = <<c, "from", q>>
    BY <1>1, <1>2, <1>4, <1>6
  <2>2. i = c
    BY <2>1
  <2> QED BY <1>1, <1>2, <1>3, <2>2
<1> QED BY <1>5, <1>6

\* At first there is no queue to join pipelines.
LEMMA LineInit == Init => LineInv
BY DEF Init, LineInv, Follows, At

\* While a queue waits, what build() adds is whole, or has no sources.
LEMMA WaitsFor ==
    ASSUME BasicInv, LineInv, Alternates, NEW q \in DOMAIN queues, Waits(q)
    PROVE  ~build[control.i].sources \/ (build[control.i].sinks /\ control.i < Len(build))
<1>1. control.pc = "build"
  BY DEF Waits
<1>2. build \in Seq(Shape) /\ control.i \in 1..Len(build) /\ control.i \in Nat /\ Len(build) \in Nat
  BY <1>1, BuildShape
<1>3. Len(pipelines) \in Nat /\ control.i <= Len(pipelines) + 1 /\ q # 0
  BY <1>1, Ranges DEF BasicInv, Room
<1>4. PICK p \in Base + 1 .. Len(pipelines) :
         pipelines[p].to = q /\ \A i \in p+1 .. Len(pipelines) : Closed(i)
  BY DEF Waits
<1>5. PICK B \in Nat : B = Base /\ B = Len(pipelines) - (control.i - 1)
  BY <1>2, <1>3 DEF Base
<1>6. PICK j \in 1..control.i - 1 : p = B + j
  <2>1. PICK n, L : n = control.i /\ L = Len(pipelines)
    OBVIOUS
  <2>2. n \in Nat /\ L \in Nat /\ B = L - (n - 1) /\ p \in B + 1 .. L
    BY <1>2, <1>3, <1>4, <1>5, <2>1
  <2>3. p - B \in 1..n - 1 /\ p = B + (p - B)
    BY <2>2
  <2> QED BY <2>1, <2>3
<1>7. ~build[j].sinks
  BY <1>1, <1>3, <1>4, <1>5, <1>6 DEF LineInv, Follows
<1>8. PICK c \in j+1 .. Len(build) : ~build[c].sources /\ Between(j, c)
  BY <1>2, <1>6, <1>7 DEF Alternates
<1>9. CASE c < control.i
  <2>1. c \in 1..control.i - 1 /\ B + c \in p+1 .. Len(pipelines)
    <3>1. PICK n, L : n = control.i /\ L = Len(pipelines)
      OBVIOUS
    <3>2. n \in Nat /\ L \in Nat /\ B = L - (n - 1) /\ c < n /\ c \in Nat /\ j + 1 <= c /\ j \in Nat
          /\ p = B + j /\ 1 <= j
      BY <1>2, <1>3, <1>5, <1>6, <1>8, <1>9, <3>1
    <3>3. c \in 1..n - 1 /\ B + c \in p+1 .. L
      BY <3>2
    <3> QED BY <3>1, <3>3
  <2>2. pipelines[B + c].from = 0
    BY <1>4, <2>1 DEF Closed
  <2>3. build[c].sources
    BY <1>1, <1>5, <2>1, <2>2 DEF LineInv, Follows
  <2> QED BY <1>8, <2>3
<1>10. CASE c = control.i
  BY <1>8, <1>10
<1>11. CASE c > control.i
  <2>1. control.i \in j+1 .. c-1 /\ control.i < Len(build)
    BY <1>2, <1>6, <1>8, <1>11
  <2> QED BY <1>8, <2>1 DEF Between
<1> QED BY <1>2, <1>8, <1>9, <1>10, <1>11

\* A pipeline without sources finds the queue of the one before it.
LEMMA FindsQueue ==
    ASSUME BasicInv, WiringInv, LineInv, Alternates, control.pc = "build", ~build[control.i].sources
    PROVE  Len(queues) \in DOMAIN queues /\ ~queues[Len(queues)].used
<1>1. build \in Seq(Shape) /\ control.i \in 1..Len(build) /\ control.i \in Nat /\ Len(build) \in Nat
  BY BuildShape
<1>2. Len(pipelines) \in Nat /\ control.i <= Len(pipelines) + 1 /\ DOMAIN pipelines = 1..Len(pipelines)
      /\ DOMAIN queues = 1..Len(queues) /\ Len(queues) \in Nat
  BY Ranges DEF BasicInv, Room
<1>3. PICK j \in 1 .. control.i - 1 : ~build[j].sinks /\ Between(j, control.i)
  BY <1>1 DEF Alternates
<1>4. PICK B \in Nat : B = Base /\ B = Len(pipelines) - (control.i - 1)
  BY <1>1, <1>2 DEF Base
<1>5. PICK p : p = B + j
  OBVIOUS
<1>6. p \in DOMAIN pipelines /\ p \in Nat
  <2>1. PICK n, L : n = control.i /\ L = Len(pipelines)
    OBVIOUS
  <2>2. n \in Nat /\ L \in Nat /\ B = L - (n - 1) /\ j \in 1..n-1 /\ p = B + j
    BY <1>1, <1>2, <1>3, <1>4, <1>5, <2>1
  <2>3. p \in 1..L /\ p \in Nat
    BY <2>2
  <2> QED BY <1>2, <2>1, <2>3
<1>7. PICK q : q = pipelines[p].to
  OBVIOUS
<1>8. q # 0
  BY <1>3, <1>4, <1>5, <1>7 DEF LineInv, Follows
<1>9. q \in DOMAIN queues
  <2>1. pipelines \in Seq(PipelineType) /\ q <= Len(queues)
    BY <1>6, <1>7 DEF BasicInv, TypeOK, Points
  <2>2. pipelines[p] \in PipelineType
    BY <1>6, <2>1
  <2>3. q \in Nat
    BY <1>7, <2>2 DEF PipelineType
  <2> QED BY <1>2, <1>8, <2>1, <2>3
<1>10. ~queues[q].used
  <2> SUFFICES ASSUME queues[q].used PROVE FALSE
    OBVIOUS
  <2>1. Joined(q)
    BY <1>9 DEF LineInv
  <2>2. PICK x, c \in DOMAIN pipelines :
          x < c /\ pipelines[x].to = q /\ pipelines[c].from = q /\ \A i \in x+1 .. c-1 : Closed(i)
    BY <2>1 DEF Joined
  <2>3. p = x
    BY <1>6, <1>7, <1>8, <2>2, OnlyEnds
  <2>4. PICK k : k = c - B
    OBVIOUS
  <2>5. k \in j+1 .. control.i - 1 /\ c = B + k /\ k \in 1..control.i - 1
    <3>1. PICK n, L : n = control.i /\ L = Len(pipelines)
      OBVIOUS
    <3>2. n \in Nat /\ L \in Nat /\ B = L - (n - 1) /\ j \in 1..n-1 /\ p = B + j /\ p < c /\ c \in 1..L /\ k = c - B
      BY <1>1, <1>2, <1>3, <1>4, <1>5, <2>2, <2>3, <2>4, <3>1
    <3>3. k \in j+1 .. n - 1 /\ c = B + k /\ k \in 1..n - 1
      BY <3>2
    <3> QED BY <3>1, <3>3
  <2>6. build[k].sources
    BY <1>3, <2>5 DEF Between
  <2>7. pipelines[c].from = 0
    BY <1>4, <2>5, <2>6 DEF LineInv, Follows
  <2> QED BY <1>8, <2>2, <2>7
<1>11. q = Len(queues)
  BY <1>2, <1>9, <1>10 DEF WiringInv, Wired
<1> QED BY <1>9, <1>10, <1>11

\* What add() does, with A the queues when it comes to the sink.
AddsTo(qs, ps, shape, m, A, x) ==
    /\ m.pipelines = Append(ps, x)
    /\ A = (IF shape.sources THEN qs ELSE GetOrCreateQueue(qs))
    /\ m.queues = (IF shape.sinks THEN A ELSE GetOrCreateQueue(A))
    /\ x.from = (IF shape.sources THEN 0 ELSE Len(A))
    /\ x.to = (IF shape.sinks THEN 0 ELSE Len(m.queues))

\* add(), one end after the other.
LEMMA AddCases ==
    ASSUME NEW qs, NEW ps, NEW shape,
           NEW m, m = Add([queues |-> qs, pipelines |-> ps], shape)
    PROVE  \E A, x : AddsTo(qs, ps, shape, m, A, x)
<1>1. PICK A : A = IF shape.sources THEN qs ELSE GetOrCreateQueue(qs)
  OBVIOUS
<1>2. PICK B : B = IF shape.sinks THEN A ELSE GetOrCreateQueue(A)
  OBVIOUS
<1>3. PICK x : x = [from |-> IF shape.sources THEN 0 ELSE Len(A), module |-> shape.module,
                    to |-> IF shape.sinks THEN 0 ELSE Len(B)]
  OBVIOUS
<1>4. m.queues = B /\ m.pipelines = Append(ps, x)
  BY <1>1, <1>2, <1>3 DEF Add
<1>5. x.from = (IF shape.sources THEN 0 ELSE Len(A)) /\ x.to = IF shape.sinks THEN 0 ELSE Len(B)
  BY <1>3
<1>6. AddsTo(qs, ps, shape, m, A, x)
  BY <1>1, <1>2, <1>4, <1>5 DEF AddsTo
<1> QED BY <1>6

\* Where no pipeline is added, queues that join pipelines go on to.
LEMMA LineFramed ==
    ASSUME BasicInv, LineInv, Framed,
           \/ control' = control
           \/ control.pc = "idle" /\ control' = At("build", 1)
           \/ control.pc # "build" /\ control'.pc # "build"
    PROVE  LineInv'
<1>1. /\ pipelines' = pipelines /\ build' = build /\ DOMAIN queues' = DOMAIN queues
      /\ \A q \in DOMAIN queues : queues'[q].used = queues[q].used
  BY DEF Framed
<1>2. Follows'
  <2>1. CASE control' = control
    BY <1>1, <2>1 DEF LineInv, Follows, Base
  <2>2. CASE control' = At("build", 1)
    <3>1. 1 .. control'.i - 1 = {}
      BY <2>2 DEF At
    <3> QED BY <3>1 DEF Follows
  <2>3. CASE control'.pc # "build"
    BY <2>3 DEF Follows
  <2> QED BY <2>1, <2>2, <2>3
<1>3. ASSUME Alternates, NEW q \in DOMAIN queues PROVE (IF queues'[q].used THEN Joined(q)' ELSE Waits(q)')
  <2>1. IF queues[q].used THEN Joined(q) ELSE Waits(q)
    BY <1>3 DEF LineInv
  <2>2. CASE queues[q].used
    BY <1>1, <2>1, <2>2 DEF Joined, Closed
  <2>3. CASE ~queues[q].used
    <3>1. control.pc = "build" /\ control' = control
      BY <2>1, <2>3 DEF Waits
    <3>2. Waits(q)'
      BY <1>1, <2>1, <2>3, <3>1 DEF Waits, Base, Closed
    <3> QED BY <1>1, <2>3, <3>2
  <2> QED BY <2>2, <2>3
<1>4. Alternates' => Alternates
  BY <1>1 DEF Alternates, Between
<1> QED BY <1>1, <1>2, <1>3, <1>4 DEF LineInv

\* A pipeline that is added is joined to the open end before it.
LEMMA LineAdds ==
    ASSUME BasicInv, WiringInv, LineInv, AddPipeline
    PROVE  LineInv'
<1>0. /\ control.pc = "build" /\ build' = build
      /\ control' = IF control.i = Len(build) THEN At("start", Len(pipelines')) ELSE At("build", control.i + 1)
  BY DEF AddPipeline
<1>1. PICK L, n, N : L = Len(pipelines) /\ n = control.i /\ N = Len(queues)
  OBVIOUS
<1>2. /\ L \in Nat /\ n \in Nat \ {0} /\ n \in 1..Len(build) /\ Len(build) \in Nat /\ N \in Nat /\ n <= L + 1
      /\ DOMAIN pipelines = 1..L /\ DOMAIN queues = 1..N /\ queues \in Seq(QueueType)
      /\ pipelines \in Seq(PipelineType) /\ build[n] \in Shape
  BY <1>0, <1>1, BuildShape, Ranges DEF BasicInv, Room, TypeOK, QueueType
<1>3. PICK A, x :
         /\ pipelines' = Append(pipelines, x)
         /\ A = (IF build[n].sources THEN queues ELSE GetOrCreateQueue(queues))
         /\ queues' = (IF build[n].sinks THEN A ELSE GetOrCreateQueue(A))
         /\ x.from = (IF build[n].sources THEN 0 ELSE Len(A))
         /\ x.to = (IF build[n].sinks THEN 0 ELSE Len(queues'))
  <2>1. PICK m : m = Add([queues |-> queues, pipelines |-> pipelines], build[n])
    OBVIOUS
  <2>2. queues' = m.queues /\ pipelines' = m.pipelines
    BY <1>1, <2>1 DEF AddPipeline
  <2>3. \E A, x : AddsTo(queues, pipelines, build[n], m, A, x)
    BY <2>1, AddCases
  <2> QED BY <2>2, <2>3 DEF AddsTo
<1>4. /\ Len(pipelines') = L + 1 /\ DOMAIN pipelines' = 1..L+1 /\ pipelines'[L + 1] = x
      /\ \A p \in 1..L : pipelines'[p] = pipelines[p]
  BY <1>1, <1>2, <1>3
<1>5. /\ A \in Seq(QueueType) /\ queues' \in Seq(QueueType)
      /\ Len(A) \in Nat /\ Len(queues') \in Nat /\ DOMAIN queues' = 1..Len(queues') /\ DOMAIN A = 1..Len(A)
      /\ ~build[n].sources => Len(A) # 0
      /\ ~build[n].sinks => Len(queues') # 0
  <2>1. A \in Seq(QueueType) /\ (~build[n].sources => Len(A) # 0)
    BY <1>2, <1>3, HandedOut
  <2>2. PICK B : B = queues'
    OBVIOUS
  <2>3. B \in Seq(QueueType) /\ (~build[n].sinks => Len(B) # 0)
    BY <1>3, <2>1, <2>2, HandedOut
  <2> QED BY <2>1, <2>2, <2>3
<1>6. x.from = 0 <=> build[n].sources
  BY <1>3, <1>5
<1>7. x.to = 0 <=> build[n].sinks
  BY <1>3, <1>5
<1>8. PICK B \in Nat : B = L - (n - 1)
  BY <1>2
<1>9. Base = B /\ (n < Len(build) => control'.pc = "build" /\ control'.i = n + 1 /\ Base' = B)
      /\ (n = Len(build) => control'.pc = "start")
  <2>1. Base = B
    BY <1>1, <1>8 DEF Base
  <2>2. n < Len(build) => n # Len(build)
    BY <1>2
  <2>3. n < Len(build) => control'.pc = "build" /\ control'.i = n + 1
    BY <1>0, <1>1, <2>2 DEF At
  <2>4. (L + 1) - ((n + 1) - 1) = B
    BY <1>2, <1>8
  <2>5. n < Len(build) => Base' = B
    BY <1>4, <2>3, <2>4 DEF Base
  <2>6. n = Len(build) => control'.pc = "start"
    BY <1>0, <1>1 DEF At
  <2> QED BY <2>1, <2>3, <2>5, <2>6
<1>10. Follows'
  <2> SUFFICES ASSUME control'.pc = "build", NEW j \in 1 .. control'.i - 1
               PROVE  /\ pipelines'[Base' + j].from = 0 <=> build[j].sources
                      /\ pipelines'[Base' + j].to = 0 <=> build[j].sinks
    BY <1>0 DEF Follows
  <2>1. n < Len(build) /\ control'.i = n + 1 /\ Base' = B
    BY <1>2, <1>9
  <2>2. j \in 1..n
    BY <1>2, <2>1
  <2>3. CASE j = n
    <3>1. B + j = L + 1
      BY <1>2, <1>8, <2>3
    <3> QED BY <1>4, <1>6, <1>7, <2>1, <2>3, <3>1
  <2>4. CASE j # n
    <3>1. j \in 1..n-1 /\ B + j \in 1..L
      BY <1>2, <1>8, <2>2, <2>4
    <3>2. pipelines'[B + j] = pipelines[B + j]
      BY <1>4, <3>1
    <3> QED BY <1>0, <1>1, <1>9, <2>1, <3>1, <3>2 DEF LineInv, Follows
  <2> QED BY <2>3, <2>4
<1>11. ASSUME NEW q \in 1..N, Joined(q) PROVE Joined(q)'
  <2>1. PICK p, c \in 1..L :
          p < c /\ pipelines[p].to = q /\ pipelines[c].from = q /\ \A i \in p+1 .. c-1 : Closed(i)
    BY <1>2, <1>11 DEF Joined
  <2>2. p \in 1..L+1 /\ c \in 1..L+1 /\ \A i \in p+1 .. c-1 : i \in 1..L
    BY <1>2, <2>1
  <2>3. pipelines'[p] = pipelines[p] /\ pipelines'[c] = pipelines[c] /\ \A i \in p+1 .. c-1 : Closed(i)'
    BY <1>4, <2>1, <2>2 DEF Closed
  <2> QED BY <1>4, <2>1, <2>2, <2>3 DEF Joined
<1>12. ASSUME Alternates PROVE \A q \in DOMAIN queues' : IF queues'[q].used THEN Joined(q)' ELSE Waits(q)'
  <2>0. /\ \A q \in 1..N : IF queues[q].used THEN Joined(q) ELSE Waits(q)
        /\ \A q \in 1..N : ~queues[q].used => q = N
    BY <1>1, <1>2, <1>12 DEF LineInv, WiringInv, Wired
  \* The queues that are there when the sink is looked at.
  <2>1. /\ \A q \in 1..Len(A) : A[q].used => IF q = N /\ ~build[n].sources THEN Joined(q)' ELSE Joined(q) /\ q \in 1..N
        /\ \A q \in 1..Len(A) : ~A[q].used => build[n].sources /\ q \in 1..N /\ Waits(q)
    <3>1. CASE build[n].sources
      BY <1>1, <1>2, <1>3, <2>0, <3>1
    <3>2. CASE ~build[n].sources
      <4>1. N \in 1..N /\ ~queues[N].used
        BY <1>0, <1>1, <1>2, <1>12, <3>2, FindsQueue
      <4>2. /\ Len(A) = N /\ A[N].used /\ \A q \in 1..N-1 : A[q] = queues[q]
        <5>1. A = GetOrCreateQueue(queues)
          BY <1>3, <3>2
        <5>2. HandsOutLast(queues, A) \/ HandsOutNew(queues, A)
          BY <1>2, <5>1, HandedOut
        <5>3. ~HandsOutNew(queues, A)
          BY <1>1, <1>2, <4>1 DEF HandsOutNew
        <5> QED BY <1>1, <1>2, <5>2, <5>3 DEF HandsOutLast
      <4>3. ASSUME NEW q \in 1..N-1 PROVE queues[q].used /\ A[q].used /\ Joined(q) /\ q \in 1..N /\ q # N
        <5>1. q \in 1..N /\ q # N
          BY <1>2
        <5> QED BY <2>0, <4>2, <5>1
      <4>4. Joined(N)'
        <5>1. Waits(N) /\ x.from = N /\ N # 0
          BY <1>2, <1>3, <2>0, <3>2, <4>1, <4>2
        <5>2. PICK p \in B + 1 .. L : pipelines[p].to = N /\ \A i \in p+1 .. L : Closed(i)
          BY <1>1, <1>9, <5>1 DEF Waits
        <5>3. p \in 1..L /\ p < L + 1 /\ p \in 1..L+1 /\ L + 1 \in 1..L+1 /\ \A i \in p+1 .. (L+1)-1 : i \in p+1..L /\ i \in 1..L
          BY <1>2, <5>2
        <5>4. \A i \in p+1 .. (L+1)-1 : Closed(i)'
          BY <1>4, <5>2, <5>3 DEF Closed
        <5>5. pipelines'[p].to = N /\ pipelines'[L+1].from = N
          BY <1>4, <5>1, <5>2, <5>3
        <5> QED BY <1>4, <5>3, <5>4, <5>5 DEF Joined
      <4>5. \A q \in 1..N : q = N \/ q \in 1..N-1
        BY <1>2
      <4> QED BY <3>2, <4>2, <4>3, <4>4, <4>5
    <3> QED BY <3>1, <3>2
  <2>2. \A q \in 1..Len(A) : A[q].used => Joined(q)'
    BY <1>11, <2>1
  <2>3. CASE build[n].sinks
    <3>1. queues' = A /\ x.to = 0
      BY <1>3, <2>3
    <3>2. ASSUME NEW q \in 1..Len(A), ~A[q].used PROVE Waits(q)'
      <4>1. build[n].sources /\ q \in 1..N /\ Waits(q)
        BY <2>1, <3>2
      <4>2. n < Len(build)
        BY <1>1, <1>2, <1>12, <4>1, WaitsFor
      <4>3. PICK p \in B + 1 .. L : pipelines[p].to = q /\ \A i \in p+1 .. L : Closed(i)
        BY <1>1, <1>9, <4>1 DEF Waits
      <4>4. p \in 1..L /\ p \in B + 1 .. L + 1 /\ \A i \in p+1 .. L+1 : (i \in 1..L /\ i \in p+1..L) \/ i = L + 1
        BY <1>2, <1>8, <4>3
      <4>5. pipelines'[p].to = q
        BY <1>4, <4>3, <4>4
      <4>6. \A i \in p+1 .. L+1 : Closed(i)'
        BY <1>4, <1>6, <3>1, <4>1, <4>3, <4>4 DEF Closed
      <4> QED BY <1>4, <1>9, <4>2, <4>4, <4>5, <4>6 DEF Waits
    <3> QED BY <1>5, <2>2, <3>1, <3>2
  <2>4. CASE ~build[n].sinks
    <3>1. queues' = GetOrCreateQueue(A) /\ x.to = Len(queues') /\ Len(queues') # 0
      BY <1>3, <1>5, <2>4
    <3>2. \A q \in 1..Len(A) : A[q].used
      <4> SUFFICES ASSUME NEW q \in 1..Len(A), ~A[q].used PROVE FALSE
        OBVIOUS
      <4>1. build[n].sources /\ q \in 1..N /\ Waits(q)
        BY <2>1
      <4> QED BY <1>1, <1>2, <1>12, <2>4, <4>1, WaitsFor
    <3>3. /\ Len(queues') = Len(A) + 1 /\ ~queues'[Len(queues')].used
          /\ \A q \in 1..Len(A) : queues'[q] = A[q]
      <4>1. PICK Q : Q = queues'
        OBVIOUS
      <4>2. HandsOutLast(A, Q) \/ HandsOutNew(A, Q)
        BY <1>5, <3>1, <4>1, HandedOut
      <4>3. ~HandsOutLast(A, Q)
        BY <1>5, <3>2 DEF HandsOutLast
      <4>4. HandsOutNew(A, Q)
        BY <4>2, <4>3
      <4>5. Len(Q) = Len(A) + 1 /\ ~Q[Len(Q)].used /\ \A q \in 1..Len(A) : Q[q] = A[q]
        BY <4>4 DEF HandsOutNew
      <4> QED BY <4>1, <4>5
    <3>4. n < Len(build)
      <4>1. \E c \in n+1 .. Len(build) : ~build[c].sources /\ Between(n, c)
        BY <1>2, <1>12, <2>4 DEF Alternates
      <4> QED BY <1>2, <4>1
    <3>5. PICK Q \in Nat : Q = Len(queues')
      BY <1>5
    <3>6. Waits(Q)'
      <4>1. L + 1 \in B + 1 .. L + 1 /\ (L + 1) + 1 .. L + 1 = {}
        BY <1>2, <1>8
      <4> QED BY <1>4, <1>9, <3>1, <3>4, <3>5, <4>1 DEF Waits
    <3>7. \A q \in 1..Len(queues') : q \in 1..Len(A) \/ q = Q
      BY <1>5, <3>3, <3>5
    <3>8. \A q \in 1..Len(A) : queues'[q].used /\ Joined(q)'
      BY <2>2, <3>2, <3>3
    <3>9. ~queues'[Q].used
      BY <3>3, <3>5
    <3> QED BY <1>5, <3>6, <3>7, <3>8, <3>9
  <2> QED BY <2>3, <2>4
<1>13. Alternates' => Alternates
  BY <1>0 DEF Alternates, Between
<1> QED BY <1>10, <1>12, <1>13 DEF LineInv

\* Every step keeps LineInv.
LEMMA LineNext == BasicInv /\ WiringInv /\ LineInv /\ [Next]_vars => LineInv'
BY Frame, LineFramed, LineAdds

\* Where the open ends alternate, a queue joins the pipeline that was added with
\* no sink and the next one that was added with no source, and no others, at
\* every start and with pipelines of earlier starts around (Mission.hpp:195-206).
THEOREM QueuesJoin == Spec => []QueuesJoinPipelines
<1> DEFINE Inv == BasicInv /\ WiringInv /\ LineInv
<1>1. Init => Inv
  BY BasicInit, WiringInit, LineInit
<1>2. Inv /\ [Next]_vars => Inv'
  BY BasicNext, WiringNext, LineNext
<1>3. Inv => QueuesJoinPipelines
  <2> SUFFICES ASSUME Inv, Alternates, control.pc # "build", NEW q \in DOMAIN queues
               PROVE  \E p, c \in DOMAIN pipelines :
                        /\ p < c
                        /\ \A i \in DOMAIN pipelines :
                             (pipelines[i].to = q <=> i = p) /\ (pipelines[i].from = q <=> i = c)
                        /\ \A i \in p+1 .. c-1 : pipelines[i].from = 0 /\ pipelines[i].to = 0
    BY DEF QueuesJoinPipelines
  <2>1. Joined(q)
    BY DEF LineInv, Waits
  <2>2. PICK p, c \in DOMAIN pipelines :
          p < c /\ pipelines[p].to = q /\ pipelines[c].from = q /\ \A i \in p+1 .. c-1 : Closed(i)
    BY <2>1 DEF Joined
  <2>3. q # 0
    BY Ranges
  <2>4. \A i \in DOMAIN pipelines : (pipelines[i].to = q <=> i = p) /\ (pipelines[i].from = q <=> i = c)
    BY <2>2, <2>3, OnlyEnds
  <2> QED BY <2>2, <2>4 DEF Closed
<1> QED BY <1>1, <1>2, <1>3, PTL DEF Spec

-----------------------------------------------------------------------------
(* Exclusive, HandsFed and QueuesFed are invariants *)

\* A thread enters a pipeline that no other one is in.
LEMMA ExclusiveGoes ==
    ASSUME BasicInv, Exclusive, NEW w \in DOMAIN workers, NEW pc \in PCs, NEW item \in Items, Goes(w, pc, item),
           pc \in {"source", "module", "sink"} => Executing(w) \/ ~Occupied(w)
    PROVE  Exclusive'
<1>1. Went(w, pc, item)
  BY GoesOn DEF BasicInv, TypeOK
<1>2. /\ DOMAIN workers' = DOMAIN workers
      /\ workers'[w].pc = pc /\ workers'[w].pipeline = workers[w].pipeline
      /\ \A u \in DOMAIN workers : u # w => workers'[u] = workers[u]
  BY <1>1 DEF Went
<1>3. ASSUME NEW u \in DOMAIN workers, u # w, Executing(u)', Executing(w)'
      PROVE  workers'[u].pipeline # workers'[w].pipeline
  <2>1. Executing(u) /\ workers'[u].pipeline = workers[u].pipeline
    BY <1>2, <1>3 DEF Executing
  <2>2. Executing(w) \/ ~Occupied(w)
    BY <1>2, <1>3 DEF Executing
  <2> QED BY <1>2, <1>3, <2>1, <2>2 DEF Exclusive, Occupied
<1>4. ASSUME NEW u \in DOMAIN workers, NEW t \in DOMAIN workers, u # w, t # w, Executing(u)', Executing(t)',
             workers'[u].pipeline = workers'[t].pipeline
      PROVE  u = t
  BY <1>2, <1>4 DEF Exclusive, Executing
<1> QED BY <1>2, <1>3, <1>4 DEF Exclusive

\* Where no thread begins to execute.
LEMMA ExclusiveStays ==
    ASSUME Exclusive,
           \A w \in DOMAIN workers' : Executing(w)' =>
               w \in DOMAIN workers /\ Executing(w) /\ workers'[w].pipeline = workers[w].pipeline
    PROVE  Exclusive'
BY DEF Exclusive

\* At first there is no thread.
LEMMA ExclusiveInit == Init => Exclusive
BY DEF Init, Exclusive

\* Every step keeps threads out of each other's pipelines.
LEMMA ExclusiveNext == BasicInv /\ Exclusive /\ [Next]_vars => Exclusive'
<1> SUFFICES ASSUME BasicInv, Exclusive, [Next]_vars PROVE Exclusive'
  OBVIOUS
<1>0. /\ workers \in Seq(WorkerType) /\ Len(workers) \in Nat /\ DOMAIN workers = 1..Len(workers)
  BY Ranges DEF BasicInv, TypeOK
<1>a. ASSUME UNCHANGED workers PROVE Exclusive'
  BY <1>a DEF Exclusive, Executing
<1>1. CASE Start \/ Stop \/ Destroy \/ AddPipeline \/ JoinWorker \/ UNCHANGED vars
  <2>1. UNCHANGED workers
    BY <1>1 DEF Start, Stop, Destroy, AddPipeline, JoinWorker, vars
  <2> QED BY <1>a, <2>1
<1>2. CASE StopWorker \/ DestroyWorker
  <2>1. control.pc \in {"stop", "destroy"} /\ RaisesFlag(control.i)
    BY <1>2 DEF StopWorker, DestroyWorker, RaisesFlag
  <2>2. control.i \in DOMAIN workers
    BY <2>1 DEF Joins, BasicInv
  <2>3. /\ DOMAIN workers' = DOMAIN workers
        /\ \A u \in DOMAIN workers : workers'[u].pc = workers[u].pc
                                     /\ workers'[u].pipeline = workers[u].pipeline
    BY <1>0, <2>1, <2>2, Flagged
  <2> QED BY <2>3, ExclusiveStays DEF Executing
<1>3. CASE StartWorker
  <2>1. PICK r : r = [pipeline |-> control.i, start |-> starts, stop_flag |-> FALSE, pc |-> "setup", item |-> None]
    OBVIOUS
  <2>2. workers' = Append(workers, r)
    BY <1>3, <2>1 DEF StartWorker
  <2>3. r.pc = "setup"
    BY <2>1
  <2>4. /\ \A w \in DOMAIN workers : workers'[w] = workers[w]
        /\ workers'[Len(workers) + 1] = r
        /\ \A w \in DOMAIN workers' : w \in DOMAIN workers \/ w = Len(workers) + 1
    BY <1>0, <2>2
  <2> QED BY <2>3, <2>4, ExclusiveStays DEF Executing
<1>4. CASE \E w \in DOMAIN workers : ThreadNext(w)
  <2>1. PICK w \in DOMAIN workers : ThreadNext(w)
    BY <1>4
  <2>2. workers[w].item \in Items /\ None \in Items /\ AfterSource(w) \in PCs
    BY WorkerAt DEF Items, AfterSource, PCs
  <2>3. "test" \in PCs /\ "execute" \in PCs /\ "source" \in PCs /\ "sink" \in PCs /\ "done" \in PCs
    BY DEF PCs
  <2>4. CASE SetUp(w) \/ SeeStop(w) \/ SeeNoStop(w) \/ SinkPassesOver(w) \/ OwnSink(w) \/ Push(w)
    <3>1. \/ UNCHANGED workers
          \/ \E pc \in {"test", "execute", "done"} : Goes(w, pc, None)
      BY <2>4 DEF SetUp, SeeStop, SeeNoStop, SinkPassesOver, OwnSink, Push, Terminates
    <3> QED BY <1>a, <2>2, <2>3, <3>1, ExclusiveGoes
  <2>5. CASE Execute(w)
    <3>1. \/ UNCHANGED workers
          \/ ~Occupied(w) /\ Goes(w, "source", None)
      BY <2>5 DEF Execute
    <3> QED BY <1>a, <2>2, <2>3, <3>1, ExclusiveGoes
  <2>6. CASE OwnSource(w) \/ Pop(w)
    <3>1. /\ Executing(w)
          /\ \E item : Goes(w, AfterSource(w), item)
      BY <2>6 DEF OwnSource, Pop, ThreadAt, Executing
    <3>2. PICK item : Goes(w, AfterSource(w), item)
      BY <3>1
    <3>3. DOMAIN workers' = DOMAIN workers
          /\ \A u \in DOMAIN workers : (u # w => workers'[u] = workers[u]) /\ workers'[u].pipeline = workers[u].pipeline
      <4>1. workers[w] \in WorkerType
        BY <1>0
      <4>2. PICK t : t = [workers[w] EXCEPT !.pc = AfterSource(w), !.item = item]
        OBVIOUS
      <4>3. t.pipeline = workers[w].pipeline
        BY <4>1, <4>2 DEF WorkerType
      <4>4. workers' = [workers EXCEPT ![w] = t]
        BY <3>2, <4>2 DEF Goes
      <4> QED BY <1>0, <4>3, <4>4
    <3>4. \A u \in DOMAIN workers' : Executing(u)' => u \in DOMAIN workers /\ Executing(u) /\ workers'[u].pipeline = workers[u].pipeline
      BY <3>1, <3>3 DEF Executing
    <3> QED BY <3>4, ExclusiveStays
  <2>7. CASE ModuleProcess(w)
    <3>1. Executing(w) /\ (UNCHANGED workers \/ Goes(w, "sink", workers[w].item))
      BY <2>7 DEF ModuleProcess, Terminates, ThreadAt, Executing
    <3> QED BY <1>a, <2>2, <2>3, <3>1, ExclusiveGoes
  <2>8. CASE Contend(w)
    BY <1>a, <2>8 DEF Contend
  <2> QED BY <2>1, <2>4, <2>5, <2>6, <2>7, <2>8 DEF ThreadNext
<1> QED BY <1>1, <1>2, <1>3, <1>4 DEF Next, ControlGoesOn

\* What is fed stays so when pipelines are added.
LEMMA FedGrows ==
    ASSUME Grows, NEW s, OwnSourced(s)
    PROVE  /\ OwnSourced(s)'
           /\ \A q \in Nat : Passes(s, q) => Passes(s, q)'
           /\ \A p \in DOMAIN pipelines : Reaches(s, p) => Reaches(s, p)'
BY DEF Grows, OwnSourced, Passes, Reaches

\* At first nothing is in hands or queues.
LEMMA FedInit == Init => HandsFed /\ QueuesFed
<1> SUFFICES ASSUME Init PROVE HandsFed /\ QueuesFed
  OBVIOUS
<1>1. \A a : Line(a) = <<>> /\ Hand(a) = None
  BY DEF Init, Line, Hand
<1> QED BY <1>1, NoneAssumption DEF HandsFed, QueuesFed

\* A pipeline that gets a value from a queue passes it on to the next one.
LEMMA PassesOn ==
    ASSUME WiringInv, NEW s \in DOMAIN pipelines, NEW p \in DOMAIN pipelines, OwnSourced(s), Reaches(s, p),
           pipelines[p].to # 0, pipelines[s].to \in Nat, pipelines[p].from \in Nat
    PROVE  /\ Passes(s, pipelines[p].to)
           /\ p # s => pipelines[p].to = pipelines[p].from + 1 /\ pipelines[p].from # 0
                       /\ pipelines[s].to <= pipelines[p].from
<1>1. CASE p = s
  BY <1>1 DEF OwnSourced, Passes
<1>2. CASE p # s
  <2>1. pipelines[s].to # 0 /\ pipelines[s].to <= pipelines[p].from
    BY <1>2 DEF Reaches
  <2>2. PICK f \in DOMAIN pipelines \ {p} : pipelines[f].to = pipelines[p].from
    BY <1>2 DEF Reaches
  <2>3. pipelines[p].from # 0
    BY <2>1
  <2>4. pipelines[p].to # pipelines[p].from
    BY <2>2, <2>3, OnlyEnds
  <2>5. pipelines[p].to = pipelines[p].from + 1
    BY <2>3, <2>4 DEF WiringInv, Onward
  <2> QED BY <2>1, <2>3, <2>4, <2>5 DEF Passes
<1> QED BY <1>1, <1>2

\* The ends of a pipeline are numbers.
LEMMA PipelineNumbers ==
    ASSUME BasicInv, NEW p \in DOMAIN pipelines
    PROVE  pipelines[p].from \in Nat /\ pipelines[p].to \in Nat
<1>1. pipelines[p] \in PipelineType
  BY DEF BasicInv, TypeOK
<1> QED BY <1>1 DEF PipelineType

\* Every step keeps values on the way from their source.
LEMMA FedNext == BasicInv /\ WiringInv /\ HandsFed /\ QueuesFed /\ [Next]_vars => (HandsFed /\ QueuesFed)'
<1> SUFFICES ASSUME BasicInv, WiringInv, HandsFed, QueuesFed, [Next]_vars PROVE HandsFed' /\ QueuesFed'
  OBVIOUS
<1>1. Grows /\ (Quiet \/ Moves)
  BY Effect
\* What is left where it was.
<1>2. ASSUME NEW u \in Nat, NEW v \in Values, Hand(u) = v, NEW t, t = workers'[u].pipeline
      PROVE  OwnSourced(v[1])' /\ Reaches(v[1], t)'
  <2>1. OwnSourced(v[1]) /\ Reaches(v[1], workers[u].pipeline)
    BY <1>2 DEF HandsFed
  <2>2. u \in DOMAIN workers
    BY <1>2, ValueParts, Contents
  <2>3. t \in DOMAIN pipelines /\ t = workers[u].pipeline
    BY <1>1, <1>2, <2>2, WorkerAt DEF Grows
  <2> QED BY <1>1, <2>1, <2>3, FedGrows
<1>3. ASSUME NEW q \in Nat, NEW i \in DOMAIN Line(q), NEW s, s = Line(q)[i][1]
      PROVE  OwnSourced(s)' /\ Passes(s, q)'
  BY <1>1, <1>3, FedGrows DEF QueuesFed
<1>4. CASE Quiet
  <2>1. HandsFed'
    BY <1>2, <1>4 DEF HandsFed, Quiet, Still
  <2>2. QueuesFed'
    BY <1>3, <1>4 DEF QueuesFed, Quiet, Still
  <2> QED BY <2>1, <2>2
<1>5. CASE Moves
  <2>1. PICK w \in DOMAIN workers, p \in DOMAIN pipelines, x \in Values :
         \/ Makes(w, p, x) \/ Delivers(w, p, x) \/ Loses(w, p, x)
         \/ \E q \in DOMAIN queues : Pops(w, p, q, x) \/ Puts(w, p, q, x)
    BY <1>5 DEF Moves
  <2>2. w \in Nat /\ p \in Nat /\ x # None /\ workers'[w].pipeline = workers[w].pipeline /\ pipelines' = pipelines
        /\ \A v \in Values : v # None
    BY <1>1, <1>5, Ranges, ValueParts DEF Grows, Moves
  <2>3. CASE Makes(w, p, x)
    <3>1. /\ Hand(w)' = x /\ x[1] = p /\ p = workers[w].pipeline /\ pipelines[p].from = 0
      BY <2>3 DEF Makes
    <3>2. OwnSourced(p)' /\ Reaches(p, p)'
      BY <2>2, <3>1 DEF OwnSourced, Reaches
    <3>3. HandsFed'
      BY <1>2, <2>2, <2>3, <3>1, <3>2 DEF HandsFed, Makes, Still
    <3>4. QueuesFed'
      BY <1>3, <2>3 DEF QueuesFed, Makes, Still
    <3> QED BY <3>3, <3>4
  <2>4. CASE Delivers(w, p, x) \/ Loses(w, p, x)
    <3>1. Hand(w)' = None /\ (\A u \in Nat \ {w} : Hand(u)' = Hand(u)) /\ \A q \in Nat : Line(q)' = Line(q)
      BY <2>4 DEF Delivers, Loses, Holds, Still
    <3>2. HandsFed'
      BY <1>2, <2>2, <3>1 DEF HandsFed
    <3>3. QueuesFed'
      BY <1>3, <3>1 DEF QueuesFed
    <3> QED BY <3>2, <3>3
  <2>5. CASE \E q \in DOMAIN queues : Pops(w, p, q, x)
    <3>0. PICK q \in Nat : Pops(w, p, q, x)
      BY <2>5, Ranges
    <3>1. /\ Hand(w)' = x /\ (\A u \in Nat \ {w} : Hand(u)' = Hand(u)) /\ (\A r \in Nat \ {q} : Line(r)' = Line(r))
          /\ p = workers[w].pipeline /\ pipelines[p].from = q
          /\ Line(q) # <<>> /\ x = Head(Line(q)) /\ Line(q)' = Tail(Line(q)) /\ Line(q) \in Seq(Values)
      BY <3>0, Contents DEF Pops, Still
    <3>2. 1 \in DOMAIN Line(q) /\ x = Line(q)[1]
          /\ \A i \in DOMAIN Line(q)' : i + 1 \in DOMAIN Line(q) /\ Line(q)'[i] = Line(q)[i + 1]
      BY <3>1
    <3>3. OwnSourced(x[1]) /\ Passes(x[1], q)
      BY <3>2 DEF QueuesFed
    <3>4. Reaches(x[1], p)
      BY <3>1, <3>3 DEF Passes, Reaches
    <3>5. OwnSourced(x[1])' /\ Reaches(x[1], p)'
      BY <1>1, <3>3, <3>4, FedGrows
    <3>6. HandsFed'
      BY <1>2, <2>2, <3>1, <3>5 DEF HandsFed
    <3>7. ASSUME NEW r \in Nat, NEW i \in DOMAIN Line(r)', NEW s, s = Line(r)'[i][1]
          PROVE  OwnSourced(s)' /\ Passes(s, r)'
      <4>1. CASE r # q
        BY <1>3, <3>1, <3>7, <4>1
      <4>2. CASE r = q
        <5>1. i + 1 \in DOMAIN Line(q) /\ Line(q)'[i] = Line(q)[i + 1]
          BY <3>2, <4>2
        <5> QED BY <1>3, <3>7, <4>2, <5>1
      <4> QED BY <4>1, <4>2
    <3> QED BY <3>6, <3>7 DEF QueuesFed
  <2>6. CASE \E q \in DOMAIN queues : Puts(w, p, q, x)
    <3>0. PICK q \in Nat : Puts(w, p, q, x) /\ q # 0
      BY <2>6, Ranges
    <3>1. /\ Hand(w)' = None /\ (\A u \in Nat \ {w} : Hand(u)' = Hand(u)) /\ (\A r \in Nat \ {q} : Line(r)' = Line(r))
          /\ p = workers[w].pipeline /\ pipelines[p].to = q /\ Hand(w) = x
          /\ Line(q)' = Append(Line(q), x) /\ Line(q) \in Seq(Values)
      BY <3>0, Contents DEF Puts, Holds, Still
    <3>2. \A i \in DOMAIN Line(q)' : Line(q)'[i] = x \/ (i \in DOMAIN Line(q) /\ Line(q)'[i] = Line(q)[i])
      BY <3>1
    <3>3. OwnSourced(x[1]) /\ Reaches(x[1], p)
      BY <2>2, <3>1 DEF HandsFed
    <3>4. Passes(x[1], q)
      <4>1. x[1] \in DOMAIN pipelines
        BY <3>3 DEF OwnSourced
      <4> QED BY <3>0, <3>1, <3>3, <4>1, PassesOn, PipelineNumbers
    <3>5. OwnSourced(x[1])' /\ Passes(x[1], q)'
      BY <1>1, <3>3, <3>4, FedGrows
    <3>6. HandsFed'
      BY <1>2, <2>2, <3>1 DEF HandsFed
    <3>7. ASSUME NEW r \in Nat, NEW i \in DOMAIN Line(r)', NEW s, s = Line(r)'[i][1]
          PROVE  OwnSourced(s)' /\ Passes(s, r)'
      <4>1. CASE r # q
        BY <1>3, <3>1, <3>7, <4>1
      <4>2. CASE r = q
        BY <1>3, <3>2, <3>5, <3>7, <4>2
      <4> QED BY <4>1, <4>2
    <3> QED BY <3>6, <3>7 DEF QueuesFed
  <2> QED BY <2>1, <2>3, <2>4, <2>5, <2>6
<1> QED BY <1>1, <1>4, <1>5

-----------------------------------------------------------------------------
(* OrderInv is an invariant *)

\* No two values of one source are with threads at the same distance.
LEMMA Abreast ==
    ASSUME BasicInv, WiringInv, Exclusive, HandsFed,
           NEW u \in Nat, NEW w \in Nat, NEW v \in Values, NEW x \in Values,
           Hand(u) = v, Hand(w) = x, v[1] = x[1], Pipe(u).from = Pipe(w).from
    PROVE  u = w
<1> DEFINE a == workers[u].pipeline
           b == workers[w].pipeline
<1>1. u \in DOMAIN workers /\ w \in DOMAIN workers /\ Executing(u) /\ Executing(w)
  BY ValueParts, Contents
<1>2. a \in DOMAIN pipelines /\ b \in DOMAIN pipelines /\ pipelines[a].from = pipelines[b].from
  BY <1>1, WorkerAt DEF Pipe
<1>3. PICK s \in DOMAIN pipelines : s = v[1] /\ OwnSourced(s) /\ Reaches(s, a) /\ Reaches(s, b)
  BY DEF HandsFed, OwnSourced
<1> HIDE DEF a, b
<1>4. pipelines[s].to \in Nat /\ pipelines[a].from \in Nat
  BY <1>2, PipelineNumbers
<1>5. a = b
  <2>1. CASE pipelines[a].from = 0
    <3>1. a = s /\ b = s
      BY <1>2, <1>3, <1>4, <2>1 DEF Reaches
    <3> QED BY <3>1
  <2>2. CASE pipelines[a].from # 0
    <3>1. a # s
      BY <1>3, <2>2 DEF OwnSourced
    <3>2. PICK f \in DOMAIN pipelines : pipelines[f].to = pipelines[a].from
      BY <1>3, <3>1 DEF Reaches
    <3> QED BY <1>2, <2>2, <3>2, OnlyEnds
  <2> QED BY <2>1, <2>2
<1> QED BY <1>1, <1>5 DEF Exclusive, a, b

\* What is under way has been made.
LEMMA TransitMade ==
    ASSUME BasicInv, PlacesInv, NEW v \in Values, NEW d, InTransit(v, d)
    PROVE  v[2] <= MadeBy(v[1])
<1>1. \E k \in Kinds : \E a, b \in Nat : IsAt(v, k, a, b)
  <2>1. CASE \E w \in Nat : Hand(w) = v /\ d = 2 * Pipe(w).from
    BY <2>1 DEF IsAt, Kinds
  <2>2. CASE \E q \in Nat : (\E i \in DOMAIN Line(q) : Line(q)[i] = v) /\ d + 1 = 2 * q
    <3>0. PICK q \in Nat : \E i \in DOMAIN Line(q) : Line(q)[i] = v
      BY <2>2
    <3>1. PICK i \in DOMAIN Line(q) : Line(q)[i] = v
      BY <3>0
    <3>2. Line(q) \in Seq(Values)
      BY Contents
    <3>3. i \in Nat
      BY <3>2
    <3>4. IsAt(v, "queue", q, i)
      BY <3>1 DEF IsAt
    <3> QED BY <3>3, <3>4 DEF Kinds
  <2> QED BY <2>1, <2>2 DEF InTransit
<1> QED BY <1>1 DEF PlacesInv, Somewhere, IsMade

\* What a sink has got has been made.
LEMMA GotMade ==
    ASSUME BasicInv, PlacesInv, NEW p \in Nat, NEW i \in DOMAIN Got(p)
    PROVE  Got(p)[i] \in Values /\ Got(p)[i][2] <= MadeBy(Got(p)[i][1])
<1>1. PICK v : v = Got(p)[i]
  OBVIOUS
<1>2. Got(p) \in Seq(Values)
  BY Contents
<1>3. v \in Values /\ i \in Nat
  BY <1>1, <1>2
<1>4. IsAt(v, "sink", p, i)
  BY <1>1 DEF IsAt
<1>5. Somewhere(v)
  BY <1>3, <1>4 DEF Somewhere, Kinds
<1> QED BY <1>1, <1>3, <1>5 DEF PlacesInv, IsMade

\* Not in the hands of w and not in queue q.
Elsewhere(v, d, w, q) ==
    \/ \E u \in Nat \ {w} : Hand(u) = v /\ d = 2 * Pipe(u).from
    \/ \E r \in Nat \ {q} : (\E i \in DOMAIN Line(r) : Line(r)[i] = v) /\ d + 1 = 2 * r

\* What is elsewhere is under way.
LEMMA ElsewhereInTransit ==
    ASSUME NEW v, NEW d, NEW w, NEW q, Elsewhere(v, d, w, q)
    PROVE  InTransit(v, d)
BY DEF Elsewhere, InTransit

\* A worker's pipeline stays as it is.
LEMMA PipeStays ==
    ASSUME BasicInv, Grows, NEW w \in DOMAIN workers
    PROVE  Pipe(w)' = Pipe(w) /\ Pipe(w).from \in Nat /\ Pipe(w).to \in Nat
<1>1. PICK p \in DOMAIN pipelines : p = workers[w].pipeline
  BY WorkerAt
<1>2. workers'[w].pipeline = p /\ pipelines'[p] = pipelines[p]
  BY <1>1 DEF Grows
<1>3. Pipe(w)' = Pipe(w)
  BY <1>1, <1>2 DEF Pipe
<1> QED BY <1>1, <1>3, PipelineNumbers DEF Pipe

\* What is under way after a step that leaves everything alone but worker w and
\* queue q.
LEMMA TransitAfter ==
    ASSUME BasicInv, Grows, NEW w \in Nat, NEW q \in Nat,
           \A u \in Nat \ {w} : Hand(u)' = Hand(u),
           \A r \in Nat \ {q} : Line(r)' = Line(r),
           NEW v \in Values, NEW d \in Nat, InTransit(v, d)'
    PROVE  \/ Elsewhere(v, d, w, q)
           \/ Hand(w)' = v /\ d = 2 * Pipe(w)'.from
           \/ (\E i \in DOMAIN Line(q)' : Line(q)'[i] = v) /\ d + 1 = 2 * q
<1>1. \/ \E u \in Nat : Hand(u)' = v /\ d = 2 * Pipe(u)'.from
      \/ \E r \in Nat : (\E i \in DOMAIN Line(r)' : Line(r)'[i] = v) /\ d + 1 = 2 * r
  BY DEF InTransit
<1>2. CASE \E u \in Nat : Hand(u)' = v /\ d = 2 * Pipe(u)'.from
  <2>1. PICK u \in Nat : Hand(u)' = v /\ d = 2 * Pipe(u)'.from
    BY <1>2
  <2>2. CASE u # w
    <3>1. Hand(u) = v /\ v # None
      BY <2>1, <2>2, ValueParts
    <3>2. u \in DOMAIN workers
      BY <3>1, Contents
    <3>3. Pipe(u)' = Pipe(u)
      BY <3>2, PipeStays
    <3> QED BY <2>1, <2>2, <3>1, <3>3 DEF Elsewhere
  <2>3. CASE u = w
    BY <2>1, <2>3
  <2> QED BY <2>2, <2>3
<1>3. CASE \E r \in Nat : (\E i \in DOMAIN Line(r)' : Line(r)'[i] = v) /\ d + 1 = 2 * r
  <2>1. PICK r \in Nat : (\E i \in DOMAIN Line(r)' : Line(r)'[i] = v) /\ d + 1 = 2 * r
    BY <1>3
  <2>2. CASE r # q
    <3>1. Line(r)' = Line(r)
      BY <2>2
    <3> QED BY <2>1, <2>2, <3>1 DEF Elsewhere
  <2>3. CASE r = q
    BY <2>1, <2>3
  <2> QED BY <2>2, <2>3
<1> QED BY <1>1, <1>2, <1>3

\* No value of the source of x that is at a distance from C to D is older.
NoneOlder(x, C, D, v, d) == v[1] = x[1] /\ C <= d /\ d < D => x[2] < v[2]

\* Value x, at the distance C, goes on to D, past no older one of its source.
Advances(x, C, D) ==
    /\ InTransit(x, C) /\ C <= D
    /\ \A v \in Values : \A d \in Nat :
         InTransit(v, d)' => (InTransit(v, d) /\ NoneOlder(x, C, D, v, d)) \/ (v = x /\ d = D)

\* No value goes on.
Rests == \A v \in Values : \A d \in Nat : InTransit(v, d)' => InTransit(v, d)

\* The order holds on when a value advances.
LEMMA TransitAdvances ==
    ASSUME TransitOrder, NEW x \in Values, NEW C \in Nat, NEW D \in Nat, Advances(x, C, D)
    PROVE  TransitOrder'
<1> SUFFICES ASSUME NEW v \in Values, NEW u \in Values, NEW c \in Nat, NEW d \in Nat,
                    v[1] = u[1], InTransit(v, c)', InTransit(u, d)', c < d
             PROVE  u[2] < v[2]
  BY DEF TransitOrder
<1>1. InTransit(x, C) /\ C <= D
  BY DEF Advances
<1>2. (InTransit(v, c) /\ NoneOlder(x, C, D, v, c)) \/ (v = x /\ c = D)
  BY DEF Advances
<1>3. InTransit(u, d) \/ (u = x /\ d = D)
  BY DEF Advances
<1>4. CASE InTransit(v, c) /\ InTransit(u, d)
  BY <1>4 DEF TransitOrder
<1>5. CASE v = x /\ c = D /\ InTransit(u, d)
  <2>1. C < d
    BY <1>1, <1>5
  <2> QED BY <1>1, <1>5, <2>1 DEF TransitOrder
<1>6. CASE InTransit(v, c) /\ NoneOlder(x, C, D, v, c) /\ u = x /\ d = D
  <2>1. CASE c < C
    BY <1>1, <1>6, <2>1 DEF TransitOrder
  <2>2. CASE C <= c
    BY <1>6, <2>2 DEF NoneOlder
  <2> QED BY <2>1, <2>2
<1> QED BY <1>2, <1>3, <1>4, <1>5, <1>6

\* A pipeline with something in its sink stays as it is.
LEMMA SinkStays ==
    ASSUME BasicInv, Grows, NEW p \in Nat, NEW i \in DOMAIN Got(p)
    PROVE  p \in DOMAIN pipelines /\ pipelines'[p] = pipelines[p] /\ pipelines[p].from \in Nat
<1>1. Got(p) # <<>>
  OBVIOUS
<1>2. p \in DOMAIN pipelines
  BY <1>1, Contents
<1> QED BY <1>2, PipelineNumbers DEF Grows

\* What sinks have got is older still when a value advances.
LEMMA SinkAdvances ==
    ASSUME BasicInv, Grows, SinkOrder, \A p \in Nat : Got(p)' = Got(p),
           NEW x \in Values, NEW C \in Nat, NEW D \in Nat, Advances(x, C, D)
    PROVE  SinkOrder'
<1> SUFFICES ASSUME NEW p \in Nat, NEW i \in DOMAIN Got(p), NEW v \in Values, NEW c \in Nat,
                    Got(p)[i][1] = v[1], InTransit(v, c)', c <= 2 * pipelines'[p].from
             PROVE  Got(p)[i][2] < v[2]
  BY DEF SinkOrder
<1>1. pipelines'[p] = pipelines[p] /\ pipelines[p].from \in Nat
  BY SinkStays
<1>2. InTransit(v, c) \/ (v = x /\ c = D)
  BY DEF Advances
<1>3. CASE InTransit(v, c)
  BY <1>1, <1>3 DEF SinkOrder
<1>4. CASE v = x /\ c = D
  <2>1. InTransit(x, C) /\ C <= 2 * pipelines[p].from
    BY <1>1, <1>4 DEF Advances
  <2> QED BY <1>4, <2>1 DEF SinkOrder
<1> QED BY <1>2, <1>3, <1>4

\* The order holds on when no value goes on.
LEMMA TransitRests ==
    ASSUME TransitOrder, Rests
    PROVE  TransitOrder'
BY DEF TransitOrder, Rests

\* What sinks have got is older still when no value goes on.
LEMMA SinkRests ==
    ASSUME BasicInv, Grows, SinkOrder, Rests, \A p \in Nat : Got(p)' = Got(p)
    PROVE  SinkOrder'
<1> SUFFICES ASSUME NEW p \in Nat, NEW i \in DOMAIN Got(p), NEW v \in Values, NEW c \in Nat,
                    Got(p)[i][1] = v[1], InTransit(v, c)', c <= 2 * pipelines'[p].from
             PROVE  Got(p)[i][2] < v[2]
  BY DEF SinkOrder
<1>1. pipelines'[p] = pipelines[p]
  BY SinkStays
<1>2. InTransit(v, c)
  BY DEF Rests
<1> QED BY <1>1, <1>2 DEF SinkOrder

\* Queues that are left alone keep their order.
LEMMA LinesRest ==
    ASSUME QueueOrder, \A q \in Nat : Line(q)' = Line(q)
    PROVE  QueueOrder'
BY DEF QueueOrder

\* Sinks that get nothing keep their order.
LEMMA SinksRest ==
    ASSUME GotOrder, \A p \in Nat : Got(p)' = Got(p)
    PROVE  GotOrder'
BY DEF GotOrder

\* Nothing moves, or a full queue refuses a value.
LEMMA OrderStays ==
    ASSUME BasicInv, OrderInv, Grows, NEW w \in Nat,
           \A u \in Nat \ {w} : Hand(u)' = Hand(u), Hand(w)' \in {Hand(w), None}, w \in DOMAIN workers,
           \A q \in Nat : Line(q)' = Line(q), \A p \in Nat : Got(p)' = Got(p)
    PROVE  OrderInv'
<1>1. ASSUME NEW v \in Values, NEW d \in Nat, InTransit(v, d)' PROVE InTransit(v, d)
  <2>1. \/ Elsewhere(v, d, w, 0)
        \/ Hand(w)' = v /\ d = 2 * Pipe(w)'.from
        \/ (\E i \in DOMAIN Line(0)' : Line(0)'[i] = v) /\ d + 1 = 2 * 0
    BY <1>1, TransitAfter
  <2>2. CASE Hand(w)' = v /\ d = 2 * Pipe(w)'.from
    <3>1. Pipe(w)' = Pipe(w)
      BY PipeStays
    <3>2. Hand(w) = v
      BY <2>2, ValueParts
    <3> QED BY <2>2, <3>1, <3>2 DEF InTransit
  <2>3. d + 1 # 2 * 0
    OBVIOUS
  <2> QED BY <2>1, <2>2, <2>3, ElsewhereInTransit
<1>2. Rests
  BY <1>1 DEF Rests
<1>3. QueueOrder' /\ GotOrder'
  BY LinesRest, SinksRest DEF OrderInv
<1>4. TransitOrder' /\ SinkOrder'
  BY <1>2, TransitRests, SinkRests DEF OrderInv
<1> QED BY <1>3, <1>4 DEF OrderInv

\* A new value comes last.
LEMMA OrderMakes ==
    ASSUME BasicInv, PlacesInv, OrderInv, Grows, NEW w \in Nat, NEW p \in Nat, NEW x \in Values, Makes(w, p, x)
    PROVE  OrderInv'
<1>1. /\ x[1] = p /\ x[2] = MadeBy(p) + 1 /\ Hand(w)' = x /\ w \in DOMAIN workers /\ MadeBy(p) \in Nat
      /\ Pipe(w).from = 0
      /\ \A u \in Nat \ {w} : Hand(u)' = Hand(u)
      /\ \A q \in Nat : Line(q)' = Line(q)
      /\ \A y \in Nat : Got(y)' = Got(y)
  <2>1. x[1] = p /\ x[2] = MadeBy(p) + 1 /\ Hand(w)' = x /\ w \in DOMAIN workers
    BY DEF Makes
  <2>2. MadeBy(p) \in Nat
    BY Contents, BoundsAssumption
  <2>3. Pipe(w).from = 0
    BY DEF Makes, Pipe
  <2>4. /\ \A u \in Nat \ {w} : Hand(u)' = Hand(u)
        /\ \A q \in Nat : Line(q)' = Line(q)
        /\ \A y \in Nat : Got(y)' = Got(y)
    BY DEF Makes, Still
  <2> QED BY <2>1, <2>2, <2>3, <2>4
<1>2. QueueOrder' /\ GotOrder'
  BY <1>1, LinesRest, SinksRest DEF OrderInv
<1>3. ASSUME NEW v \in Values, NEW d \in Nat, InTransit(v, d)' PROVE InTransit(v, d) \/ (v = x /\ d = 0)
  <2>1. \/ Elsewhere(v, d, w, 0)
        \/ Hand(w)' = v /\ d = 2 * Pipe(w)'.from
        \/ (\E i \in DOMAIN Line(0)' : Line(0)'[i] = v) /\ d + 1 = 2 * 0
    BY <1>1, <1>3, TransitAfter
  <2>2. Pipe(w)' = Pipe(w)
    BY <1>1, PipeStays
  <2>3. d + 1 # 2 * 0 /\ 2 * 0 = 0
    OBVIOUS
  <2> QED BY <1>1, <2>1, <2>2, <2>3, ElsewhereInTransit
<1>4. TransitOrder'
  <2> SUFFICES ASSUME NEW v \in Values, NEW u \in Values, NEW c \in Nat, NEW d \in Nat,
                      v[1] = u[1], InTransit(v, c)', InTransit(u, d)', c < d
               PROVE  u[2] < v[2]
    BY DEF TransitOrder
  <2>1. InTransit(u, d)
    BY <1>3
  <2>2. CASE InTransit(v, c)
    BY <2>1, <2>2 DEF OrderInv, TransitOrder
  <2>3. CASE v = x
    <3>1. u[2] <= MadeBy(p)
      BY <1>1, <2>1, <2>3, TransitMade
    <3>2. u[2] \in Nat
      BY ValueParts
    <3> QED BY <1>1, <2>3, <3>1, <3>2
  <2> QED BY <1>3, <2>2, <2>3
<1>5. SinkOrder'
  <2> SUFFICES ASSUME NEW y \in Nat, NEW i \in DOMAIN Got(y), NEW v \in Values, NEW c \in Nat,
                      Got(y)[i][1] = v[1], InTransit(v, c)', c <= 2 * pipelines'[y].from
               PROVE  Got(y)[i][2] < v[2]
    BY <1>1 DEF SinkOrder
  <2>1. pipelines'[y] = pipelines[y]
    BY SinkStays
  <2>2. CASE InTransit(v, c)
    BY <2>1, <2>2 DEF OrderInv, SinkOrder
  <2>3. CASE v = x
    <3>1. PICK g \in Values : g = Got(y)[i] /\ g[2] <= MadeBy(g[1])
      BY GotMade
    <3>2. g[2] \in Nat
      BY ValueParts
    <3> QED BY <1>1, <2>3, <3>1, <3>2
  <2> QED BY <1>3, <2>2, <2>3
<1> QED BY <1>2, <1>4, <1>5 DEF OrderInv

\* A value is taken from the head of a queue.
LEMMA OrderPops ==
    ASSUME BasicInv, OrderInv, Grows, NEW w \in Nat, NEW p \in Nat, NEW q \in Nat, NEW x \in Values,
           Pops(w, p, q, x)
    PROVE  OrderInv'
<1>1. /\ Hand(w)' = x /\ w \in DOMAIN workers /\ Pipe(w).from = q
      /\ Line(q) # <<>> /\ x = Head(Line(q)) /\ Line(q)' = Tail(Line(q))
  BY DEF Pops, Pipe
<1>2. /\ \A u \in Nat \ {w} : Hand(u)' = Hand(u)
      /\ \A r \in Nat \ {q} : Line(r)' = Line(r)
      /\ \A y \in Nat : Got(y)' = Got(y)
  BY DEF Pops, Still
<1>3. q # 0
  BY <1>1, Contents, Ranges
<1>4. /\ 1 \in DOMAIN Line(q) /\ x = Line(q)[1]
      /\ \A i \in DOMAIN Line(q)' :
           i \in Nat /\ i + 1 \in DOMAIN Line(q) /\ 1 < i + 1 /\ Line(q)'[i] = Line(q)[i + 1]
  <2>1. Line(q) \in Seq(Values)
    BY Contents
  <2> QED BY <1>1, <2>1
<1>5. QueueOrder'
  <2> SUFFICES ASSUME NEW r \in Nat, NEW i \in DOMAIN Line(r)', NEW j \in DOMAIN Line(r)',
                      i < j, Line(r)'[i][1] = Line(r)'[j][1]
               PROVE  Line(r)'[i][2] < Line(r)'[j][2]
    BY DEF QueueOrder
  <2>1. CASE r # q
    BY <1>2, <2>1 DEF OrderInv, QueueOrder
  <2>2. CASE r = q
    <3>1. PICK a \in DOMAIN Line(q), b \in DOMAIN Line(q) :
            a < b /\ Line(q)'[i] = Line(q)[a] /\ Line(q)'[j] = Line(q)[b]
      BY <1>4, <2>2
    <3> QED BY <2>2, <3>1 DEF OrderInv, QueueOrder
  <2> QED BY <2>1, <2>2
<1>6. GotOrder'
  BY <1>2, SinksRest DEF OrderInv
<1>7. PICK C \in Nat, D \in Nat : C + 1 = 2 * q /\ D = 2 * q /\ D = C + 1
  <2>1. 2 * q - 1 \in Nat /\ 2 * q \in Nat
    BY <1>3
  <2> QED BY <2>1
<1>8. Advances(x, C, D)
  <2>1. InTransit(x, C)
    BY <1>4, <1>7 DEF InTransit
  <2>2. ASSUME NEW v \in Values, NEW d \in Nat, InTransit(v, d)'
        PROVE  (InTransit(v, d) /\ NoneOlder(x, C, D, v, d)) \/ (v = x /\ d = D)
    <3>1. \/ Elsewhere(v, d, w, q)
          \/ Hand(w)' = v /\ d = 2 * Pipe(w)'.from
          \/ (\E i \in DOMAIN Line(q)' : Line(q)'[i] = v) /\ d + 1 = 2 * q
      BY <1>1, <1>2, <2>2, TransitAfter
    <3>2. CASE Elsewhere(v, d, w, q)
      <4>1. InTransit(v, d)
        BY <3>2, ElsewhereInTransit
      <4>2. d # C
        <5>1. CASE \E u \in Nat \ {w} : Hand(u) = v /\ d = 2 * Pipe(u).from
          <6>1. PICK u \in Nat : Hand(u) = v /\ d = 2 * Pipe(u).from
            BY <5>1
          <6>2. Pipe(u).from \in Nat
            BY <6>1, ValueParts, Contents, PipeStays
          <6> QED BY <1>7, <6>1, <6>2
        <5>2. CASE \E r \in Nat \ {q} : d + 1 = 2 * r
          BY <1>7, <5>2
        <5> QED BY <3>2, <5>1, <5>2 DEF Elsewhere
      <4>3. ~(C <= d /\ d < D)
        BY <1>7, <4>2
      <4> QED BY <4>1, <4>3 DEF NoneOlder
    <3>3. CASE Hand(w)' = v /\ d = 2 * Pipe(w)'.from
      <4>1. Pipe(w)' = Pipe(w)
        BY <1>1, PipeStays
      <4> QED BY <1>1, <1>7, <3>3, <4>1
    <3>4. CASE (\E i \in DOMAIN Line(q)' : Line(q)'[i] = v) /\ d + 1 = 2 * q
      <4>1. PICK i \in DOMAIN Line(q) : 1 < i /\ Line(q)[i] = v
        BY <1>4, <3>4
      <4>2. v[1] = x[1] => x[2] < v[2]
        BY <1>4, <4>1 DEF OrderInv, QueueOrder
      <4>3. InTransit(v, d)
        BY <3>4, <4>1 DEF InTransit
      <4> QED BY <4>2, <4>3 DEF NoneOlder
    <3> QED BY <3>1, <3>2, <3>3, <3>4
  <2>3. C <= D
    BY <1>7
  <2> QED BY <2>1, <2>2, <2>3 DEF Advances
<1>9. TransitOrder' /\ SinkOrder'
  BY <1>2, <1>8, TransitAdvances, SinkAdvances DEF OrderInv
<1> QED BY <1>5, <1>6, <1>9 DEF OrderInv

\* Where a pipeline puts a value, none of its source is on the way there.
LEMMA NoneBetween ==
    ASSUME BasicInv, WiringInv, Exclusive, HandsFed, QueuesFed, Grows,
           NEW w \in Nat, NEW x \in Values, Hand(w) = x, NEW q \in Nat \ {0}, Pipe(w).to = q,
           NEW v \in Values, NEW d \in Nat, Elsewhere(v, d, w, q), v[1] = x[1],
           2 * Pipe(w).from <= d, d + 1 < 2 * q
    PROVE  FALSE
<1>1. w \in DOMAIN workers
  BY ValueParts, Contents
<1>2. PICK p \in DOMAIN pipelines : p = workers[w].pipeline /\ pipelines[p] = Pipe(w)
  BY <1>1, WorkerAt DEF Pipe
<1>3. PICK s \in DOMAIN pipelines : s = x[1] /\ OwnSourced(s) /\ Reaches(s, p)
  BY <1>2 DEF HandsFed, OwnSourced
<1>4. pipelines[p].from \in Nat /\ pipelines[p].to = q /\ pipelines[s].to \in Nat /\ pipelines[s].from = 0
  BY <1>2, <1>3, PipelineNumbers DEF OwnSourced
<1>5. CASE \E u \in Nat \ {w} : Hand(u) = v /\ d = 2 * Pipe(u).from
  <2>1. PICK u \in Nat \ {w} : Hand(u) = v /\ d = 2 * Pipe(u).from
    BY <1>5
  <2>2. u \in DOMAIN workers
    BY <2>1, ValueParts, Contents
  <2>3. PICK r \in DOMAIN pipelines : r = workers[u].pipeline /\ pipelines[r] = Pipe(u) /\ pipelines[r].from \in Nat
    BY <2>2, WorkerAt, PipelineNumbers DEF Pipe
  <2>4. Pipe(u).from # Pipe(w).from
    BY <2>1, Abreast
  <2>5. pipelines[p].from < pipelines[r].from /\ pipelines[r].from < q
    BY <1>2, <1>4, <2>1, <2>3, <2>4
  <2>6. Reaches(s, r)
    BY <1>3, <2>1, <2>3 DEF HandsFed
  <2>7. CASE p # s
    <3>1. q = pipelines[p].from + 1
      BY <1>3, <1>4, <2>7, PassesOn
    <3> QED BY <1>4, <2>3, <2>5, <3>1
  <2>8. CASE p = s
    <3>1. r # s
      BY <1>4, <2>5, <2>8
    <3>2. pipelines[s].to <= pipelines[r].from
      BY <2>6, <3>1 DEF Reaches
    <3> QED BY <1>4, <2>3, <2>5, <2>8, <3>2
  <2> QED BY <2>7, <2>8
<1>6. CASE \E r \in Nat \ {q} : (\E i \in DOMAIN Line(r) : Line(r)[i] = v) /\ d + 1 = 2 * r
  <2>0. PICK r \in Nat \ {q} : (\E i \in DOMAIN Line(r) : Line(r)[i] = v) /\ d + 1 = 2 * r
    BY <1>6
  <2>1. PICK i \in DOMAIN Line(r) : Line(r)[i] = v
    BY <2>0
  <2>2. pipelines[p].from < r /\ r < q
    BY <1>2, <1>4, <2>0
  <2>3. Passes(s, r)
    BY <1>3, <2>1 DEF QueuesFed
  <2>4. CASE p # s
    <3>1. q = pipelines[p].from + 1
      BY <1>3, <1>4, <2>4, PassesOn
    <3> QED BY <1>4, <2>2, <3>1
  <2>5. CASE p = s
    BY <1>4, <2>2, <2>3, <2>5 DEF Passes
  <2> QED BY <2>4, <2>5
<1> QED BY <1>5, <1>6 DEF Elsewhere

\* A value is put at the end of a queue.
LEMMA OrderPuts ==
    ASSUME BasicInv, WiringInv, Exclusive, HandsFed, QueuesFed, OrderInv, Grows,
           NEW w \in Nat, NEW p \in Nat, NEW q \in Nat, NEW x \in Values, Puts(w, p, q, x)
    PROVE  OrderInv'
<1>1. /\ Hand(w) = x /\ Hand(w)' = None /\ w \in DOMAIN workers /\ p = workers[w].pipeline
      /\ pipelines[p] = Pipe(w) /\ Pipe(w).to = q /\ q # 0 /\ Line(q)' = Append(Line(q), x)
  BY Ranges DEF Puts, Holds, Pipe
<1>2. /\ \A u \in Nat \ {w} : Hand(u)' = Hand(u)
      /\ \A r \in Nat \ {q} : Line(r)' = Line(r)
      /\ \A y \in Nat : Got(y)' = Got(y)
  BY DEF Puts, Still
<1>3. /\ Line(q) \in Seq(Values)
      /\ \A i \in DOMAIN Line(q)' : \/ i \in DOMAIN Line(q) /\ Line(q)'[i] = Line(q)[i]
                                    \/ Line(q)'[i] = x /\ \A j \in DOMAIN Line(q)' : j <= i
  <2>1. Line(q) \in Seq(Values)
    BY Contents
  <2> QED BY <1>1, <2>1
<1>4. PICK C \in Nat, D \in Nat : C = 2 * Pipe(w).from /\ D + 1 = 2 * q
  <2>1. Pipe(w).from \in Nat /\ 2 * q - 1 \in Nat
    BY <1>1, PipeStays
  <2> QED BY <2>1
<1>5. C < D
  <2>1. PICK r \in DOMAIN pipelines : r = p
    BY <1>1, WorkerAt
  <2>2. PICK s \in DOMAIN pipelines : s = x[1] /\ OwnSourced(s) /\ Reaches(s, r)
    BY <1>1, <2>1 DEF HandsFed, OwnSourced
  <2>3. pipelines[r].from \in Nat /\ pipelines[s].to \in Nat /\ pipelines[r].to = q /\ pipelines[r].from = Pipe(w).from
    BY <1>1, <2>1, <2>2, PipelineNumbers
  <2>4. pipelines[r].from < q
    <3>1. CASE r = s
      BY <1>1, <2>2, <2>3, <3>1 DEF OwnSourced
    <3>2. CASE r # s
      BY <1>1, <2>2, <2>3, <3>2, PassesOn
    <3> QED BY <3>1, <3>2
  <2> QED BY <1>4, <2>3, <2>4
<1>6. InTransit(x, C)
  BY <1>1, <1>4 DEF InTransit
<1>7. QueueOrder'
  <2> SUFFICES ASSUME NEW r \in Nat, NEW i \in DOMAIN Line(r)', NEW j \in DOMAIN Line(r)',
                      i < j, Line(r)'[i][1] = Line(r)'[j][1]
               PROVE  Line(r)'[i][2] < Line(r)'[j][2]
    BY DEF QueueOrder
  <2>1. CASE r # q
    BY <1>2, <2>1 DEF OrderInv, QueueOrder
  <2>2. CASE r = q
    <3>1. i \in Nat /\ j \in Nat
      BY <1>1, <1>3, <2>2
    <3>2. i \in DOMAIN Line(q) /\ Line(q)'[i] = Line(q)[i]
      BY <1>3, <2>2, <3>1
    <3>3. CASE j \in DOMAIN Line(q) /\ Line(q)'[j] = Line(q)[j]
      BY <2>2, <3>2, <3>3 DEF OrderInv, QueueOrder
    <3>4. CASE Line(q)'[j] = x
      <4>1. PICK y \in Values : y = Line(q)[i]
        BY <1>3, <3>2
      <4>2. InTransit(y, D)
        BY <1>4, <3>2, <4>1 DEF InTransit
      <4>3. y[2] < x[2]
        BY <1>5, <1>6, <2>2, <3>2, <3>4, <4>1, <4>2 DEF OrderInv, TransitOrder
      <4> QED BY <2>2, <3>2, <3>4, <4>1, <4>3
    <3> QED BY <1>3, <2>2, <3>3, <3>4
  <2> QED BY <2>1, <2>2
<1>8. GotOrder'
  BY <1>2, SinksRest DEF OrderInv
<1>9. Advances(x, C, D)
  <2>2. ASSUME NEW v \in Values, NEW d \in Nat, InTransit(v, d)'
        PROVE  (InTransit(v, d) /\ NoneOlder(x, C, D, v, d)) \/ (v = x /\ d = D)
    <3>1. \/ Elsewhere(v, d, w, q)
          \/ Hand(w)' = v /\ d = 2 * Pipe(w)'.from
          \/ (\E i \in DOMAIN Line(q)' : Line(q)'[i] = v) /\ d + 1 = 2 * q
      BY <1>2, <2>2, TransitAfter
    <3>2. CASE Elsewhere(v, d, w, q)
      <4>1. InTransit(v, d)
        BY <3>2, ElsewhereInTransit
      <4>2. ~(v[1] = x[1] /\ C <= d /\ d < D)
        <5> SUFFICES ASSUME v[1] = x[1], C <= d, d < D PROVE FALSE
          OBVIOUS
        <5>1. 2 * Pipe(w).from <= d /\ d + 1 < 2 * q
          BY <1>4
        <5>2. q \in Nat \ {0}
          BY <1>1
        <5> QED BY <1>1, <3>2, <5>1, <5>2, NoneBetween
      <4> QED BY <4>1, <4>2 DEF NoneOlder
    <3>3. Hand(w)' # v
      BY <1>1, ValueParts
    <3>4. CASE (\E i \in DOMAIN Line(q)' : Line(q)'[i] = v) /\ d + 1 = 2 * q
      <4>1. d = D
        BY <1>4, <3>4
      <4>2. CASE v = x
        BY <4>1, <4>2
      <4>3. CASE v # x
        <5>1. InTransit(v, d)
          BY <1>3, <3>4, <4>3 DEF InTransit
        <5> QED BY <4>1, <5>1 DEF NoneOlder
      <4> QED BY <4>2, <4>3
    <3> QED BY <3>1, <3>2, <3>3, <3>4
  <2>3. C <= D
    BY <1>5
  <2> QED BY <1>6, <2>2, <2>3 DEF Advances
<1>10. TransitOrder' /\ SinkOrder'
  BY <1>2, <1>9, TransitAdvances, SinkAdvances DEF OrderInv
<1> QED BY <1>7, <1>8, <1>10 DEF OrderInv

\* A value gets to the sink.
LEMMA OrderDelivers ==
    ASSUME BasicInv, WiringInv, Exclusive, HandsFed, OrderInv, Grows,
           NEW w \in Nat, NEW p \in Nat, NEW x \in Values, Delivers(w, p, x)
    PROVE  OrderInv'
<1>1. /\ Hand(w) = x /\ Hand(w)' = None /\ w \in DOMAIN workers
      /\ pipelines[p] = Pipe(w) /\ Got(p)' = Append(Got(p), x) /\ p \in DOMAIN pipelines
  BY WorkerAt DEF Delivers, Holds, Pipe
<1>2. /\ \A u \in Nat \ {w} : Hand(u)' = Hand(u)
      /\ \A r \in Nat : Line(r)' = Line(r)
      /\ \A y \in Nat \ {p} : Got(y)' = Got(y)
  BY DEF Delivers, Still
<1>3. /\ Got(p) \in Seq(Values)
      /\ \A i \in DOMAIN Got(p)' : \/ i \in DOMAIN Got(p) /\ Got(p)'[i] = Got(p)[i]
                                   \/ Got(p)'[i] = x /\ \A j \in DOMAIN Got(p)' : j <= i
  <2>1. Got(p) \in Seq(Values)
    BY Contents
  <2> QED BY <1>1, <2>1
<1>4. PICK C \in Nat : C = 2 * Pipe(w).from
  <2>1. Pipe(w).from \in Nat
    BY <1>1, PipeStays
  <2> QED BY <2>1
<1>5. InTransit(x, C)
  BY <1>1, <1>4 DEF InTransit
<1>6. ASSUME NEW v \in Values, NEW d \in Nat, InTransit(v, d)'
      PROVE  InTransit(v, d) /\ (v[1] = x[1] => d # C)
  <2>1. \/ Elsewhere(v, d, w, 0)
        \/ Hand(w)' = v /\ d = 2 * Pipe(w)'.from
        \/ (\E i \in DOMAIN Line(0)' : Line(0)'[i] = v) /\ d + 1 = 2 * 0
    BY <1>2, <1>6, TransitAfter
  <2>2. d + 1 # 2 * 0 /\ Hand(w)' # v
    BY <1>1, ValueParts
  <2>3. InTransit(v, d)
    BY <2>1, <2>2, ElsewhereInTransit
  <2>4. CASE \E u \in Nat \ {w} : Hand(u) = v /\ d = 2 * Pipe(u).from
    <3>1. PICK u \in Nat \ {w} : Hand(u) = v /\ d = 2 * Pipe(u).from
      BY <2>4
    <3>2. v[1] = x[1] => Pipe(u).from # Pipe(w).from
      BY <1>1, <3>1, Abreast
    <3>3. Pipe(u).from \in Nat /\ Pipe(w).from \in Nat
      BY <1>1, <3>1, ValueParts, Contents, PipeStays
    <3> QED BY <1>4, <2>3, <3>1, <3>2, <3>3
  <2>5. CASE \E r \in Nat : d + 1 = 2 * r
    <3>1. Pipe(w).from \in Nat
      BY <1>1, PipeStays
    <3> QED BY <1>4, <2>3, <2>5, <3>1
  <2> QED BY <2>1, <2>2, <2>4, <2>5 DEF Elsewhere
<1>7. Rests
  BY <1>6 DEF Rests
<1>8. QueueOrder' /\ TransitOrder'
  BY <1>2, <1>7, LinesRest, TransitRests DEF OrderInv
<1>9. SinkOrder'
  <2> SUFFICES ASSUME NEW y \in Nat, NEW i \in DOMAIN Got(y)', NEW v \in Values, NEW c \in Nat,
                      Got(y)'[i][1] = v[1], InTransit(v, c)', c <= 2 * pipelines'[y].from
               PROVE  Got(y)'[i][2] < v[2]
    BY DEF SinkOrder
  <2>1. InTransit(v, c)
    BY <1>6
  <2>2. CASE i \in DOMAIN Got(y) /\ Got(y)'[i] = Got(y)[i]
    <3>1. pipelines'[y] = pipelines[y]
      BY <2>2, SinkStays
    <3> QED BY <2>1, <2>2, <3>1 DEF OrderInv, SinkOrder
  <2>3. CASE y = p /\ Got(p)'[i] = x
    <3>1. pipelines'[p].from = Pipe(w).from
      BY <1>1 DEF Grows
    <3>2. c < C
      BY <1>4, <1>6, <2>3, <3>1
    <3> QED BY <1>5, <2>1, <2>3, <3>2 DEF OrderInv, TransitOrder
  <2> QED BY <1>2, <1>3, <2>2, <2>3
<1>10. GotOrder'
  <2> SUFFICES ASSUME NEW y \in Nat, NEW i \in DOMAIN Got(y)', NEW j \in DOMAIN Got(y)',
                      i < j, Got(y)'[i][1] = Got(y)'[j][1]
               PROVE  Got(y)'[i][2] < Got(y)'[j][2]
    BY DEF GotOrder
  <2>1. CASE y # p
    BY <1>2, <2>1 DEF OrderInv, GotOrder
  <2>2. CASE y = p
    <3>1. i \in Nat /\ j \in Nat
      BY <1>1, <1>3, <2>2
    <3>2. i \in DOMAIN Got(p) /\ Got(p)'[i] = Got(p)[i]
      BY <1>3, <2>2, <3>1
    <3>3. CASE j \in DOMAIN Got(p) /\ Got(p)'[j] = Got(p)[j]
      BY <2>2, <3>2, <3>3 DEF OrderInv, GotOrder
    <3>4. CASE Got(p)'[j] = x
      <4>1. C <= 2 * pipelines[p].from
        BY <1>1, <1>4
      <4> QED BY <1>5, <2>2, <3>2, <3>4, <4>1 DEF OrderInv, SinkOrder
    <3> QED BY <1>3, <2>2, <3>3, <3>4
  <2> QED BY <2>1, <2>2
<1> QED BY <1>8, <1>9, <1>10 DEF OrderInv

\* At first nothing is under way.
LEMMA OrderInit == Init => OrderInv
<1> SUFFICES ASSUME Init PROVE OrderInv
  OBVIOUS
<1>1. \A a : Line(a) = <<>> /\ Hand(a) = None /\ Got(a) = <<>>
  BY DEF Init, Line, Hand, Got
<1>2. \A v \in Values : \A d : ~InTransit(v, d)
  BY <1>1, ValueParts DEF InTransit
<1> QED BY <1>1, <1>2 DEF OrderInv, QueueOrder, TransitOrder, SinkOrder, GotOrder

\* Every step keeps the order.
LEMMA OrderNext ==
    BasicInv /\ WiringInv /\ PlacesInv /\ Exclusive /\ HandsFed /\ QueuesFed /\ OrderInv /\ [Next]_vars
        => OrderInv'
<1> SUFFICES ASSUME BasicInv, WiringInv, PlacesInv, Exclusive, HandsFed, QueuesFed, OrderInv, [Next]_vars
             PROVE  OrderInv'
  OBVIOUS
<1>1. Grows /\ (Quiet \/ Moves)
  BY Effect
<1>2. CASE Quiet
  <2>1. /\ \A u \in Nat : Hand(u)' = Hand(u)
        /\ \A q \in Nat : Line(q)' = Line(q)
        /\ \A p \in Nat : Got(p)' = Got(p)
    BY <1>2 DEF Quiet, Still
  <2>2. CASE DOMAIN workers = {}
    <3>1. \A u \in Nat : Hand(u) = None
      BY <2>2 DEF Hand
    <3>2. Rests
      <4>1. ASSUME NEW v \in Values, NEW d \in Nat, InTransit(v, d)' PROVE InTransit(v, d)
        <5>1. ~\E u \in Nat : Hand(u)' = v
          BY <2>1, <3>1, ValueParts
        <5> QED BY <2>1, <4>1, <5>1 DEF InTransit
      <4> QED BY <4>1 DEF Rests
    <3>3. QueueOrder' /\ GotOrder'
      BY <2>1, LinesRest, SinksRest DEF OrderInv
    <3>4. TransitOrder' /\ SinkOrder'
      BY <1>1, <2>1, <3>2, TransitRests, SinkRests DEF OrderInv
    <3> QED BY <3>3, <3>4 DEF OrderInv
  <2>3. CASE DOMAIN workers # {}
    <3>1. PICK w \in Nat : w \in DOMAIN workers
      BY <2>3, Ranges
    <3> QED BY <1>1, <2>1, <3>1, OrderStays
  <2> QED BY <2>2, <2>3
<1>3. CASE Moves
  <2>1. PICK w \in DOMAIN workers, p \in DOMAIN pipelines, x \in Values :
         \/ Makes(w, p, x) \/ Delivers(w, p, x) \/ Loses(w, p, x)
         \/ \E q \in DOMAIN queues : Pops(w, p, q, x) \/ Puts(w, p, q, x)
    BY <1>3 DEF Moves
  <2>2. w \in Nat /\ p \in Nat /\ \A q \in DOMAIN queues : q \in Nat
    BY Ranges
  <2>3. CASE Makes(w, p, x)
    BY <1>1, <2>2, <2>3, OrderMakes
  <2>4. CASE Delivers(w, p, x)
    BY <1>1, <2>2, <2>4, OrderDelivers
  <2>5. CASE Loses(w, p, x)
    <3>1. /\ \A u \in Nat \ {w} : Hand(u)' = Hand(u)
          /\ Hand(w)' = None
          /\ \A q \in Nat : Line(q)' = Line(q)
          /\ \A y \in Nat : Got(y)' = Got(y)
      BY <2>5 DEF Loses, Still, Holds
    <3> QED BY <1>1, <2>2, <3>1, OrderStays
  <2>6. CASE \E q \in DOMAIN queues : Pops(w, p, q, x)
    BY <1>1, <2>2, <2>6, OrderPops
  <2>7. CASE \E q \in DOMAIN queues : Puts(w, p, q, x)
    BY <1>1, <2>2, <2>7, OrderPuts
  <2> QED BY <2>1, <2>3, <2>4, <2>5, <2>6, <2>7
<1> QED BY <1>1, <1>2, <1>3

\* What a sink gets of one source it gets in the order it was made in, through
\* any number of queues and threads, and with full queues that refuse some of it
\* (Mission.cpp:13-17, QueueSink.hpp:13).
THEOREM SinksInOrder == Spec => []ReceivedInOrder
<1> DEFINE Inv == BasicInv /\ WiringInv /\ PlacesInv /\ Exclusive /\ HandsFed /\ QueuesFed /\ OrderInv
<1>1. Init => Inv
  BY BasicInit, WiringInit, PlacesInit, ExclusiveInit, FedInit, OrderInit
<1>2. Inv /\ [Next]_vars => Inv'
  BY BasicNext, WiringNext, PlacesNext, ExclusiveNext, FedNext, OrderNext
<1>3. Inv => ReceivedInOrder
  <2> SUFFICES ASSUME BasicInv, GotOrder PROVE ReceivedInOrder
    BY DEF OrderInv
  <2>1. DOMAIN received \subseteq Nat
    BY Ranges
  <2>2. \A p \in DOMAIN received : Got(p) = received[p]
    BY DEF Got
  <2> QED BY <2>1, <2>2 DEF GotOrder, ReceivedInOrder
<1> QED BY <1>1, <1>2, <1>3, PTL DEF Spec
=============================================================================
