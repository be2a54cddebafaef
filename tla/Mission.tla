------------------------------- MODULE Mission -------------------------------
(***************************************************************************)
(* pt::flow::Mission (core/src/flow/Mission.hpp, Mission.cpp): pipelines   *)
(* that the user's build() adds, joined by queues where they have no       *)
(* Source or no Sink of their own, each executed again and again by the    *)
(* thread of a Worker until start(), stop() and ~Mission(), called by one  *)
(* control thread, have it end.                                            *)
(*                                                                         *)
(* A pipeline is its source, perhaps a Module, and its sink; the modules   *)
(* Flow and Pipeline have the rest.  The module Worker has what threads do *)
(* to set themselves up.                                                   *)
(***************************************************************************)
EXTENDS Naturals, SequencesExt

CONSTANTS
    Builds,         \* the pipelines that build() adds: which ends they have
    QueueTypes,     \* the QueueTypes a mission is made with
    Capacity,       \* places of a queue that is not a STD_QUEUE
    MaxValues,      \* bound on the values one Source makes
    MaxStarts,      \* bound on the calls of start()
    MaxWorkers,     \* bound on the workers
    None            \* std::nullopt

\* Whether a pipeline is added with sources, with a Module, with sinks.
Shape == [sources : BOOLEAN, module : BOOLEAN, sinks : BOOLEAN]

ASSUME BuildsAssumption == \A shapes \in Builds : shapes \in Seq(Shape) /\ shapes # <<>>
ASSUME QueueTypesAssumption == QueueTypes \subseteq {"STD_QUEUE", "BLOCKING", "LOCK_FREE"}
ASSUME BoundsAssumption ==
    Capacity \in Nat /\ MaxValues \in Nat /\ MaxStarts \in Nat /\ MaxWorkers \in Nat

VARIABLES
    build,          \* what the user's build() adds
    queue_type,     \* Mission::queue_type
    queues,         \* Mission::queues
    pipelines,      \* Mission::pipelines
    workers,        \* Mission::workers, each with its thread
    starts,         \* the calls of start() so far
    control,        \* what the control thread is in, and the worker it is at
    made,           \* the number of values that the source of a pipeline has made
    received,       \* the values that the sink of a pipeline has got
    lost,           \* the values that a full queue has refused
    process         \* "running", "terminated" or "undefined"

mission == <<build, queue_type, pipelines, starts>>
data == <<queues, made, received, lost>>
vars == <<mission, data, workers, control, process>>

\* A value is named by the pipeline that made it and its number there.
Values == (1..MaxWorkers) \X (1..MaxValues)

ASSUME NoneAssumption == None \notin Values

\* The source of a pipeline pops the queue from, its sink pushes to the queue
\* to; 0 is a source or a sink of the pipeline's own.
PipelineType == [from : Nat, module : BOOLEAN, to : Nat]

\* A worker's function refers to a pipeline as it lay in the vector at the
\* start() that made it.
WorkerType == [pipeline : 1..MaxWorkers, start : 1..MaxStarts, stop_flag : BOOLEAN,
               pc : {"setup", "test", "execute", "source", "module", "sink", "done"},
               item : Values \union {None}]

TypeOK ==
    /\ build \in Builds
    /\ queue_type \in QueueTypes
    /\ queues \in Seq([used : BOOLEAN, items : Seq(Values)])
    /\ queue_type # "STD_QUEUE" => \A q \in DOMAIN queues : Len(queues[q].items) <= Capacity
    /\ pipelines \in Seq(PipelineType)
    /\ workers \in Seq(WorkerType) /\ Len(workers) <= MaxWorkers
    /\ starts \in 0..MaxStarts
    /\ control \in [pc : {"idle", "build", "start", "stop", "destroy", "join", "dead"}, i : 0..MaxWorkers]
    /\ made \in Seq(0..MaxValues) /\ Len(made) = Len(pipelines)
    /\ received \in Seq(Seq(Values)) /\ Len(received) = Len(pipelines)
    /\ lost \subseteq Values
    /\ process \in {"running", "terminated", "undefined"}

At(pc, i) == [pc |-> pc, i |-> i]

Init ==
    /\ build \in Builds
    /\ queue_type \in QueueTypes
    /\ queues = <<>>
    /\ pipelines = <<>>
    /\ workers = <<>>
    /\ starts = 0
    /\ control = At("idle", 0)
    /\ made = <<>>
    /\ received = <<>>
    /\ lost = {}
    /\ process = "running"

Running == process = "running"

-----------------------------------------------------------------------------
(* build() *)

\* (mutated) A queue that is handed out a second time is not marked.
QueueNeverUsed(qs) ==
    IF qs # <<>> /\ ~Last(qs).used THEN qs ELSE Append(qs, [used |-> FALSE, items |-> <<>>])

\* The queue is the last one of the result.
GetOrCreateQueue(qs) ==
    IF qs # <<>> /\ ~Last(qs).used
    THEN [qs EXCEPT ![Len(qs)].used = TRUE]
    ELSE Append(qs, [used |-> FALSE, items |-> <<>>])

\* add(sources, nodes, sinks), to m, a pair of queues and pipelines.
Add(m, shape) ==
    LET forSource == IF shape.sources THEN m.queues ELSE GetOrCreateQueue(m.queues)
        forSink == IF shape.sinks THEN forSource ELSE GetOrCreateQueue(forSource)
        pipeline == [from |-> IF shape.sources THEN 0 ELSE Len(forSource),
                     module |-> shape.module,
                     to |-> IF shape.sinks THEN 0 ELSE Len(forSink)]
    IN [queues |-> forSink, pipelines |-> Append(m.pipelines, pipeline)]

-----------------------------------------------------------------------------
(* start(), stop() and ~Mission(), by the control thread *)

\* start() checks nothing: it may be called again with or without a stop().
Start ==
    /\ Running
    /\ control = At("idle", 0)
    /\ starts < MaxStarts
    /\ Len(workers) + Len(pipelines) + Len(build) <= MaxWorkers
    /\ starts' = starts + 1
    /\ control' = At("build", 1)
    /\ UNCHANGED <<build, queue_type, pipelines, data, workers, process>>

\* build() calls add() again and again.  What an earlier build() has added stays.
AddPipeline ==
    /\ Running
    /\ control.pc = "build"
    /\ LET m == Add([queues |-> queues, pipelines |-> pipelines], build[control.i])
       IN  queues' = m.queues /\ pipelines' = m.pipelines
    /\ made' = Append(made, 0)
    /\ received' = Append(received, <<>>)
    /\ control' = IF control.i = Len(build) THEN At("start", Len(pipelines'))
                                           ELSE At("build", control.i + 1)
    /\ UNCHANGED <<build, queue_type, starts, lost, workers, process>>

\* The last pipeline gets its worker first.
StartWorker ==
    /\ Running
    /\ control.pc = "start"
    /\ workers' = Append(workers, [pipeline |-> control.i, start |-> starts, stop_flag |-> FALSE,
                                   pc |-> "setup", item |-> None])
    /\ control' = IF control.i = 1 THEN At("idle", 0) ELSE At("start", control.i - 1)
    /\ UNCHANGED <<mission, data, process>>

Stop ==
    /\ Running
    /\ control = At("idle", 0)
    /\ workers # <<>>
    /\ control' = At("stop", Len(workers))
    /\ UNCHANGED <<mission, data, workers, process>>

\* The last worker, that of the first pipeline, is stopped first.
StopWorker ==
    /\ Running
    /\ control.pc = "stop"
    /\ workers' = [workers EXCEPT ![control.i].stop_flag = TRUE]
    /\ control' = IF control.i = 1 THEN At("idle", 0) ELSE At("stop", control.i - 1)
    /\ UNCHANGED <<mission, data, process>>

\* The workers are destroyed before the pipelines, the first one first.
Destroy ==
    /\ Running
    /\ control = At("idle", 0)
    /\ control' = IF workers = <<>> THEN At("dead", 0) ELSE At("destroy", 1)
    /\ UNCHANGED <<mission, data, workers, process>>

DestroyWorker ==
    /\ Running
    /\ control.pc = "destroy"
    /\ workers' = [workers EXCEPT ![control.i].stop_flag = TRUE]
    /\ control' = At("join", control.i)
    /\ UNCHANGED <<mission, data, process>>

\* (mutated) The thread is detached.
DetachWorker ==
    /\ Running
    /\ control.pc = "join"
    /\ control' = IF control.i = Len(workers) THEN At("dead", 0) ELSE At("destroy", control.i + 1)
    /\ UNCHANGED <<mission, data, workers, process>>

JoinWorker ==
    /\ Running
    /\ control.pc = "join"
    /\ workers[control.i].pc = "done"
    /\ control' = IF control.i = Len(workers) THEN At("dead", 0) ELSE At("destroy", control.i + 1)
    /\ UNCHANGED <<mission, data, workers, process>>

-----------------------------------------------------------------------------
(* The thread of worker w *)

Pipe(w) == pipelines[workers[w].pipeline]

ThreadAt(w, pc) == Running /\ w \in DOMAIN workers /\ workers[w].pc = pc

\* The thread goes on to pc, with the given item in its hands.
Goes(w, pc, item) == workers' = [workers EXCEPT ![w].pc = pc, ![w].item = item]

ThreadOnly == UNCHANGED <<mission, control>>

\* An exception leaves the worker's function, and std::terminate() is called.
Terminates ==
    /\ process' = "terminated"
    /\ UNCHANGED <<data, workers>>

SetUp(w) ==
    /\ ThreadAt(w, "setup")
    /\ \/ Goes(w, "test", None) /\ UNCHANGED <<data, process>>
       \/ Terminates
    /\ ThreadOnly

\* (mutated) The pipeline that found nothing waits for more, whatever the flag.
SeeStopIfEmptied(w) ==
    /\ ThreadAt(w, "test")
    /\ workers[w].stop_flag
    /\ Pipe(w).from # 0 => queues[Pipe(w).from].items # <<>>
    /\ Goes(w, "done", None)
    /\ UNCHANGED <<data, process>>
    /\ ThreadOnly

SeeStop(w) ==
    /\ ThreadAt(w, "test")
    /\ workers[w].stop_flag
    /\ Goes(w, "done", None)
    /\ UNCHANGED <<data, process>>
    /\ ThreadOnly

SeeNoStop(w) ==
    /\ ThreadAt(w, "test")
    /\ ~workers[w].stop_flag
    /\ Goes(w, "execute", None)
    /\ UNCHANGED <<data, process>>
    /\ ThreadOnly

\* The pipeline has moved since the function's reference to it was made: the
\* vector was full, at 1, 2, 4... pipelines, when another one was added.
Moved(w) ==
    \E k \in 0..MaxWorkers : 2^k \in workers[w].start * Len(build) .. Len(pipelines) - 1

Executing(w) == workers[w].pc \in {"source", "module", "sink"}

\* Another thread is in this pipeline, whose blocks have no locks.
Occupied(w) ==
    \E v \in DOMAIN workers :
        v # w /\ workers[v].pipeline = workers[w].pipeline /\ Executing(v)

Execute(w) ==
    /\ ThreadAt(w, "execute")
    /\ \/ ~Moved(w) /\ ~Occupied(w) /\ Goes(w, "source", None) /\ UNCHANGED process
       \/ (Moved(w) \/ Occupied(w)) /\ process' = "undefined" /\ UNCHANGED workers
    /\ UNCHANGED data
    /\ ThreadOnly

AfterSource(w) == IF Pipe(w).module THEN "module" ELSE "sink"

\* The pipeline's own source makes a value, or nothing.
OwnSource(w) ==
    LET p == workers[w].pipeline IN
    /\ ThreadAt(w, "source")
    /\ Pipe(w).from = 0
    /\ \/ Goes(w, AfterSource(w), None) /\ UNCHANGED made
       \/ /\ made[p] < MaxValues
          /\ made' = [made EXCEPT ![p] = @ + 1]
          /\ Goes(w, AfterSource(w), <<p, made[p] + 1>>)
    /\ UNCHANGED <<queues, received, lost, process>>
    /\ ThreadOnly

\* (mutated) The first value is copied and stays in the queue.
PopPeeks(w) ==
    /\ ThreadAt(w, "source")
    /\ Pipe(w).from # 0
    /\ LET items == queues[Pipe(w).from].items IN
         Goes(w, AfterSource(w), IF items = <<>> THEN None ELSE Head(items))
    /\ UNCHANGED <<data, process>>
    /\ ThreadOnly

\* (mutated) A queue of one value is taken for an empty one.
PopKeepsLast(w) ==
    /\ ThreadAt(w, "source")
    /\ Pipe(w).from # 0
    /\ LET q == Pipe(w).from
           items == queues[q].items IN
         IF Len(items) <= 1
         THEN Goes(w, AfterSource(w), None) /\ UNCHANGED queues
         ELSE /\ Goes(w, AfterSource(w), Head(items))
              /\ queues' = [queues EXCEPT ![q].items = Tail(@)]
    /\ UNCHANGED <<made, received, lost, process>>
    /\ ThreadOnly

Pop(w) ==
    /\ ThreadAt(w, "source")
    /\ Pipe(w).from # 0
    /\ LET q == Pipe(w).from
           items == queues[q].items IN
         IF items = <<>>
         THEN Goes(w, AfterSource(w), None) /\ UNCHANGED queues
         ELSE /\ Goes(w, AfterSource(w), Head(items))
              /\ queues' = [queues EXCEPT ![q].items = Tail(@)]
    /\ UNCHANGED <<made, received, lost, process>>
    /\ ThreadOnly

\* Nothing is handed on as std::nullopt, whose cast to the Module's In throws.
\* A Module passes on what it gets.
ModuleProcess(w) ==
    /\ ThreadAt(w, "module")
    /\ \/ workers[w].item # None /\ Goes(w, "sink", workers[w].item) /\ UNCHANGED <<data, process>>
       \/ workers[w].item = None /\ Terminates
    /\ ThreadOnly

SinkPassesOver(w) ==
    /\ ThreadAt(w, "sink")
    /\ workers[w].item = None
    /\ Goes(w, "test", None)
    /\ UNCHANGED <<data, process>>
    /\ ThreadOnly

OwnSink(w) ==
    /\ ThreadAt(w, "sink")
    /\ workers[w].item # None /\ Pipe(w).to = 0
    /\ received' = [received EXCEPT ![workers[w].pipeline] = Append(@, workers[w].item)]
    /\ Goes(w, "test", None)
    /\ UNCHANGED <<queues, made, lost, process>>
    /\ ThreadOnly

HasRoom(q) == queue_type = "STD_QUEUE" \/ Len(queues[q].items) < Capacity

\* (mutated) A new value takes the place of the oldest one's turn.
PushFirst(w) ==
    /\ ThreadAt(w, "sink")
    /\ workers[w].item # None /\ Pipe(w).to # 0
    /\ LET q == Pipe(w).to IN
         IF HasRoom(q)
         THEN queues' = [queues EXCEPT ![q].items = <<workers[w].item>> \o @] /\ UNCHANGED lost
         ELSE lost' = lost \union {workers[w].item} /\ UNCHANGED queues
    /\ Goes(w, "test", None)
    /\ UNCHANGED <<made, received, process>>
    /\ ThreadOnly

\* The value is moved into the queue, or lost: QueueSink ignores the result.
Push(w) ==
    /\ ThreadAt(w, "sink")
    /\ workers[w].item # None /\ Pipe(w).to # 0
    /\ LET q == Pipe(w).to IN
         IF HasRoom(q)
         THEN queues' = [queues EXCEPT ![q].items = Append(@, workers[w].item)] /\ UNCHANGED lost
         ELSE lost' = lost \union {workers[w].item} /\ UNCHANGED queues
    /\ Goes(w, "test", None)
    /\ UNCHANGED <<made, received, process>>
    /\ ThreadOnly

\* The threads of v and w call push(), or pop(), of one queue at the same time.
SameEnd(v, w) ==
    \/ /\ workers[v].pc = "source" /\ workers[w].pc = "source"
       /\ Pipe(v).from = Pipe(w).from /\ Pipe(w).from # 0
    \/ /\ workers[v].pc = "sink" /\ workers[w].pc = "sink"
       /\ workers[v].item # None /\ workers[w].item # None
       /\ Pipe(v).to = Pipe(w).to /\ Pipe(w).to # 0

\* A lock-free queue has one producer and one consumer; and a pipeline that
\* moves may move under the thread that is executing it.
Contend(w) ==
    /\ Running
    /\ w \in DOMAIN workers
    /\ \/ queue_type # "STD_QUEUE" /\ \E v \in DOMAIN workers \ {w} : SameEnd(v, w)
       \/ Executing(w) /\ Moved(w)
    /\ process' = "undefined"
    /\ UNCHANGED <<data, workers>>
    /\ ThreadOnly

-----------------------------------------------------------------------------

ControlGoesOn == AddPipeline \/ StartWorker \/ StopWorker \/ DestroyWorker \/ JoinWorker

ThreadNext(w) ==
    \/ SetUp(w) \/ SeeStop(w) \/ SeeNoStop(w) \/ Execute(w) \/ OwnSource(w) \/ Pop(w)
    \/ ModuleProcess(w) \/ SinkPassesOver(w) \/ OwnSink(w) \/ Push(w) \/ Contend(w)

Next ==
    \/ Start \/ Stop \/ Destroy \/ ControlGoesOn
    \/ \E w \in DOMAIN workers : ThreadNext(w)

\* A call that has begun goes on, and the kernel schedules every thread.
\* Nothing obliges the control thread to begin a call.
Fairness ==
    /\ WF_vars(ControlGoesOn)
    /\ \A w \in 1..MaxWorkers : WF_vars(ThreadNext(w))

Spec == Init /\ [][Next]_vars

FairSpec == Spec /\ Fairness

-----------------------------------------------------------------------------
(* Properties *)

Between(p, c) == \A i \in p+1 .. c-1 : build[i].sources /\ build[i].sinks

\* The open ends of the pipelines that build() adds alternate.
Alternates ==
    /\ \A p \in DOMAIN build : ~build[p].sinks =>
         \E c \in p+1 .. Len(build) : ~build[c].sources /\ Between(p, c)
    /\ \A c \in DOMAIN build : ~build[c].sources =>
         \E p \in 1 .. c-1 : ~build[p].sinks /\ Between(p, c)

\* Auto-connection (Mission.hpp:195-206): where the open ends alternate, each
\* queue joins two pipelines when they are built, the one that was added with no
\* sink and the next that was added with no source.
QueuesJoinPipelines ==
    Alternates /\ control.pc # "build" =>
        \A q \in DOMAIN queues :
            \E p, c \in DOMAIN pipelines :
                /\ p < c
                /\ \A i \in DOMAIN pipelines :
                     (pipelines[i].to = q <=> i = p) /\ (pipelines[i].from = q <=> i = c)
                /\ \A i \in p+1 .. c-1 : pipelines[i].from = 0 /\ pipelines[i].to = 0

InHands(w) == Executing(w) /\ workers[w].item # None

\* Where a value is, or has ended.
Places(v) ==
    (UNION {{<<"queue", q, i>> : i \in {j \in DOMAIN queues[q].items : queues[q].items[j] = v}} :
                            q \in DOMAIN queues})
    \union {<<"worker", w>> : w \in {u \in DOMAIN workers : InHands(u) /\ workers[u].item = v}}
    \union (UNION {{<<"sink", p, i>> : i \in {j \in DOMAIN received[p] : received[p][j] = v}} :
                            p \in DOMAIN received})
    \union {<<"lost">> : u \in {v} \intersect lost}

\* A value that a source has made is in one place, and stays in the chain until
\* its sink has it, unless a full queue refuses it (QueueSink.hpp:13).
EachValueInOnePlace ==
    \A p \in DOMAIN made : \A n \in 1..made[p] : Cardinality(Places(<<p, n>>)) = 1

\* What a sink gets of one source it gets in the order it was made in, across
\* the queues and threads in between (Mission.cpp:13-17).
ReceivedInOrder ==
    \A p \in DOMAIN received : \A i, j \in DOMAIN received[p] :
        i < j /\ received[p][i][1] = received[p][j][1] => received[p][i][2] < received[p][j][2]

\* The workers are the last members but one of Mission (Mission.hpp:242-245):
\* when its pipelines are destroyed, no thread is left to execute them.
NoThreadOutlivesPipelines ==
    control.pc = "dead" => \A w \in DOMAIN workers : workers[w].pc = "done"

\* Every thread ends after its worker's flag is up, unless the process does.
StoppedThreadsEnd ==
    \A w \in 1..MaxWorkers :
        (w \in DOMAIN workers /\ workers[w].stop_flag)
            ~> (~Running \/ (w \in DOMAIN workers /\ workers[w].pc = "done"))

\* A value is in a queue that some pipeline pops.
Queued(v) ==
    \E c \in DOMAIN pipelines : pipelines[c].from # 0 /\ v \in ToSet(queues[pipelines[c].from].items)

\* A value that has been pushed is popped, unless the mission is stopped or the
\* process ends.
ValuesMoveOn ==
    \A v \in Values :
        Queued(v) ~> (~Queued(v) \/ ~Running \/ \E w \in DOMAIN workers : workers[w].stop_flag)
=============================================================================
