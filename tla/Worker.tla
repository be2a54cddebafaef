------------------------------- MODULE Worker -------------------------------
(***************************************************************************)
(* pt::threads::Worker (core/src/utils/threads/Worker.cpp, Worker.h): an   *)
(* object that owns cores and a std::jthread.  One control thread starts,  *)
(* stops and destroys the workers; every start() makes one more worker     *)
(* thread, which sets its scheduling up and then runs the user's function  *)
(* until it sees the stop flag of its object.                              *)
(*                                                                         *)
(* The calls into CPUManager are atomic here: only the control thread      *)
(* makes them.  CPUManager models their interleavings.                     *)
(***************************************************************************)
EXTENDS CorePools, SequencesExt

CONSTANTS
    Workers,        \* the Worker objects
    PinnedCores,    \* CPUManager's pools at the start
    IsolatedCores,
    Policies,       \* the ThreadPolicies workers are made with
    MaxStarts,      \* bound on the calls to start() of one worker
    None            \* no worker, no frame

Cpus == Members(PinnedCores) \union Members(IsolatedCores)

ASSUME PoliciesAssumption ==
    \A p \in Policies : p \in [cores : Nat, affinity_type : AffinityType, strict : BOOLEAN]

ASSUME PoolsAssumption ==
    /\ PinnedCores \in Seq(Nat) /\ Distinct(PinnedCores)
    /\ IsolatedCores \in Seq(Nat) /\ Distinct(IsolatedCores)

ASSUME MaxStartsAssumption == MaxStarts \in Nat

Starts == 1..MaxStarts

VARIABLES
    pinned_core_pool,   \* CPUManager's free cpus
    isol_core_pool,
    policy,             \* Worker::policy, fixed by the constructor
    allocated_cores,    \* Worker::allocated_cores: ids, all of policy's type
    stop_flag,          \* Worker::stop_flag
    object,             \* "alive", "destroying" (members gone, join pending), "dead"
    starts,             \* threads made so far; the last one is work_thread
    lost,               \* history: cores whose ids a start() of w has overwritten
    restarted,          \* history: workers started again without a stop()
    thread,             \* thread[w][g]: the thread of the g-th start() of w
    control,            \* what the control thread is in, and for which worker
    process             \* "running", "terminated" or "undefined"

pools == <<pinned_core_pool, isol_core_pool>>
history == <<lost, restarted>>
vars == <<pools, policy, allocated_cores, stop_flag, object, starts, history,
          thread, control, process>>

\* strict and mask are what start() put in its frame ({}: a mask nobody wrote),
\* and strict later the thread's own copy; affinity is the set of cpus that the
\* kernel accepted for the thread, or all of them.
Thread == [pc : {"none", "fresh", "priority", "affinity", "loop", "done"},
           strict : BOOLEAN, mask : SUBSET Cpus, affinity : SUBSET Cpus]

NoThread == [pc |-> "none", strict |-> FALSE, mask |-> {}, affinity |-> Cpus]

\* "start": inside start(), whose frame is alive, joining the previous thread;
\* "hung": inside allocate(), on a mutex it holds; "destroy": joining in ~Worker().
Control == [pc : {"idle", "start", "hung", "destroy"}, w : Workers \union {None}]

Idle == [pc |-> "idle", w |-> None]

TypeOK ==
    /\ pinned_core_pool \in Seq(Cpus)
    /\ isol_core_pool \in Seq(Cpus)
    /\ Len(pinned_core_pool) <= Len(PinnedCores)
    /\ Len(isol_core_pool) <= Len(IsolatedCores)
    /\ policy \in [Workers -> Policies]
    /\ allocated_cores \in [Workers -> Seq(Cpus)]
    /\ stop_flag \in [Workers -> BOOLEAN]
    /\ object \in [Workers -> {"alive", "destroying", "dead"}]
    /\ starts \in [Workers -> 0..MaxStarts]
    /\ lost \in [Workers -> SUBSET Cpus]
    /\ restarted \in SUBSET Workers
    /\ thread \in [Workers -> [Starts -> Thread]]
    /\ control \in Control
    /\ process \in {"running", "terminated", "undefined"}

Init ==
    /\ pinned_core_pool = PinnedCores
    /\ isol_core_pool = IsolatedCores
    /\ policy \in [Workers -> Policies]
    /\ allocated_cores = [w \in Workers |-> <<>>]
    /\ stop_flag = [w \in Workers |-> FALSE]
    /\ object = [w \in Workers |-> "alive"]
    /\ starts = [w \in Workers |-> 0]
    /\ lost = [w \in Workers |-> {}]
    /\ restarted = {}
    /\ thread = [w \in Workers |-> [g \in Starts |-> NoThread]]
    /\ control = Idle
    /\ process = "running"

Running == process = "running"

-----------------------------------------------------------------------------
(* start(strict), by the control thread *)

\* start() checks nothing: it may be called after a stop(), while the thread
\* runs, or after the user's function has returned by itself.
MayStart(w) ==
    /\ Running
    /\ control = Idle
    /\ object[w] = "alive"
    /\ starts[w] < MaxStarts

\* The lambda's thread runs from here on, while start() goes on to the move
\* assignment of work_thread.
Spawn(w, mask) ==
    /\ starts' = [starts EXCEPT ![w] = @ + 1]
    /\ \E strict \in BOOLEAN :
         thread' = [thread EXCEPT ![w][starts[w] + 1] =
                      [NoThread EXCEPT !.pc = "fresh", !.strict = strict, !.mask = mask]]
    /\ control' = [pc |-> "start", w |-> w]

\* Each start() begins with it.
ClearFlag(w) ==
    /\ stop_flag' = [stop_flag EXCEPT ![w] = FALSE]
    /\ restarted' = restarted \union (IF starts[w] > 0 /\ ~stop_flag[w] THEN {w} ELSE {})

\* allocated_cores = cores drops the ids it held: NORMAL cores are still in
\* their pool, the others are in no pool and in no vector from now on.
Overwrite(w, cores) ==
    /\ allocated_cores' = [allocated_cores EXCEPT ![w] = cores]
    /\ lost' = [lost EXCEPT ![w] = @ \union
                  (IF policy[w].affinity_type = "NORMAL" THEN {} ELSE Members(allocated_cores[w]))]

Fits(w) == Enough(policy[w], pinned_core_pool, isol_core_pool)

Lacks(w) == LacksIsolated(policy[w], isol_core_pool)

\* The cores in the order of the vector that allocate() returns.
AllocatedFor(p) ==
    CASE p.affinity_type = "NORMAL"   -> SubSeq(pinned_core_pool, 1, p.cores)
      [] p.affinity_type = "PINNED"   -> TakenInOrder(pinned_core_pool, p.cores)
      [] p.affinity_type = "ISOLATED" -> TakenInOrder(isol_core_pool, p.cores)

\* allocate_cores() succeeds and start() has a mask for its thread.
StartAllocated(w) ==
    /\ MayStart(w)
    /\ policy[w].cores > 0 /\ Fits(w) /\ ~Lacks(w)
    /\ ClearFlag(w)
    /\ pinned_core_pool' = PinnedLeft(policy[w], pinned_core_pool)
    /\ isol_core_pool' = IsolLeft(policy[w], isol_core_pool)
    /\ Overwrite(w, AllocatedFor(policy[w]))
    /\ Spawn(w, Members(AllocatedFor(policy[w])))
    /\ UNCHANGED <<policy, object, process>>

\* allocate() throws: allocate_cores() returns false, which start() ignores, and
\* the thread starts with a mask nobody wrote.
StartUnallocated(w) ==
    /\ MayStart(w)
    /\ ~Fits(w) \/ (Lacks(w) /\ policy[w].strict)
    /\ ClearFlag(w)
    /\ Spawn(w, {})
    /\ UNCHANGED <<pools, policy, allocated_cores, lost, object, process>>

\* An empty allocation is an error that start() lets through to its caller.
StartThrows(w) ==
    /\ MayStart(w)
    /\ policy[w].cores = 0
    /\ ClearFlag(w)
    /\ UNCHANGED <<pools, policy, allocated_cores, lost, object, starts, thread, control, process>>

\* allocate() falls back to pinned cores, and blocks on its own mutex.
StartHangs(w) ==
    /\ MayStart(w)
    /\ Fits(w) /\ Lacks(w) /\ ~policy[w].strict
    /\ ClearFlag(w)
    /\ control' = [pc |-> "hung", w |-> w]
    /\ UNCHANGED <<pools, policy, allocated_cores, lost, object, starts, thread, process>>

\* (mutated) The replaced thread is detached.
StartReturnsDetached ==
    /\ Running
    /\ control.pc = "start"
    /\ control' = Idle
    /\ UNCHANGED <<pools, policy, allocated_cores, stop_flag, object, starts, history, thread, process>>

\* work_thread = std::jthread(...) joins the thread it replaces; then start()
\* returns and its frame, with strict and mask, is gone.
StartReturns ==
    /\ Running
    /\ control.pc = "start"
    /\ LET w == control.w IN
         starts[w] > 1 => thread[w][starts[w] - 1].pc = "done"
    /\ control' = Idle
    /\ UNCHANGED <<pools, policy, allocated_cores, stop_flag, object, starts, history, thread, process>>

-----------------------------------------------------------------------------
(* stop() and ~Worker(), by the control thread *)

\* (mutated) NORMAL cores go back to the pool they never left.
StopReturnsNormal(w) ==
    /\ stop_flag' = [stop_flag EXCEPT ![w] = TRUE]
    /\ pinned_core_pool' = pinned_core_pool \o
         (IF policy[w].affinity_type # "ISOLATED" THEN allocated_cores[w] ELSE <<>>)
    /\ isol_core_pool' = isol_core_pool \o
         (IF policy[w].affinity_type = "ISOLATED" THEN allocated_cores[w] ELSE <<>>)
    /\ allocated_cores' = [allocated_cores EXCEPT ![w] = <<>>]

\* (mutated) The cores go back, and the flag stays down.
StopWithoutFlag(w) ==
    /\ pinned_core_pool' = pinned_core_pool \o
         (IF policy[w].affinity_type = "PINNED" THEN allocated_cores[w] ELSE <<>>)
    /\ isol_core_pool' = isol_core_pool \o
         (IF policy[w].affinity_type = "ISOLATED" THEN allocated_cores[w] ELSE <<>>)
    /\ allocated_cores' = [allocated_cores EXCEPT ![w] = <<>>]
    /\ UNCHANGED stop_flag

\* The flag goes up and the cores go back to CPUManager; nobody is joined.
StopEffects(w) ==
    /\ stop_flag' = [stop_flag EXCEPT ![w] = TRUE]
    /\ pinned_core_pool' = pinned_core_pool \o
         (IF policy[w].affinity_type = "PINNED" THEN allocated_cores[w] ELSE <<>>)
    /\ isol_core_pool' = isol_core_pool \o
         (IF policy[w].affinity_type = "ISOLATED" THEN allocated_cores[w] ELSE <<>>)
    /\ allocated_cores' = [allocated_cores EXCEPT ![w] = <<>>]

Stop(w) ==
    /\ Running
    /\ control = Idle
    /\ object[w] = "alive"
    /\ StopEffects(w)
    /\ UNCHANGED <<policy, object, starts, history, thread, control, process>>

\* ~Worker() stops; then the logger and the flag are destroyed ...
Destroy(w) ==
    /\ Running
    /\ control = Idle
    /\ object[w] = "alive"
    /\ StopEffects(w)
    /\ object' = [object EXCEPT ![w] = "destroying"]
    /\ control' = [pc |-> "destroy", w |-> w]
    /\ UNCHANGED <<policy, starts, history, thread, process>>

\* (mutated) ~thread() of a detached thread.
DestroyReturnsDetached ==
    /\ Running
    /\ control.pc = "destroy"
    /\ object' = [object EXCEPT ![control.w] = "dead"]
    /\ control' = Idle
    /\ UNCHANGED <<pools, policy, allocated_cores, stop_flag, starts, history, thread, process>>

\* ... and ~jthread() joins the thread before the other members go.
DestroyReturns ==
    /\ Running
    /\ control.pc = "destroy"
    /\ LET w == control.w IN
         /\ starts[w] > 0 => thread[w][starts[w]].pc = "done"
         /\ object' = [object EXCEPT ![w] = "dead"]
    /\ control' = Idle
    /\ UNCHANGED <<pools, policy, allocated_cores, stop_flag, starts, history, thread, process>>

-----------------------------------------------------------------------------
(* worker_target(), by the thread of the g-th start() of w *)

Goes(w, g, from, to) ==
    /\ Running
    /\ thread[w][g].pc = from
    /\ thread' = [thread EXCEPT ![w][g].pc = to]

\* The references to strict and mask are good while their start() is running.
FrameAlive(w, g) == control = [pc |-> "start", w |-> w] /\ g = starts[w]

ThreadOnly ==
    UNCHANGED <<pools, policy, allocated_cores, stop_flag, object, starts, history, control>>

\* The lambda copies strict: the caller's, or whatever its place now holds.
ReadStrict(w, g) ==
    /\ Running
    /\ thread[w][g].pc = "fresh"
    /\ \E strict \in (IF FrameAlive(w, g) THEN {thread[w][g].strict} ELSE BOOLEAN) :
         thread' = [thread EXCEPT ![w][g].pc = "priority", ![w][g].strict = strict]
    /\ UNCHANGED process
    /\ ThreadOnly

\* A failing system call is logged, and ends the process when strict: the
\* exception leaves the thread's function.  The logger may be destroyed by now.
Fails(w, g, from, to) ==
    /\ IF object[w] # "alive" \/ thread[w][g].strict
       THEN /\ Running
            /\ thread[w][g].pc = from
            /\ process' = IF object[w] # "alive" THEN "undefined" ELSE "terminated"
            /\ UNCHANGED thread
       ELSE Goes(w, g, from, to) /\ UNCHANGED process
    /\ ThreadOnly

SetPriority(w, g) == Goes(w, g, "priority", "affinity") /\ UNCHANGED process /\ ThreadOnly

PriorityFails(w, g) == Fails(w, g, "priority", "affinity")

\* The mask is read through the reference: anything, unless start() wrote the
\* mask and is still running.
MasksRead(w, g) ==
    IF FrameAlive(w, g) /\ thread[w][g].mask # {}
    THEN {thread[w][g].mask}
    ELSE SUBSET Cpus \ {{}}

SetAffinity(w, g) ==
    /\ Running
    /\ thread[w][g].pc = "affinity"
    /\ \E mask \in MasksRead(w, g) :
         thread' = [thread EXCEPT ![w][g].pc = "loop", ![w][g].strict = FALSE,
                                ![w][g].affinity = mask]
    /\ UNCHANGED process
    /\ ThreadOnly

\* (mutated) The thread sets itself up again until the affinity is accepted.
AffinityRetries(w, g) == Fails(w, g, "affinity", "priority")

AffinityFails(w, g) == Fails(w, g, "affinity", "loop")

FuncReturns(w, g) ==
    /\ Running
    /\ thread[w][g].pc = "loop"
    /\ thread' = [thread EXCEPT ![w][g] = [NoThread EXCEPT !.pc = "done"]]
    /\ UNCHANGED process
    /\ ThreadOnly

\* The user's function returns once it has seen the flag ...
SeeStop(w, g) == stop_flag[w] /\ FuncReturns(w, g)

\* ... or by itself, before anyone asked for it.
ReturnUnasked(w, g) == ~stop_flag[w] /\ FuncReturns(w, g)

-----------------------------------------------------------------------------

ThreadNext(w, g) ==
    \/ ReadStrict(w, g) \/ SetPriority(w, g) \/ PriorityFails(w, g)
    \/ SetAffinity(w, g) \/ AffinityFails(w, g) \/ SeeStop(w, g)

ControlNext(w) ==
    \/ StartAllocated(w) \/ StartUnallocated(w) \/ StartThrows(w) \/ StartHangs(w)
    \/ Stop(w) \/ Destroy(w)

Next ==
    \/ \E w \in Workers :
         \/ ControlNext(w)
         \/ \E g \in Starts : ThreadNext(w, g) \/ ReturnUnasked(w, g)
    \/ StartReturns
    \/ DestroyReturns

\* The kernel schedules every thread, and a join returns when its thread ended.
\* Nothing obliges the control thread to make any call, nor the user's function
\* to return before it is asked.
Fairness ==
    /\ \A w \in Workers : \A g \in Starts : WF_vars(ThreadNext(w, g))
    /\ WF_vars(StartReturns)
    /\ WF_vars(DestroyReturns)

Spec == Init /\ [][Next]_vars

FairSpec == Spec /\ Fairness

-----------------------------------------------------------------------------
(* Properties *)

Live(w, g) == thread[w][g].pc \notin {"none", "done"}

\* The cores that w took and did not give back: those it can give back, and
\* those of which it has lost the ids.
Taken(w) == Members(allocated_cores[w]) \union lost[w]

TakenOf(type) == UNION {Taken(w) : w \in {v \in Workers : policy[v].affinity_type = type}}

\* In whatever order workers are started and stopped, every core is in its pool
\* or with the one worker that took it, and a worker loses cores only when it
\* is started again without a stop() (Worker.cpp:26, 94-95).
CoresConserved ==
    /\ Partition(pinned_core_pool, TakenOf("PINNED"), Members(PinnedCores))
    /\ Partition(isol_core_pool, TakenOf("ISOLATED"), Members(IsolatedCores))
    /\ \A v, w \in Workers :
         /\ v # w
         /\ policy[v].affinity_type = policy[w].affinity_type
         /\ policy[v].affinity_type # "NORMAL"
         => Taken(v) \intersect Taken(w) = {}
    /\ \A w \in Workers :
         policy[w].affinity_type # "NORMAL" => Members(allocated_cores[w]) \intersect lost[w] = {}
    /\ \A w \in Workers : lost[w] # {} => w \in restarted

\* The join in the move assignment of work_thread (Worker.cpp:85): outside of
\* start(), only the last thread of a worker can be alive.
OneThreadPerWorker ==
    \A w \in Workers, g \in Starts :
        Live(w, g) => \/ g = starts[w]
                      \/ g = starts[w] - 1 /\ control = [pc |-> "start", w |-> w]

\* No thread uses a Worker that is gone: ~jthread() waits for it.
NoThreadOutlivesWorker ==
    \A w \in Workers, g \in Starts : object[w] = "dead" => ~Live(w, g)

\* A worker holds cores from a start() to the next stop() only, so that a
\* start() that follows a stop() overwrites nothing (Worker.cpp:26, 95).
HeldUntilStop ==
    \A w \in Workers : allocated_cores[w] # <<>> => starts[w] > 0 /\ ~stop_flag[w]

\* What is given back was taken once.
DistinctHeld ==
    \A w \in Workers : policy[w].affinity_type # "NORMAL" => Distinct(allocated_cores[w])

\* The inductive invariant.
IInv ==
    /\ TypeOK
    /\ CoresConserved /\ HeldUntilStop /\ DistinctHeld
    /\ OneThreadPerWorker /\ NoThreadOutlivesWorker

\* A worker that is stopped and not started again ends its threads, unless the
\* process ends first.
StoppedThreadsEnd ==
    \A w \in Workers :
        <>[]stop_flag[w] => <>[](~Running \/ \A g \in Starts : ~Live(w, g))

\* ~Worker() returns.
DestructionEnds ==
    \A w \in Workers : object[w] = "destroying" ~> (object[w] = "dead" \/ ~Running)

\* start() "Starts the thread and sets the priority, affinity and name"
\* (Worker.h:30): a thread whose worker got cores runs on these, or, if the
\* system call failed, wherever the system puts it.
RunsOnItsCores ==
    \A w \in Workers, g \in Starts :
        /\ thread[w][g].pc = "loop"
        /\ thread[w][g].mask # {}
        => thread[w][g].affinity \in {thread[w][g].mask, Cpus}
=============================================================================
