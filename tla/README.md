# Verification of pipeline-tools

TLA+ models of the core of this repository, the TLC runs that check them and
the theorems about them that TLAPS proves. All paths below are relative to
`core/src/` unless they name another directory.

## 1. The system

pipeline-tools lets a user write *blocks* (Sources, Modules, Aggregators,
Sinks), wires them into *pipelines*, and lets a *mission* run each pipeline on
a thread of its own, a *worker*, pinned to cpus that a process-wide
*CPUManager* hands out. Queues carry values from one pipeline to the next.

    Mission --build()--> Pipeline --add()/connect()--> Flow graph of blocks
       |                    |  execute(), depth first, in one thread
       |                    v
       |                 QueueSink --push--> queue --pop--> QueueSource (next pipeline)
       v
    Worker --start()/stop()--> thread --pthread_set...--> kernel
       |
       v
    CPUManager::allocate / deallocate  (one instance, called by any thread)

| Component | State | Operations | Interacts with | What is hard | What makes it correct |
|---|---|---|---|---|---|
| `utils/threads/CPUManager` | pools of free pinned and isolated cpus, a mutex | `allocate`, `deallocate` | called by Workers, from any thread | `deallocate` takes no lock; `allocate` works on copies and calls itself; throws in mid-call | every cpu is free once or reserved by one caller; requests are served or refused as the free cpus justify |
| `utils/threads/Worker` | policy, allocated cores, stop flag, `jthread` | constructor, `start`, `stop`, destructor; the thread's own set-up | CPUManager, the kernel, the user's function | frame of `start()` captured by reference; restart before the old thread has ended; order of destruction | cores go back exactly once; one thread per worker; threads end after `stop()`; the thread runs on its cores |
| `flow/blocks/Aggregator` | bitmask, producer count, map of inputs | `register_producer`, `process_any` | its producers, `process()` | widths of int and size_t; second inputs; throws in mid-round | `process()` gets one input of each producer |
| `flow/Flow`, `Producer`, blocks | consumers with producer ids, policy | `add_consumer`, `connect`, `execute`, `produce` | call each other recursively | depth-first order, empty results, exceptions, blocks without consumers | every output reaches every consumer, in order, in its round |
| `flow/Pipeline` | Sources, Nodes | `add`, `execute` | Flow | order of additions | the documented wiring |
| `flow/Mission` | pipelines, queues with a used mark, workers | `build`, `add`, `start`, `stop` | all of the above | `stop()` does not join; restart; references into a growing vector | one thread per pipeline; each queue has two ends |
| `utils/queues` | a queue, a mutex or none | `push`, `pop`, `peek`, `make_queue` | two pipelines | full and empty queues, two threads | values arrive once and in order |
| `utils/queues/moodycamel/readerwriterqueue.h` (vendored) | a ring of blocks, each with two indices and two private copies of them; a semaphore | `try_enqueue`, `enqueue`, `try_dequeue`, `pop`, `peek`, `wait_dequeue`, `wait_dequeue_timed` | `LockFreeQueue`, `BlockingQueue` | no lock at all; blocks that are used again and added while both sides work | first in, first out, each element once, the capacity asked for |
| `utils/queues/moodycamel/atomicops.h` (vendored) | a count, a kernel semaphore | `signal`, `tryWait`, `wait` | the queue above | a timeout that races with a signal; sleep and wakeup | no permit lost or invented, no wakeup lost |
| `utils/memory/smart_buffers` | pointer, count, deleter; control block with a count | copy, move, `release`, `reset`, `swap` | MemPool's deleter | threads that drop and release handles at once | a block is deleted exactly once, by its last owner |
| `utils/memory/mempool` | free blocks, mutex | `allocate`, `release_block` | unique_buffer | exhaustion, lifetime of the pool | a block is free or held by one buffer |
| `utils/ipc/rmq`, `modules/io/ipc/rmq` | channel, routing key, consumer tag | constructors, `publish`, `consume`, `stop` | RabbitMQ | connections that fail, several processes that declare one queue | what is accepted is kept; nothing comes twice or out of order |
| `utils/singleton` | instance, a `shared_ptr` | `getInstance` | CPUManager, EndpointRegistry | lazy initialisation without a lock | one instance |
| `utils/misc_utils`, `utils/config`, `utils/logging` | none | parsing, conversion | the environment, `/sys` | files that are missing | the pools are the kernel's cpus |
| `server/` (repository root) | list of handlers | `register_endpoint`, `start` | HTTP library | none (filled before the server listens) | every endpoint is registered |
| `modules/io`, `modules/math`, `main.cpp`, `missions/` | none | `process()` bodies | Flow | none | |

`PROJECT.json` lists the hazards of this code at their lines, and with each the
properties that would show it going wrong.

## 2. The modules

### CorePools, CPUManager, CoreAllocator

`CorePools` holds the arithmetic of `allocate()` on the two vectors: what is
enough, what is granted, what is left. `CPUManager` is the concurrent machine.
A step is what another thread can observe at once:

| Action | Code (`CPUManager.cpp`) |
|---|---|
| `CallAllocate` | entering `allocate()`, before the lock (37-40) |
| `AllocateThrows` | lock, not enough cpus, throw (40-51) |
| `LockAndCopy` | lock, enough, copy the pools (40-57) |
| `AllocateIsolatedThrows` | a strict ISOLATED policy that lacks isolated cpus (71-78) |
| `FallBackToPinned` | the same, not strict: the recursive call (80-84), which blocks on the mutex for ever |
| `Commit` | take the cpus, write the copies back, unlock, return (59-110) |
| `CallDeallocate`, `SkipNormal` | `deallocate(vector)` and its loop (145-149), NORMAL cores (123-125) |
| `ReadPool`, `Push` | the two halves of an `emplace_back()` without the mutex (126-142) |

The flag `Serialised` says whether the callers keep `deallocate()` apart from
all other calls. They do when one thread starts and stops all workers, as
`Mission` does. With `Serialised = FALSE` any two calls overlap.

`CoreAllocator` is what the manager promises: an owner for each cpu, requests
answered in one instant by a grant or by a refusal that the free cpus justify.
`CPUManager!ImplementsCoreAllocator` is the refinement; it maps a cpu to the
caller that reserves it, and a request to the time between entry and return.

### Worker

One control thread calls `start()`, `stop()` and `~Worker()`, in any order that
the life of the object allows; each `start()` makes a thread. `start()` checks
nothing: on a worker that has not been stopped it overwrites `allocated_cores`
(`Overwrite`), and the history variables `lost` and `restarted` say which cores,
and which workers. The user's function returns when it sees the flag (`SeeStop`), or
by itself (`ReturnUnasked`). `allocate()` and `deallocate()` are atomic here, as the control
thread is their only caller. `start()` has two steps, the creation of the
thread and the return from the move assignment of `work_thread`, which joins
the previous thread; in between the new thread runs while the frame of
`start()` is alive. `~Worker()` has two steps as well: `stop()` with the
destruction of the logger and the flag, and the join. Reading a dead frame
yields any value; using a destroyed logger leaves the process "undefined"; an
exception out of a thread "terminated".

### Aggregator, Rendezvous

`Aggregator` models the bitmask: `1 << producer_id` as an int shift, extended
to size_t, and `static_cast<int>(pow(2, n)) - 1`, both with the width as a
parameter, as sets of bit positions. Inputs pass through `ThroughOut`, since
`latest` is a map to `Out`. `Rendezvous` is the promise of
`flow/README.md:52`, and `ImplementsRendezvous` the refinement.

### Flow, Pipeline

`Flow` is the graph of blocks and its execution. A block does nothing after it
has produced, so the C++ call stack is a sequence of calls still to be made,
and a step replaces its head by the calls of that block's consumers. An
exception empties the sequence. A value is the set of the `process()` results
of Sources it comes from, each with its round. `process()` is the user's: it may
return a value, return nothing, or throw, at each call. `Pipeline` adds
`add()` and `execute()` on top. Blocks may be added, in any order, before,
between and after executions; no block is added twice.

### Mission

`Mission` puts pipelines, queues and workers together. A pipeline is reduced to
its ends and to whether it has a Module; what happens inside is in `Flow`. `Start`
begins a `start()`, which checks nothing, so that a mission may be started again with
or without a `stop()`. The user's `build()` is a sequence of `add()`, one `AddPipeline`
each, in which `Add` hands queues out for the ends the pipeline does not have; then
come one `StartWorker` for each pipeline, from the last to the first, and one
`StopWorker` for each worker, also from the last. `~Mission()` destroys the workers
from the first on, with a join each.

A worker's thread tests its flag (`SeeStop`, `SeeNoStop`), follows its
reference to the pipeline (`Execute`), and lets a value pass from the source
(`OwnSource`, `Pop`) through the Module to the sink (`OwnSink`, `Push`). An
operation of a queue is one step: `StdQueue` has a mutex, and the vendored queue
promises it for one producer and one consumer, which `ImplementsBoundedFifo` shows it
to keep. Where the open ends of what `build()` adds alternate (`Alternates`),
`QueuesJoinPipelines` shows that each queue has one of each; where they do not, a queue
gets two pipelines at one end, and their threads leave the process "undefined" when they
meet there (`Contend`), unless the queue is a `STD_QUEUE`; a thread that executes a
pipeline which a `build()` moves leaves it so as well. A queue of another type is
bounded, since `try_enqueue()` does not allocate. An exception, thrown by a Module that
is handed nothing or by `worker_target()`, ends the process.

When a mission is started again, `build()` adds all
pipelines once more, the vector moves the old ones, and every pipeline, the old
ones too, gets a new worker, while threads of the first start may still run. A
thread that follows its old reference, or enters a pipeline another one is in,
leaves the process "undefined". A vector moves what it has when it is full, at 1, 2,
4... pipelines; `Moved` says from the worker's start and the number of pipelines
whether that has happened since.

### SmartBuffers, BlockOwnership

The blocks of a `MemPool`, and the `unique_buffer`, `released_buffer` and
`shared_buffer` objects they pass through. A step makes one access to what
threads share, the pool or the count of a control block. `release_ctrl()` is
three steps: `FetchSub`, `CallDeleter` and `DeleteBlock`; the last step of an
assignment, `Finish`, is part of whichever of them ends it. `release()` is two:
`Release`, the exchange of the count, and `MoveOut`. What needs no count or
touches it last (`Copy`, `Move`, `MakeShared`, `Reset`) is one. No object is
used by two threads at once (`Idle`), which the users see to; a `Unique` or
`Released` object needs no thread of its own, since it makes one access only.
An address of a control block can be allocated again once it is deleted, and a
block of the pool as soon as its deleter has run.

`BlockOwnership` is the promise: a block is free, or has one exclusive owner, or
several that share it, and goes back after the last. `ImplementsBlockOwnership`
maps a block to the buffers whose share is counted; a buffer that is being
assigned a new share holds the old one and the new one for a while.

### ReaderWriterQueue, LightweightSemaphore, BlockingReaderWriterQueue; BoundedFifo, Semaphore

`ReaderWriterQueue` is the ring of blocks behind `LockFreeQueue`. The producer
and the consumer each have a program counter; a step makes one access to what
the other side writes, and reads along what only its own side writes. The fences
make the accesses take effect in program order; weaker orders are not modelled.

| Action | Code (`readerwriterqueue.h`) |
|---|---|
| `CallPush`, `ReloadFront` | room by the private copy of `front`, else by `front` itself (545-551) |
| `Construct`, `Publish` | the element, then the tail (552-562) |
| `FindFreeBlock`, `UseNext`, `ConstructNext`, `PublishNext`, `AdvanceTail` | the next block is free: fill it, then move on to it (565-595) |
| `FindNoBlock`, `Allocate`, `Link`, `AdvanceTail` | `enqueue()` adds a block with the element in it (596-625) |
| `Refuse` | `try_enqueue()` may not, or there is no memory (601-604, 626-628) |
| `CallPop`, `ReloadTail` | an element by the private copy of `tail`, else by `tail` itself (305-310) |
| `SeeNothing`, `SeeTailElsewhere`, `Recheck` | the tail block; if it is another one, the tail once more (323-334) |
| `ReadNext`, `EnterNext`, `AdvanceFront` | on to the next block (336-356); `peek()` only looks (407-413) |
| `Take`, `Release`, `Peek` | move out and destroy, then the front (313-322); `peek()` (395) |
| `Destroy` | the destructor's walk around the ring (209-232) |

`LightweightSemaphore` has one step for each atomic access of `signal()` and the
waits (`atomicops.h:703-769`): the count may fall below zero for a waiter that is
about to sleep (`Claim`), the signal that meets it posts the kernel's semaphore
(`AddPermit`, `Post`), and a wait that times out takes its claim back or finds
that a signal has met it (`Restore`, `Reclaim`, `TryToken`).
`BlockingReaderWriterQueue` composes the two: an element is in the ring before
its permit is signalled, and its permit is taken before it is. With `blocking`
false it is the ring alone.

`BoundedFifo` is the promise of a queue with calls that take time: an operation
takes effect in one instant of its call, a push is refused only if the queue was
full, and a pop comes back empty-handed only if it was empty, when it was called.
`Semaphore` is the promise of a semaphore. `ImplementsBoundedFifo` maps the
ring to the elements from the front of its front block to the tail of its tail
block, and `ImplementsSemaphore` a claim to a permit that is not taken yet.

### Startup

`getInstance()` by several threads: the look at `instance`, the construction,
and the two words of the `shared_ptr`, written and copied one after the other. The
constructor is one step, with `parse_cpus()` and `parse_numeric_ranges()` as
operators; `Machines` says what the kernel's two files hold, whether they can be
opened, and whether the logger finds its configuration (else the constructor
throws and the next call tries again). `PoolsFollowKernel` is what the models of
the CPUManager assume as `PoolsAssumption`. It leaves out the two kinds of machine
on which the code does something else (section 5): where the list of isolated cpus
cannot be read, the pinned pool stays empty, and where an isolated cpu is offline,
`erase(end())` is undefined, and modelled as a crash or as the loss of one cpu.

### RabbitMQ

Publishers and Consumers that share their options, on connections of their own
which may fail at any moment. A check and a declaration are two steps, with
those of others in between. The broker and SimpleAmqpClient are external, and as
the client uses them: `BasicConsume()` with its default arguments is exclusive
and acknowledges a message when it is delivered. What was delivered can be lost in
four ways, which `lost` records: `consume()` throws after it has taken it
(`ConsumeThrows`), the connection fails while it is under way
(`ConsumerDisconnects`, which keeps any part of what the channel was sent), `stop()`
closes the channel, or the program ends. `publish()` may throw after the broker has
the message.

## 3. The runs

| Run | Instance | Shows |
|---|---|---|
| `CPUManager_serialised` | 2 callers, cpus 1, 2 pinned and 3 isolated, requests of up to 2 cores of each type, strict or not | conservation, the inductive invariant (with type correctness and the freshness of the copies) and the refinement of `CoreAllocator` |
| `CPUManager_race` | the same, not serialised | `CoresConserved` fails: a push without the lock is lost |
| `CPUManager_fallback` | the first again | `NoSelfDeadlock` fails: the fallback locks the mutex twice |
| `Worker_lifecycle` | 2 workers, one pinned and one isolated cpu, each pair of 5 policies, 2 starts each | conservation over restarts and destruction, one thread per worker, no thread after its worker, and two liveness properties |
| `Worker_affinity` | 1 worker | `RunsOnItsCores` fails: the mask is read from a dead frame |
| `Aggregator_rounds` | up to 3 producers, ints of 5 bits, size_t of 8, 2 values | the mask and the map agree, nobody is waited for in vain, and the refinement of `Rendezvous` |
| `Pipeline_build` | 2 Sources (one RoundRobin of vectors), 2 Modules, 1 Aggregator, 2 Sinks, one edge that may be connected by hand, 2 rounds | wiring, numbering of producers, no read past the consumers, agreement of the Sinks, no mixing of rounds |
| `Mission_chain` | one pipeline, chains of two (with a Module or not) and of three, and four builds whose ends do not alternate: two producers, two consumers, a consumer before the producer, a queue of one pipeline; 2 values of each source, queues without bound or with 1 place, 2 starts | the wiring of the queues, one place for each value, order of arrival, no thread after the pipelines, and two liveness properties |
| `SmartBuffers_owners` | 2 blocks, 2 unique, 1 released and 3 shared buffers, 2 threads | conservation of blocks, counts, no use of a deleted control block, the refinement of `BlockOwnership` and the return of abandoned blocks |
| `BlockingReaderWriterQueue` | blocks of at most two slots: rings of one block of two, one of four, five of two, up to three blocks or those the constructor makes; the blocking queue on one block; 4 to 6 pushes, with or without allocation, every kind of pop | elements are constructed and destroyed once, the assertions of the code, permits match elements, the invariant of the semaphore, the refinements of `BoundedFifo` and `Semaphore`, no lost wakeup, every call returns |
| `Startup` | 2 threads, 2 managers, any 3 cpus online or isolated, either file unreadable, with or without a configuration | one manager, owned by those who use it, unless first calls overlap; its pools are the kernel's cpus |
| `RabbitMQ` | 1 publisher of 3 messages, 2 consumers, either routing key, auto-deleted or not, any number of failures | accepted messages are in the queue or were delivered, received once and in order |

The type invariants of `CPUManager` and of the semaphore are conjuncts of `IInv`
and `SemInv`; the others (`TypeOK`) document the variables, and those of
`Aggregator`, `RabbitMQ`, `Worker`, `SmartBuffers`, `Pipeline` and `Mission` are proved.

### Bounds

- Two callers or workers suffice for every overlap of two calls, and a third
  adds none: calls interact through the pools and the mutex only. Three cpus
  let a request take none, some or all of a pool, and make an ISOLATED request
  that the isolated pool alone cannot serve possible. The proofs hold for any
  number of each.
- A ring of five blocks and six pushes goes once around: a block is used a
  second time. Blocks of two slots hold one element each, so that every second
  step crosses a border; the block of four has a middle. `MaxBlocks = 3` lets the
  ring of one block grow twice, and then memory run out.
- Three cpus give every shape of list the kernel prints: none, a number, a range,
  two entries. Two threads suffice for a race of two first calls.
- Three messages and two consumers let one consumer take over from another in
  the middle of the queue, with a message in the inbox. Two publishers with two
  messages each have been checked as well, against one consumer.
- `MaxStarts = 2` has a thread replaced by another; a third start meets a state
  like the second's. The two workers of `Worker_lifecycle` are interchangeable, so
  `MCInit` tries each pair of policies in one order; a symmetry set would do the
  same, but not for liveness.
- `IntBits = 5` leaves three producers one bit short of the sign bit, the
  largest number for which nothing overflows; the theorems cover every width.
  With `IntBits = 3` the third producer has the sign bit, as the 32nd has in the code,
  and TLC refutes `NeverWaitsForNobody`.
- Two rounds let what one leaves behind meet the next. Two Sources, two Modules
  and an Aggregator give every rule of the wiring an edge, with the Aggregator
  first, in the middle or last.
- `MaxBatch = 2` gives a vector shorter than, equal to and longer than the
  consumers of its block.
- Three workers make a chain with a middle, or a mission of one pipeline that is
  started twice, which has three workers on two pipelines. One place for two
  values lets a queue be full (the real one has 15 places; `LOCK_FREE` and
  `BLOCKING` differ in nothing the code uses).
- Three shared buffers are two owners and one more to assign to or release
  from; two threads overlap any two of their calls. Two blocks let one be
  assigned over another, let the pool run out, and let a block come back to a
  thread while another still deletes the control block it had.

Deadlock is not checked where the system may stop: the manager blocks for good
after `FallBackToPinned`, the control thread need not call anything, and a
pipeline stops after its last round, a mission when it is gone, a queue when it
is destroyed, the start-up when it crashes, a client when the program has ended.

### Fairness

In `BlockingReaderWriterQueue` a thread that is inside of a call is scheduled
(`WF` of `ProducerStep` and of `ConsumerStep`): no step of either waits for the
other side, but the sleep on the kernel's semaphore, which the timeout ends in
the calls that have one. No one need call anything. A timed wait that
finds its claim met goes around its loop until the signaller has posted
(`atomicops.h:730-738`), which is what it needs the other side's fairness for.

In `SmartBuffers_owners` a thread goes on with a call it has begun, which never
waits for another; it need not begin one. In `Mission_chain` the threads are
scheduled, and a `start()`, `stop()` or `~Mission()` that has begun goes on. In
`Worker_lifecycle` each thread of a worker is weakly fair, since the
kernel schedules it and the user's function returns once it sees the flag
(`Worker.h:73`, `flow/Mission.cpp:14`), and so are the two joins, which return when
their thread has ended. Nothing obliges the control thread to call `stop()` or anything
else, nor a function to return before it is asked to.

## 4. What is proved

`CPUManager_proofs`, for every machine, every set of callers and every size of
requests, under `PoolsAssumption` (the pools are sequences of distinct cpus,
without a common one, as `parse_cpus()` leaves them), `CallersAssumption` and
`Serialised`:

- `InvariantIInv`: `Spec => []IInv`, and from it `TypeCorrect`,
  `CoresAreConserved` and `ViewsAreFresh`.

`CoresConserved` is not inductive. `Commit` replaces the pools by what it has
copied before, so conservation needs `FreshViews`; that needs the mutex
(`LockOwner`: no one else is between copy and commit) and the discipline of the
callers (`DeallocatesAlone`: no push is). `SufficesWhenTaken` says that `back()`
and `pop_back()` find a cpu, and `ReturnsWhatItHeld` that a core is not given
back twice. `IInv` is their conjunction, checked by TLC first. The lemmas
`WithoutLastSplits`, `PartitionGrant` and `PartitionReturn` say that taking
from the back of a pool, and appending to it, keep the partition of the cpus
into free and reserved ones; each action then has its own step.

The second part of `CPUManager_proofs`, under the same assumptions and
`NoOneAssumption` (`NoOne`
is not a policy, so that the refinement mapping tells a caller without a request):

- `CPUManagerIsAllocator`: `Spec => ImplementsCoreAllocator`.

The mapping names who has reserved a cpu by a CHOOSE; `Owners` says that this is
the one holder there is, which follows from `CoresConserved` because no cpu is in
both pools. So the cpus without an owner are those in the pools (`FreeCpus`), and
the vectors' sizes, which `allocate()` compares, are their numbers
(`PoolSizes`): an exception is a `Refuse` and `Commit` a `Grant`. The entry of
`allocate()` is a `Request`, `Push` a `Return`, and every other step changes
neither owners nor requests.

The third part is about `Startup`, without any assumption, for any number of threads
and managers and any machine:

- `OneManager`: `StartSpec => []OneManagerForAll`.

A start whose first calls do not overlap goes through `Phases`: nothing is made
yet and at most one thread is about to (`NotMade`), one thread stores the two
words of the pointer while all others are idle (`Storing`), the pointer is whole
(`Settled`), or the program has crashed. When it is, the manager
has as many owners as threads that use it and one more, the instance, so none of
them deletes it.

`Aggregator_proofs`, for every set of values and every width, under
`WidthsAssumption` and `FewProducers` (there are at most `IntBits - 2`
producers):

- `InvariantAInv`, `TypeCorrect`, `MaskIsFaithful`, `NobodyIsWaitedFor`, and
- `AggregatorIsRendezvous`: `Spec => ImplementsRendezvous`, if also `In` and
  `Out` keep each other's values (`SameType`).

The invariant says that the mask is exactly the set of the ids that have an
input; the lemmas `BitOfFew` and `FullMaskOfFew` say that below the width the
shift and the power are what they are meant to be. Both assumptions are needed: with more producers, or
with a `ThroughOut` that does not keep every value, TLC refutes the theorems.

The first part of `BlockingReaderWriterQueue_proofs` is about the ring of blocks,
with or without the semaphore, for any sizes, any number of pushes and any memory
for blocks, under `SizesAssumption` (a queue is asked for one place at least),
`MaxPushesAssumption`, `RawAssumption` (`Raw` is no element) and
`MaxBlockSizeAssumption` (`MAX_BLOCK_SIZE` is a power of two from 2 to 512):

- `RingInvariant`: `Spec => []RingInv`,
- `AssertionsAlwaysHold`: `Spec => []AssertionsHold`, and
- `ElementsOnce`: `Spec => []ElementsLiveOnce`.

Neither property is inductive: what a thread does to a block is right because of
what it read some steps ago, and the other thread has gone on since. `RingInv` says
what stays true meanwhile. In a block, a thread's own copy of the other's index is
behind that index (`CopiesAreBehind`), so that a slot which looks free, or filled, is;
`Holds` says which slots have elements, with the one being moved out or filled in.
Around the ring, `RingOrder` gives each linked block its position, counted from the
front block along `next`: no two share one, the blocks up to that of the tail block
have elements and those beyond have none, save for the one the producer is about to
enter. `ProducerKnows` and `ConsumerKnows` are what each side has found out and relies
on: that the next block is not the front block stays true because the front never
passes the tail, and that an empty front block which is not the tail block stays empty
is why the second look at its tail (`Recheck`) settles it. A new block is outside of
the ring until it is linked; linking moves the positions beyond it by one, and moving
the front on turns them all. The destructor's walk is a recursive function of the
number of steps; that it meets every block (`RingIsWhole`) is an induction over the
naturals, which `Induction` and `Recursion` provide for sets and functions (the
library's theorems take operators). TLC has checked `RingInv`, but for its types, on the
instance of the run; it is not part of the run, since it looks for the positions by
trying all of them.

The second part, without any assumption, is for any number of signals and waits of
the semaphore by itself:

- `SemaphoreInvariant`: `SemSpec => []SemInv`, and
- `SemaphoreRefinement`: `SemSpec => ImplementsSemaphore`.

That the kernel's semaphore holds no stray post (`OneTokenPerClaim`) is not
inductive by itself: that `Reclaim` finds a permit needs `SeenPermitsStay` (only
the waiter takes permits, so what it has seen is there when it takes it), and
that a refused wait was one that may be refused needs `OnlyTimedWaitsRestore`.
With them each action preserves its own part, and maps to one step of
`Semaphore`, or none: `AddPermit` to `Signal`; `TakePermit`, a `Claim` of a
positive count, `Wake` and a successful `TryToken` to `Grant`; a successful
`Restore` to `GiveUp`.

The third part lifts both into the queue: `QueueUsesSemaphore`
(`Spec => SemSpec`) says that every step of the queue is a step of the semaphore
or leaves it alone, from which `QueueSemaphoreInvariant` and
`QueueSemaphoreRefinement` follow for every size of the queue.

The fourth part is about what the queue holds, under the assumptions of the first:

- `FifoInvariant`: `Spec => []FifoInv`,
- `PermitsMatch`: `Spec => []PermitsMatchElements`, and
- `QueueImplementsBoundedFifo`: `Spec => ImplementsBoundedFifo`.

`Contents` walks from the front block to the tail block and puts the elements of each
behind those of the one before. The proof speaks of the same thing as a function of the
number of blocks (`Held`) that gathers the rows of the blocks (`Row`), of which `RingInv`
says that they are rows, and that the walk meets each block in use once (`TailIsAhead`).
Lemmas on gathered sequences (`GatherSame`, `GatherAppend`, `GatherTail`, `GatherShift`)
then give the effect of each step from what it does to one block: `Publish` and
`AdvanceTail` append one element, `Release` removes the first, leaving an empty front
block (`AdvanceFront`) and all other steps change nothing.

`FifoInv` holds what the two properties need besides. `ElementUnderWay`: an accepted
push adds the element it was called with, though it was constructed some steps ago.
`BlocksLeftFull`, `Capacity`, `RoomIsKept`: a push is refused, or allocates, when the
tail block is full and the block behind it is the front block; each block in between
was left full, no block is smaller than those of the constructor and there are no fewer,
so there are as many elements as were asked for (`FullRing`, with the constructor's
arithmetic in `BlocksHaveRoom`), and a push that found room when it was called still has
it. `CallsMatch` and `SomeIsFound`: a call of the consumer that must not come back empty
has an element, or a permit for one, at each step of its way. `PermitsCount`: permits,
the one that is granted and the one not signalled yet are as many as the elements.
The refinement maps an accepted push to `Accept`, its signal to `Settle`, the
consumer's answer to `Take` or `ComeBackEmpty`, and the rest to stuttering. TLC has
checked `FifoInv` on the instance of the run; it is not part of the run, where it
would say the same as these two properties.

`RabbitMQ_proofs`, under `ClientsAssumption` (no object is both a Publisher and a
Consumer, and `Nobody` is no Consumer), for any number of publishers, consumers
and messages:

- `TypeCorrect`,
- `MessagesAreKept`: `Spec => []AcceptedIsKept`, and
- `MessagesInOrder`: `Spec => []ReceivedOnceInOrder`.

`AcceptedIsKept` needs `QueueForPublishers`: a Publisher is ready only when its
queue has been found or declared, so the default exchange has where to put the
message. `KeptStep` then says that a message that leaves the queue goes to a
channel, and one that leaves a channel is given out or recorded as lost, by the
exception, the failure or the end that took it. So an accepted message is never lost
before it is delivered. `ReceivedOnceInOrder` speaks of what consumers
have given out, which says nothing of the next message; `OrderInv` follows a
message all the way: what a consumer gave out, what its channel holds and the
queue ascend, each before the next, no number exceeds what its publisher has
tried to send, and no two consumers have a message in common. The broker's
part of the argument (a message goes to one consumer, in order) is an assumption
about the external code.

`Worker_proofs`, for any number of workers, starts and cpus and every policy, under
`PoolsAssumption` (the pools are sequences of distinct cpus, as above),
`PoliciesAssumption` and `MaxStartsAssumption` (`MaxStarts` is a number; it bounds
nothing but the model):

- `TypeCorrect`,
- `WorkersConserveCores`: `Spec => []CoresConserved`,
- `OneThread`: `Spec => []OneThreadPerWorker`, and
- `ThreadsEndFirst`: `Spec => []NoThreadOutlivesWorker`.

`CoresConserved` counts the cores a worker has `lost` among those it took, and says
when it may lose some: only if it was started again without a `stop()`. It is not
inductive for two reasons. `start()` assigns `allocated_cores`, so that a worker which
was stopped must hold nothing (`HeldUntilStop`): then what is overwritten belongs to one
that was not. And `stop()` hands every held core to `deallocate()`, so none may
be in the vector twice (`DistinctHeld`), nor be among the lost ones. The proof
counts places: a cpu of a pool is at one place of the pool, at one place of one
worker's vector, or among what one worker has lost, and taking from the back, or pushing
to it, moves one place.

`SmartBuffers_proofs`, for any number of blocks, buffers, threads and control
blocks, under `BlocksAssumption` (the pool starts with distinct blocks) and
`HandlesAssumption` (objects of different classes are different objects, and
finitely many):

- `TypeCorrect`,
- `CountsOwners`: `Spec => []CountsAreOwners`,
- `NoDangling`: `Spec => []BuffersAreLive`,
- `Conservation`: `Spec => []BlocksConserved`, and
- `BuffersImplementBlockOwnership`: `Spec => ImplementsBlockOwnership`.

The count of a control block says how many buffers point to it and have not given
their share up. What a thread has read from it outlives the read only because of
who else may touch it: `CallsFormed` says that no object is in the calls of two
threads and which calls there are, `AloneAtZero` that the thread which took a count
to zero is the only one to delete. From these, `DeleteBlock` leaves no buffer
behind, and `CallDeleter` returns a block that is nowhere else. For the refinement
each step is shown to change the owners of one block at most.

`Pipeline_proofs`, for any blocks, policies and manual edges, under
`KindsAssumption` (a block is of one kind), `BoundsAssumption` (`MaxBatch` and
`MaxRounds` are numbers) and `EdgesAssumption` (`connect()` starts at a block that
produces):

- `TypeCorrect`,
- `IdsAreNumbered`: `Spec => []ProducersNumbered`,
- `WiringFollowsRules`: `Spec => []WiredAsDocumented`,
- `NeverUndefined`: `Spec => []NoUndefinedBehaviour`,
- `SinksGetTheSame`: `Spec => []SinksAgree`,
- `RoundsKeptApart`: `Spec => []RoundsDoNotMix`, and
- `AddAloneIsEven`: `Spec => [](manual = {} => Even)`.

`WiredAsDocumented` compares the edges with what the order of additions calls for;
`add()` sees only two vectors and the edges so far. `Listed` says that the vectors
have the Sources and Nodes of that order, `AmongBuilt` that nothing leads out of
it, and `WiredUp` what each block added must be connected to; the lemmas
`AddSource`..., `AddNode`..., `AddSink`... say what one addition does to it.
Numbers of producers are argued edge by edge: `NumberingKept` says that one more
edge with the next number keeps them a numbering. A block without consumers is
undefined behaviour in `produce()`; in a pipeline built as documented each block
that produces has one (`EveryoneHasConsumers`), and calls lead to added blocks only,
so `NeverUndefined` follows.

`SinksAgree` and `RoundsDoNotMix` speak of whole executions, which `connect()` can
turn into something else, so both say for which graphs they hold. An edge by hand to
a Sink hands it what the others do not get, and one that leads back to a block which was
executed before may run its consumers again while the Sinks are being served
(`ConnectedAhead`); a Module with two producers runs twice in a round, and gives an
Aggregator behind it its input twice (`Even`). `AddAloneIsEven` says that `add()` makes no
such graph; its invariant, `InLine`, is that edges lead ahead and only the first Node
may have several producers, or none.

For the Sinks, `Handing` says where an execution is: the calls to Sinks are in a row at
the front, one for each Sink that does not have the value yet, and the others have one
value more. It goes on from call to call because `Wired` gives all Sinks to one block, or to
all Sources. For the rounds, `Fired` relates the calls to the set of blocks that were
executed in the round: each is executed once, a call comes along an edge from one that
was (`OnTheWay`), an Aggregator has the inputs of just those producers whose calls have
arrived (`Delivered`), and it waits for another (`Waiting`). When the calls have run out,
no Aggregator may keep an input (`Finished`): take, of the Nodes that have not been
executed, the one that was added first. Edges lead ahead, so all its producers were
executed, and all their values have arrived; their ids are those it counts up to
(`ProducersNumbered`), so it was executed after all. Then the values that a Sink
gets are those of the round it gets them in (`Fresh`).

`Mission_proofs`, for any builds, any types and places of queues, any number of
values, starts and workers, under `BuildsAssumption` (a build adds something),
`QueueTypesAssumption`, `BoundsAssumption` (the bounds are numbers) and
`NoneAssumption` (`None` is no value):

- `TypeCorrect`,
- `ThreadsEndFirst`: `Spec => []NoThreadOutlivesPipelines`,
- `ValuesInOnePlace`: `Spec => []EachValueInOnePlace`,
- `QueuesJoin`: `Spec => []QueuesJoinPipelines`, and
- `SinksInOrder`: `Spec => []ReceivedInOrder`.

`BasicInv` adds to the types what each step relies on: references lead somewhere
(`Points`), there is room for the workers still to be started (`Room`), a thread has
nothing in its hands before the source (`Hands`), and destruction has joined the
threads it has passed (`Joins`).

For the values, every step is reduced to its effect (`Effect`): nothing moves, or one
value is made, popped, put into a queue, delivered to a sink or lost. `PlacesInv` is then
shown for the six effects: a value is at one place if it has been made and nowhere if it
has not. `PlacesCount` goes from there to the cardinality of the property.

For the wiring, `Wired` says that a queue has two ends at the most and one before it is
marked, and that only the last one is not marked, whatever is built. Where the open ends
alternate, `LineInv` follows a `build()` under way: the pipelines it has added have
the ends it was told (`Follows`), and the queue that is not marked waits for the next
pipeline without a source (`Waits`); once that is added the two are `Joined`.

`ReceivedInOrder` holds for every build, not only where each queue has one producer.
The order is one of distances: a value in the hands of a pipeline with a source of its
own has come 0, one in queue `q` has come `2q-1` and one in the hands of the pipeline
that pops `q`, `2q`. `OrderInv` says that of two values of one source the one that has
come farther is older, in the queues, in hands and in the sinks. It needs to know that
two values of a source never change places on the way from one queue to the next:
no two threads execute one pipeline (`Exclusive`), only the queues and pipelines behind
a source have values of it (`HandsFed`, `QueuesFed`), a pipeline that pops a queue
which another one feeds pushes to the next (`Onward`), and no third pipeline has an end
there (`OnlyEnds`). So there is nothing of the same source between where a value is
taken from and where it is put (`NoneBetween`).

Only model-checked: the liveness properties (fairness and ENABLED are out of
the prover's reach), and the pools that `Startup` reads (`PoolsFollowKernel`), which
folds over sequences make, an induction over data.

## 5. Disagreements with the documentation

Each has a run that shows it, and is among the "findings" of `PROJECT.json`:

1. `deallocate()` is not protected by the mutex (`CPUManager_race`).
2. The fallback from isolated to pinned cpus never returns (`CPUManager_fallback`).
3. The thread of a worker may read a mask that is gone (`Worker_affinity`).

Seen on the way, without a run:

In the threads: a `start()` right after a `stop()` clears the flag before the old
thread has seen it, so that the old thread goes on, and the join waits for it
(`utils/threads/Worker.cpp:80`). `~Worker()` destroys the flag and the logger before it
joins the thread that uses them (`utils/threads/Worker.h:71-75`). A `start()` of a worker
that was not stopped loses its cores (`utils/threads/Worker.cpp:26`), as `CoresConserved`
allows.

In the flow graph: an Aggregator of 32 producers waits for ever, and one keeps its
inputs as `Out`, though they are of type `In` (`flow/blocks/Aggregator.hpp:78`).
A second input of a producer, which "shouldn't happen"
(`flow/blocks/Aggregator.hpp:30`), does, for a Module behind two Sources with a
branch around it. `add()` of a Source after a Sink does not throw
(`flow/Pipeline.hpp:55-56`); it throws after a Node only when the Source is in
the vector already; a pipeline whose first block is a Module throws when it is
executed (`flow/Pipeline.hpp:88`), as does every pipeline in which a process()
before a Module returns nothing; an Aggregator keeps the inputs of a round that ended
so, for the next round. A mission whose pipeline has a Module
right behind a QueueSource throws as soon as its queue is empty, which ends the
process; a second `start()` of a mission may have two threads in one pipeline;
two pipelines without sinks, added one after the other, push to one queue, which
the default type, `LOCK_FREE`, does not allow; and `Mission::stop_flag`, "atomic
flag to stop the workers" (`flow/Mission.hpp:245`), is never used.

At the start: two first calls of `getInstance()` that overlap make two managers
(`utils/singleton/Singleton.tpp:11-12`), and when their assignments interleave the
instance may be left pointing to the one that is deleted. When
`/sys/devices/system/cpu/isolated` cannot be read, the second `getline()` leaves the
line of the online cpus, and all of them count as isolated
(`utils/threads/CPUManager.cpp:26-29`), against `utils/threads/CPUManager.h:50-51`. An
isolated cpu that is offline is in the isolated pool, and `erase(end())` is called for it.

In the queue: `peek()` of a `BlockingReaderWriterQueue` does not ask the semaphore,
so that it may show an element which the `try_dequeue()` that follows does not get
yet (`readerwriterqueue.h:910`, and 906: "the one that would be removed next").

In the RabbitMQ client: `Publisher` has a second member `options`, never
initialised, in front of that of `MQEntity` (`utils/ipc/rmq/Publisher.h:32`), so that
it publishes to the default exchange and not "to a configured exchange"
(`utils/ipc/rmq/README.md:27`), and with a routing key other than the queue's name
all messages are dropped. A `Consumer` loses a message that it cannot parse
(`utils/ipc/rmq/Consumer.tpp:35-47`); one that is stopped loses what its channel holds;
one that is destroyed without a connection ends the program; and one that is asked to
`consume()` after `stop()` dereferences null.

## 6. Not modelled, and the plan

Not planned: the HTTP server and its JSON, the bodies of the stock blocks, the
conversion of configuration values, the vendored queue's memory ordering and its
code for other platforms. These hold no state that two actors share, or are not
this repository's code. Of the buffers, those that do not come from a `MemPool` are
left out (the deleter is then `delete[]`), and so are the lifetime of the pool,
which its blocks' deleters refer to, and `get_deleter()`.

What would come next:

`Mission` on top of `BoundedFifo` in place of sequences.

## 7. Running

In this directory, `tlc -config X.cfg M` runs the configuration `X.cfg` of the
module `M` that `PROJECT.json` names for it, and `tlapm M_proofs.tla` checks the
proofs. Operators marked "(mutated)" are what plausible mistakes in the code
would turn a definition into: `PROJECT.json` names for each property one that
breaks it.
