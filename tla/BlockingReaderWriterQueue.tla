---------------------- MODULE BlockingReaderWriterQueue ----------------------
(***************************************************************************)
(* The two queues of readerwriterqueue.h: the ring of blocks as it is, and *)
(* the ring behind a semaphore that counts its elements, the one a blocked *)
(* consumer sleeps on.  An element is in the ring before its permit is in  *)
(* the semaphore, and its permit is taken before it is.                    *)
(***************************************************************************)
EXTENDS ReaderWriterQueue, LightweightSemaphore

CONSTANT Instances      \* the queues constructed: their size and whether they block

ASSUME InstancesAssumption == Instances \subseteq [size : Sizes, blocking : BOOLEAN]

VARIABLES
    blocking,       \* whether the queue is a BlockingReaderWriterQueue
    asked           \* history: the consumer's call and whether it cannot miss an element

vars == <<ringVars, semVars, blocking, asked>>

NoCall == [op |-> "none"]

Init ==
    /\ RingInit
    /\ SemInit
    /\ blocking \in BOOLEAN
    /\ [size |-> requested, blocking |-> blocking] \in Instances
    /\ asked = NoCall

-----------------------------------------------------------------------------
(* The producer *)

\* try_enqueue(), which may not allocate, and enqueue(), which may.
Enqueue(canAlloc) ==
    /\ signal = "idle"
    /\ CallPush(canAlloc)
    /\ UNCHANGED <<semVars, blocking, asked>>

\* (mutated) Signals only a consumer that is waiting.
EnqueueSignalsWaiter ==
    /\ PushAccepted
    /\ IF blocking /\ wait # NotWaiting THEN CallSignal ELSE UNCHANGED semVars
    /\ UNCHANGED <<blocking, asked>>

\* The element is in the queue; the blocking queue signals it.
EnqueueSucceeds ==
    /\ PushAccepted
    /\ IF blocking THEN CallSignal ELSE UNCHANGED semVars
    /\ UNCHANGED <<blocking, asked>>

ProducerStep ==
    \/ PushStep /\ UNCHANGED <<semVars, blocking, asked>>
    \/ EnqueueSucceeds
    \/ SignalStep /\ UNCHANGED <<ringVars, blocking, asked>>

-----------------------------------------------------------------------------
(* The consumer *)

\* What the producer has put in and has not added to the count yet.
Unsignalled == IF signal = "add" THEN 1 ELSE 0

Ask(op) ==
    /\ asked = NoCall
    /\ asked' = [op |-> op,
                 some |-> Len(Contents) - (IF op = "pop" THEN Unsignalled ELSE 0) > 0]

\* A call that goes straight to the ring: any of the plain queue, and peek().
AskRing(op) ==
    /\ ~blocking \/ op = "peek"
    /\ Ask(op)
    /\ CallPop(op)
    /\ UNCHANGED <<semVars, blocking>>

\* try_dequeue() and pop(), wait_dequeue(), wait_dequeue_timed().
AskPermit(timeout) ==
    /\ blocking
    /\ freed = {}
    /\ Ask("pop")
    /\ CallWait(timeout)
    /\ UNCHANGED <<ringVars, blocking>>

TakeElement ==
    /\ WaitReturns("granted")
    /\ CallPop("pop")
    /\ UNCHANGED <<blocking, asked>>

GoWithout ==
    /\ WaitReturns("refused")
    /\ got' = Nothing
    /\ asked' = NoCall
    /\ UNCHANGED <<requested, block, frontBlock, tailBlock, largestBlockSize,
                   push, pop, sent, freed, blocking>>

RingAnswers ==
    /\ PopStep
    /\ asked' = IF pop' = Idle THEN NoCall ELSE asked
    /\ UNCHANGED <<semVars, blocking>>

ConsumerStep ==
    \/ RingAnswers
    \/ WaitStep /\ UNCHANGED <<ringVars, blocking, asked>>
    \/ TakeElement
    \/ GoWithout

\* The queue is not in use when it is destroyed.
DestroyQueue ==
    /\ signal = "idle"
    /\ asked = NoCall
    /\ Destroy
    /\ UNCHANGED <<semVars, blocking, asked>>

-----------------------------------------------------------------------------
Next ==
    \/ \E canAlloc \in BOOLEAN : Enqueue(canAlloc)
    \/ ProducerStep
    \/ \E op \in {"pop", "peek"} : AskRing(op)
    \/ \E timeout \in Timeouts : AskPermit(timeout)
    \/ ConsumerStep
    \/ DestroyQueue

\* A thread that is inside of a call is scheduled.
Fairness == WF_vars(ProducerStep) /\ WF_vars(ConsumerStep)

Spec == Init /\ [][Next]_vars /\ Fairness

-----------------------------------------------------------------------------
(* Properties *)

\* What the consumer has a permit for and has not taken out yet.
Granted == IF wait.pc = "granted" \/ (pop # Idle /\ asked.op = "pop") THEN 1 ELSE 0

\* The semaphore counts the elements of the ring, but for these two; the call
\* that has a permit finds an element (the assertions at readerwriterqueue.h:
\* 848, 864, 882, 920), and size_approx() never claims more than there is (929).
PermitsMatchElements ==
    /\ blocking /\ freed = {} => Permits + Granted + Unsignalled = Len(Contents)
    /\ blocking /\ pop.pc = "checkTail" /\ pop.op = "pop" => frontBlock # tailBlock

\* No wakeup is lost: a consumer that sleeps while an element is in the queue is
\* granted it (wait_dequeue(), readerwriterqueue.h:859-866).
SleeperIsServed ==
    (wait.pc = "sleep" /\ wait.timeout = "forever" /\ Contents # <<>>) ~> (wait.pc = "granted")

\* Every call but a wait_dequeue() of an empty queue returns, also a timed one
\* whose timeout races with signals (atomicops.h:730-738), and the ring's calls
\* need no step of the other side.
CallsReturn ==
    /\ (push # Idle \/ signal # "idle") ~> (push = Idle /\ signal = "idle")
    /\ (wait.pc # "idle" /\ wait.timeout # "forever") ~> (wait.pc = "idle")
    /\ (pop # Idle) ~> (pop = Idle)

\* Both queues are a queue as BoundedFifo promises it: first in, first out, with
\* the capacity the constructor was asked for, and never empty-handed while an
\* element is there (readerwriterqueue.h:107-110, 279-282, 375-378).  In the
\* blocking queue an element is late until it is signalled: peek() may show what
\* a try_dequeue() that follows does not get.
Fifo == INSTANCE BoundedFifo WITH
    atLeast <- requested,
    items   <- IF freed = {} THEN Contents ELSE <<>>,
    pushing <- IF push # Idle THEN [op |-> "push", value |-> push.value, room |-> push.room]
               ELSE IF signal = "add" THEN [op |-> "late"] ELSE NoCall,
    popping <- asked

ImplementsBoundedFifo == Fifo!AbsSpec
=============================================================================
