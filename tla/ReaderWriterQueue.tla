-------------------------- MODULE ReaderWriterQueue --------------------------
(***************************************************************************)
(* The lock-free queue of one producer and one consumer in                 *)
(* core/src/utils/queues/moodycamel/readerwriterqueue.h: a ring of blocks, *)
(* each a circular buffer.  A step makes one access to what the two        *)
(* threads share; what a thread alone writes it reads along with it.  The  *)
(* fences of the code make its accesses take effect in program order.      *)
(***************************************************************************)
EXTENDS Naturals, Sequences

CONSTANTS
    MaxPushes,      \* bound on the calls of the producer, by the size asked for
    Raw,            \* the content of a slot without an element
    Nothing,        \* what a pop or peek of an empty queue returns
    Sizes,          \* the sizes a constructor may be asked for
    MaxBlockSize,   \* MAX_BLOCK_SIZE
    MaxBlocks       \* the blocks there is memory for

ASSUME SizesAssumption == Sizes \subseteq Nat \ {0}
ASSUME MaxPushesAssumption == MaxPushes \in [Sizes -> Nat]
ASSUME RawAssumption == Raw \notin Nat
ASSUME MaxBlockSizeAssumption == MaxBlockSize \in {2^k : k \in 1..9}

VARIABLES
    requested,      \* the constructor's argument
    block,          \* the blocks, in the order of their allocation
    frontBlock,     \* where elements are dequeued, written by the consumer
    tailBlock,      \* where elements are enqueued, written by the producer
    largestBlockSize,
    push,           \* the producer's call
    pop,            \* the consumer's call
    sent,           \* the calls of the producer so far
    got,            \* what the last pop or peek has returned
    freed           \* the blocks the destructor has freed

ringVars == <<requested, block, frontBlock, tailBlock, largestBlockSize, push, pop, sent, got, freed>>

\* The element of the n-th push is n.
Values == UNION {1..MaxPushes[size] : size \in Sizes}

Idle == [pc |-> "idle"]

-----------------------------------------------------------------------------
(* Construction *)

\* Never asked for more than 2 * MaxBlockSize, which is 1024 at most.
CeilToPow2(n) == CHOOSE p \in {2^k : k \in 0..10} : p >= n /\ p < 2 * n

MakeBlock(size) ==
    [size |-> size, front |-> 0, localTail |-> 0, tail |-> 0, localFront |-> 0,
     next |-> 0, data |-> [i \in 0..size - 1 |-> Raw]]

\* How many blocks of which size the constructor makes.  CeilToPow2(size + 1) is
\* more than 2 * MaxBlockSize, also a power of two, just when size + 1 is.
Blocks(size) ==
    IF size + 1 > 2 * MaxBlockSize
    THEN [count |-> (size + 2 * MaxBlockSize - 3) \div (MaxBlockSize - 1), size |-> MaxBlockSize]
    ELSE [count |-> 1, size |-> CeilToPow2(size + 1)]

RingInit ==
    /\ requested \in Sizes
    /\ LET made == Blocks(requested) IN
        /\ block = [b \in 1..made.count |->
                        [MakeBlock(made.size) EXCEPT !.next = (b % made.count) + 1]]
        /\ largestBlockSize = made.size
    /\ frontBlock = 1
    /\ tailBlock = 1
    /\ push = Idle
    /\ pop = Idle
    /\ sent = 0
    /\ got = Nothing
    /\ freed = {}

-----------------------------------------------------------------------------
(* What the ring holds *)

Count(b) == (block[b].tail + block[b].size - block[b].front) % block[b].size

\* An element is in the queue until front has passed it, also when it has been
\* moved out already.
ElementAt(b, i) ==
    IF pop.pc = "release" /\ b = frontBlock /\ i = block[b].front
    THEN pop.value
    ELSE block[b].data[i]

ElementsOf(b) ==
    [k \in 1..Count(b) |-> ElementAt(b, (block[b].front + k - 1) % block[b].size)]

\* The block that is n blocks behind the front block.
Ahead == LET ahead[n \in Nat] == IF n = 0 THEN frontBlock ELSE block[ahead[n - 1]].next
         IN ahead

\* How many blocks the tail block is behind the front block.
Distance == CHOOSE n \in 0..Len(block) - 1 : 
                /\ Ahead[n] = tailBlock
                /\ \A m \in 0..n - 1 : Ahead[m] # tailBlock

\* The elements of the front block and of the n blocks behind it, one after the other.
Held == LET held[n \in Nat] == IF n = 0 THEN ElementsOf(frontBlock)
                               ELSE held[n - 1] \o ElementsOf(Ahead[n])
        IN held

Contents == Held[Distance]

-----------------------------------------------------------------------------
(* The producer: inner_enqueue() *)

NextTail(b) == (block[b].tail + 1) % block[b].size
NextBlock == block[tailBlock].next

PushGoes(pc) == push' = [push EXCEPT !.pc = pc]
PushReturns == push' = Idle

\* Whether there was room at the time of the call is kept for the refinement.
CallPush(canAlloc) ==
    /\ push = Idle
    /\ freed = {}
    /\ sent < MaxPushes[requested]
    /\ sent' = sent + 1
    /\ push' = [pc |-> IF NextTail(tailBlock) # block[tailBlock].localFront
                       THEN "construct" ELSE "reload",
                value |-> sent + 1, canAlloc |-> canAlloc, room |-> Len(Contents) < requested]
    /\ UNCHANGED <<requested, block, frontBlock, tailBlock, largestBlockSize, pop, got, freed>>

\* (mutated) Fills the block up to its last slot.
ReloadFrontAndGo ==
    /\ push.pc = "reload"
    /\ block' = [block EXCEPT ![tailBlock].localFront = block[tailBlock].front]
    /\ PushGoes("construct")
    /\ UNCHANGED <<requested, frontBlock, tailBlock, largestBlockSize, pop, sent, got, freed>>

\* The producer's copy of front was full; the real front may be further.
ReloadFront ==
    /\ push.pc = "reload"
    /\ block' = [block EXCEPT ![tailBlock].localFront = block[tailBlock].front]
    /\ PushGoes(IF NextTail(tailBlock) # block[tailBlock].front THEN "construct" ELSE "full")
    /\ UNCHANGED <<requested, frontBlock, tailBlock, largestBlockSize, pop, sent, got, freed>>

Construct ==
    /\ push.pc = "construct"
    /\ block' = [block EXCEPT ![tailBlock].data[block[tailBlock].tail] = push.value]
    /\ PushGoes("publish")
    /\ UNCHANGED <<requested, frontBlock, tailBlock, largestBlockSize, pop, sent, got, freed>>

Publish ==
    /\ push.pc = "publish"
    /\ block' = [block EXCEPT ![tailBlock].tail = NextTail(tailBlock)]
    /\ PushReturns
    /\ UNCHANGED <<requested, frontBlock, tailBlock, largestBlockSize, pop, sent, got, freed>>

\* (mutated) Does not look where the consumer is.
FindAnyBlock ==
    /\ push.pc = "full"
    /\ PushGoes("useNext")
    /\ UNCHANGED <<requested, block, frontBlock, tailBlock, largestBlockSize, pop, sent, got, freed>>

FindFreeBlock ==
    /\ push.pc = "full"
    /\ NextBlock # frontBlock
    /\ PushGoes("useNext")
    /\ UNCHANGED <<requested, block, frontBlock, tailBlock, largestBlockSize, pop, sent, got, freed>>

\* The next block is the consumer's: a new one is needed.
FindNoBlock ==
    /\ push.pc = "full"
    /\ NextBlock = frontBlock
    /\ push.canAlloc
    /\ PushGoes("allocate")
    /\ UNCHANGED <<requested, block, frontBlock, tailBlock, largestBlockSize, pop, sent, got, freed>>

UseNext ==
    /\ push.pc = "useNext"
    /\ block' = [block EXCEPT ![NextBlock].localFront = block[NextBlock].front]
    /\ PushGoes("constructNext")
    /\ UNCHANGED <<requested, frontBlock, tailBlock, largestBlockSize, pop, sent, got, freed>>

ConstructNext ==
    /\ push.pc = "constructNext"
    /\ block' = [block EXCEPT ![NextBlock].data[block[NextBlock].tail] = push.value]
    /\ PushGoes("publishNext")
    /\ UNCHANGED <<requested, frontBlock, tailBlock, largestBlockSize, pop, sent, got, freed>>

PublishNext ==
    /\ push.pc = "publishNext"
    /\ block' = [block EXCEPT ![NextBlock].tail = NextTail(NextBlock)]
    /\ PushGoes("advanceTail")
    /\ UNCHANGED <<requested, frontBlock, tailBlock, largestBlockSize, pop, sent, got, freed>>

NewBlockSize ==
    IF largestBlockSize >= MaxBlockSize THEN largestBlockSize ELSE 2 * largestBlockSize

\* The new block gets its element before anyone else can see it.
Allocate ==
    /\ push.pc = "allocate"
    /\ Len(block) < MaxBlocks
    /\ block' = Append(block, [MakeBlock(NewBlockSize) EXCEPT
                                   !.data[0] = push.value, !.tail = 1, !.localTail = 1,
                                   !.next = NextBlock])
    /\ largestBlockSize' = NewBlockSize
    /\ PushGoes("link")
    /\ UNCHANGED <<requested, frontBlock, tailBlock, pop, sent, got, freed>>

Link ==
    /\ push.pc = "link"
    /\ block' = [block EXCEPT ![tailBlock].next = Len(block)]
    /\ PushGoes("advanceTail")
    /\ UNCHANGED <<requested, frontBlock, tailBlock, largestBlockSize, pop, sent, got, freed>>

AdvanceTail ==
    /\ push.pc = "advanceTail"
    /\ tailBlock' = NextBlock
    /\ PushReturns
    /\ UNCHANGED <<requested, block, frontBlock, largestBlockSize, pop, sent, got, freed>>

\* No free block, and none may be allocated or there is no memory.
Refuse ==
    /\ \/ push.pc = "full" /\ NextBlock = frontBlock /\ ~push.canAlloc
       \/ push.pc = "allocate" /\ Len(block) >= MaxBlocks
    /\ PushReturns
    /\ UNCHANGED <<requested, block, frontBlock, tailBlock, largestBlockSize, pop, sent, got, freed>>

-----------------------------------------------------------------------------
(* The consumer: try_dequeue(), pop() and peek() *)

BlockFront == block[frontBlock].front

PopGoes(pc) == pop' = [pop EXCEPT !.pc = pc]
PopReturns(v) == pop' = Idle /\ got' = v

CallPop(op) ==
    /\ pop = Idle
    /\ freed = {}
    /\ pop' = [pc |-> IF BlockFront # block[frontBlock].localTail THEN "take" ELSE "reload",
               op |-> op, next |-> 0, value |-> Nothing]
    /\ UNCHANGED <<requested, block, frontBlock, tailBlock, largestBlockSize, push, sent, got, freed>>

LoadTail(from, otherwise) ==
    /\ pop.pc = from
    /\ block' = [block EXCEPT ![frontBlock].localTail = block[frontBlock].tail]
    /\ PopGoes(IF BlockFront # block[frontBlock].tail THEN "take" ELSE otherwise)
    /\ UNCHANGED <<requested, frontBlock, tailBlock, largestBlockSize, push, sent, got, freed>>

ReloadTail == LoadTail("reload", "checkTail")

SeeTailElsewhere ==
    /\ pop.pc = "checkTail"
    /\ frontBlock # tailBlock
    /\ PopGoes("recheck")
    /\ UNCHANGED <<requested, block, frontBlock, tailBlock, largestBlockSize, push, sent, got, freed>>

SeeNothing ==
    /\ pop.pc = "checkTail"
    /\ frontBlock = tailBlock
    /\ PopReturns(Nothing)
    /\ UNCHANGED <<requested, block, frontBlock, tailBlock, largestBlockSize, push, sent, freed>>

\* (mutated) Goes by the tail that was read before the tail block.
NoRecheck ==
    /\ pop.pc = "recheck"
    /\ PopGoes("readNext")
    /\ UNCHANGED <<requested, block, frontBlock, tailBlock, largestBlockSize, push, sent, got, freed>>

\* The producer may have filled this block up before it moved on.
Recheck == LoadTail("recheck", "readNext")

ReadNext ==
    /\ pop.pc = "readNext"
    /\ pop' = [pop EXCEPT !.pc = "enterNext", !.next = block[frontBlock].next]
    /\ UNCHANGED <<requested, block, frontBlock, tailBlock, largestBlockSize, push, sent, got, freed>>

\* peek() looks into the next block and stays where it is.
EnterNext ==
    /\ pop.pc = "enterNext"
    /\ \/ /\ pop.op = "pop"
          /\ block' = [block EXCEPT ![pop.next].localTail = block[pop.next].tail]
          /\ PopGoes("advanceFront")
          /\ UNCHANGED got
       \/ /\ pop.op = "peek"
          /\ PopReturns(block[pop.next].data[block[pop.next].front])
          /\ UNCHANGED block
    /\ UNCHANGED <<requested, frontBlock, tailBlock, largestBlockSize, push, sent, freed>>

AdvanceFront ==
    /\ pop.pc = "advanceFront"
    /\ frontBlock' = pop.next
    /\ PopGoes("take")
    /\ UNCHANGED <<requested, block, tailBlock, largestBlockSize, push, sent, got, freed>>

\* Moves the element out and destroys it.
Take ==
    /\ pop.pc = "take"
    /\ pop.op = "pop"
    /\ block' = [block EXCEPT ![frontBlock].data[BlockFront] = Raw]
    /\ pop' = [pop EXCEPT !.pc = "release", !.value = block[frontBlock].data[BlockFront]]
    /\ UNCHANGED <<requested, frontBlock, tailBlock, largestBlockSize, push, sent, got, freed>>

Release ==
    /\ pop.pc = "release"
    /\ block' = [block EXCEPT ![frontBlock].front = (BlockFront + 1) % block[frontBlock].size]
    /\ PopReturns(pop.value)
    /\ UNCHANGED <<requested, frontBlock, tailBlock, largestBlockSize, push, sent, freed>>

Peek ==
    /\ pop.pc = "take"
    /\ pop.op = "peek"
    /\ PopReturns(block[frontBlock].data[BlockFront])
    /\ UNCHANGED <<requested, block, frontBlock, tailBlock, largestBlockSize, push, sent, freed>>

-----------------------------------------------------------------------------
(* The destructor *)

InRing == {Ahead[n] : n \in 0..Len(block) - 1}

Live(b) == {(block[b].front + k) % block[b].size : k \in 0..Count(b) - 1}

\* Walks once around the ring, destroying the elements of each block.
Destroy ==
    /\ push = Idle
    /\ pop = Idle
    /\ freed = {}
    /\ block' = [b \in 1..Len(block) |-> [block[b] EXCEPT !.data =
                    [i \in DOMAIN @ |-> IF b \in InRing /\ i \in Live(b) THEN Raw ELSE @[i]]]]
    /\ freed' = InRing
    /\ UNCHANGED <<requested, frontBlock, tailBlock, largestBlockSize, push, pop, sent, got>>

-----------------------------------------------------------------------------
PushAccepted == Publish \/ AdvanceTail

PushStep ==
    \/ ReloadFront \/ Construct
    \/ FindFreeBlock \/ UseNext \/ ConstructNext \/ PublishNext
    \/ FindNoBlock \/ Allocate \/ Link
    \/ Refuse

PopStep ==
    \/ ReloadTail \/ SeeTailElsewhere \/ SeeNothing \/ Recheck
    \/ ReadNext \/ EnterNext \/ AdvanceFront
    \/ Take \/ Release \/ Peek

-----------------------------------------------------------------------------
(* Properties *)

\* The element the consumer has just moved out, and the one the producer has
\* just filled in.
TakenFrom(b) == {i \in {block[b].front} : pop.pc = "release" /\ b = frontBlock}
FilledIn(b) == {i \in {block[b].tail} : \/ (push.pc = "publish" /\ b = tailBlock)
                                       \/ (push.pc = "publishNext" /\ b = NextBlock)}

\* The slots that hold an element are those between front and tail of their
\* block, but for these two: no element is constructed over another, moved out
\* twice, or left behind in a block that was passed (readerwriterqueue.h:548-555,
\* 305-314), and the destructor leaves none (209-232).
ElementsLiveOnce ==
    IF freed = {}
    THEN \A b \in 1..Len(block) :
            {i \in DOMAIN block[b].data : block[b].data[i] # Raw} =
                (Live(b) \ TakenFrom(b)) \union FilledIn(b)
    ELSE /\ freed = 1..Len(block)
         /\ \A b \in freed : \A i \in DOMAIN block[b].data : block[b].data[i] = Raw

\* The assertions of the code: the block the producer takes next is empty
\* (readerwriterqueue.h:582), and the one the consumer goes to is not (337, 408).
AssertionsHold ==
    /\ push.pc = "useNext" => block[NextBlock].front = block[NextBlock].tail
    /\ pop.pc = "enterNext" => block[pop.next].front # block[pop.next].tail
=============================================================================
