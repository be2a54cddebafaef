---------------------------- MODULE SmartBuffers ----------------------------
(***************************************************************************)
(* pt::memory (core/src/utils/memory): the blocks of a MemPool, owned by   *)
(* unique_buffers, released_buffers and shared_buffers that several        *)
(* threads make, copy, move and drop.                                      *)
(*                                                                         *)
(* A step makes one access to what threads share: the pool, under its      *)
(* mutex, or the atomic count of a control block.  A single buffer object  *)
(* is not used by two threads at once; the users see to that, as with any  *)
(* smart pointer.                                                          *)
(***************************************************************************)
EXTENDS Naturals, SequencesExt

CONSTANTS
    Threads,        \* threads that use shared_buffers
    Uniques,        \* unique_buffer objects
    Releaseds,      \* released_buffer objects
    Shareds,        \* shared_buffer objects
    Ctrls,          \* addresses of control blocks
    FreeBlocks,     \* the pool's free_blocks_ as its constructor leaves it
    None            \* nullptr

Owners == Uniques \union Releaseds
Handles == Owners \union Shareds

ASSUME BlocksAssumption ==
    /\ FreeBlocks \in Seq(ToSet(FreeBlocks)) /\ IsInjective(FreeBlocks)
    /\ None \notin ToSet(FreeBlocks)

Blocks == ToSet(FreeBlocks)

\* Objects have addresses of their own, and there are finitely many.
ASSUME HandlesAssumption ==
    /\ Uniques \intersect Releaseds = {} /\ Owners \intersect Shareds = {}
    /\ None \notin Handles \union Ctrls
    /\ IsFiniteSet(Shareds) /\ IsFiniteSet(Threads)

VARIABLES
    free_blocks_,   \* MemPool::free_blocks_
    data_,          \* the block of a unique or released buffer, with its deleter
    ctrl_,          \* shared_buffer::ctrl_
    block,          \* the control blocks: live, count and pointer
    op              \* what each thread is in the middle of

vars == <<free_blocks_, data_, ctrl_, block, op>>

ControlBlock == [live : BOOLEAN, ref : Nat, ptr : Blocks \union {None}]

Deleted == [live |-> FALSE, ref |-> 0, ptr |-> None]

\* In release_ctrl() of buffer s: before fetch_sub, before the deleter, before
\* delete; or in release(), past the exchange.  Then s takes over the control
\* block next, or that of buffer other; release() fills the buffer other.
Op == [pc : {"idle", "drop", "last", "delete", "consumed"},
       s : Shareds \union {None}, next : Ctrls \union {None},
       other : Shareds \union Releaseds \union {None}]

NoOp == [pc |-> "idle", s |-> None, next |-> None, other |-> None]

TypeOK ==
    /\ free_blocks_ \in Seq(Blocks)
    /\ data_ \in [Owners -> Blocks \union {None}]
    /\ ctrl_ \in [Shareds -> Ctrls \union {None}]
    /\ block \in [Ctrls -> ControlBlock]
    /\ op \in [Threads -> Op]

Init ==
    /\ free_blocks_ = FreeBlocks
    /\ data_ = [h \in Owners |-> None]
    /\ ctrl_ = [s \in Shareds |-> None]
    /\ block = [c \in Ctrls |-> Deleted]
    /\ op = [t \in Threads |-> NoOp]

Idle(h) == \A t \in Threads : h # op[t].s /\ h # op[t].other

-----------------------------------------------------------------------------
(* MemPool and unique_buffer *)

\* allocate() into a new unique_buffer.  An exhausted pool throws.
Allocate(u) ==
    /\ data_[u] = None
    /\ free_blocks_ # <<>>
    /\ data_' = [data_ EXCEPT ![u] = Head(free_blocks_)]
    /\ free_blocks_' = Tail(free_blocks_)
    /\ UNCHANGED <<ctrl_, block, op>>

\* The deleter of b, release_block().
Back(b) == free_blocks_' = Append(free_blocks_, b)

\* reset() or the destructor of a unique_buffer, or the receiver of a
\* released_buffer calls its deleter.
Reset(h) ==
    /\ data_[h] # None
    /\ Back(data_[h])
    /\ data_' = [data_ EXCEPT ![h] = None]
    /\ UNCHANGED <<ctrl_, block, op>>

\* Move construction, release() and construction from a released_buffer; a
\* released_buffer is handed on as one.
Transfer(h, g) ==
    /\ data_[h] # None /\ data_[g] = None
    /\ {h, g} \intersect Uniques # {}
    /\ Idle(g)
    /\ data_' = [data_ EXCEPT ![h] = None, ![g] = data_[h]]
    /\ UNCHANGED <<free_blocks_, ctrl_, block, op>>

\* Move assignment of unique_buffers: the block of the target goes back first.
MoveAssign(u, v) ==
    /\ u # v
    /\ data_[u] # None
    /\ Back(data_[u])
    /\ data_' = [data_ EXCEPT ![u] = data_[v], ![v] = None]
    /\ UNCHANGED <<ctrl_, block, op>>

Swap(u, v) ==
    /\ u # v
    /\ data_' = [data_ EXCEPT ![u] = data_[v], ![v] = data_[u]]
    /\ UNCHANGED <<free_blocks_, ctrl_, block, op>>

-----------------------------------------------------------------------------
(* shared_buffer: construction, and what needs no count *)

\* From a unique_buffer, which is released, or from a released_buffer.
MakeShared(h, s) ==
    /\ data_[h] # None
    /\ ctrl_[s] = None /\ Idle(s)
    /\ \E c \in Ctrls :
         /\ ~block[c].live
         /\ block' = [block EXCEPT ![c] = [live |-> TRUE, ref |-> 1, ptr |-> data_[h]]]
         /\ ctrl_' = [ctrl_ EXCEPT ![s] = c]
    /\ data_' = [data_ EXCEPT ![h] = None]
    /\ UNCHANGED <<free_blocks_, op>>

\* (mutated) fetch_add is missing.
CopyUncounted(s, from) ==
    /\ ctrl_[s] = None /\ Idle(s)
    /\ ctrl_[from] # None /\ Idle(from)
    /\ ctrl_' = [ctrl_ EXCEPT ![s] = ctrl_[from]]
    /\ UNCHANGED <<free_blocks_, data_, block, op>>

Copy(s, from) ==
    /\ ctrl_[s] = None /\ Idle(s)
    /\ ctrl_[from] # None /\ Idle(from)
    /\ ctrl_' = [ctrl_ EXCEPT ![s] = ctrl_[from]]
    /\ block' = [block EXCEPT ![ctrl_[from]].ref = @ + 1]
    /\ UNCHANGED <<free_blocks_, data_, op>>

\* Move construction, or assignment to an empty buffer.
Move(s, from) ==
    /\ ctrl_[s] = None /\ Idle(s)
    /\ ctrl_[from] # None /\ Idle(from)
    /\ ctrl_' = [ctrl_ EXCEPT ![s] = ctrl_[from], ![from] = None]
    /\ UNCHANGED <<free_blocks_, data_, block, op>>

SwapShared(s, r) ==
    /\ s # r
    /\ Idle(s) /\ Idle(r)
    /\ ctrl_' = [ctrl_ EXCEPT ![s] = ctrl_[r], ![r] = ctrl_[s]]
    /\ UNCHANGED <<free_blocks_, data_, block, op>>

-----------------------------------------------------------------------------
(* shared_buffer: assignment, reset and release, by thread t *)

Begin(t, s, next, other) ==
    /\ op[t] = NoOp
    /\ ctrl_[s] # None /\ Idle(s)
    /\ op' = [op EXCEPT ![t] = [pc |-> "drop", s |-> s, next |-> next, other |-> other]]

\* reset() or the destructor.
ResetShared(t, s) ==
    /\ Begin(t, s, None, None)
    /\ UNCHANGED <<free_blocks_, data_, ctrl_, block>>

\* The new count goes up before the old one goes down.
CopyAssign(t, s, from) ==
    /\ s # from /\ Idle(from)
    /\ Begin(t, s, ctrl_[from], None)
    /\ block' = IF ctrl_[from] = None THEN block
                ELSE [block EXCEPT ![ctrl_[from]].ref = @ + 1]
    /\ UNCHANGED <<free_blocks_, data_, ctrl_>>

AssignByMove(t, s, from) ==
    /\ s # from /\ Idle(from)
    /\ Begin(t, s, None, from)
    /\ UNCHANGED <<free_blocks_, data_, ctrl_, block>>

\* release_ctrl() is done, and the assignment takes its effect.
Finish(t) ==
    LET o == op[t]
        gets == IF o.other = None THEN o.next ELSE ctrl_[o.other] IN
    /\ ctrl_' = [s \in Shareds |-> IF s = o.s THEN gets
                                   ELSE IF s = o.other THEN None ELSE ctrl_[s]]
    /\ op' = [op EXCEPT ![t] = NoOp]

\* (mutated) The deleter runs when one owner is left.
FetchSubOneEarly(t) ==
    LET c == ctrl_[op[t].s] IN
    /\ op[t].pc = "drop"
    /\ block' = [block EXCEPT ![c].ref = @ - 1]
    /\ IF block[c].ref <= 2
       THEN op' = [op EXCEPT ![t].pc = "last"] /\ UNCHANGED ctrl_
       ELSE Finish(t)
    /\ UNCHANGED <<free_blocks_, data_>>

\* (mutated) The last owner is not told from the others.
FetchSubNeverLast(t) ==
    LET c == ctrl_[op[t].s] IN
    /\ op[t].pc = "drop"
    /\ block' = [block EXCEPT ![c].ref = @ - 1]
    /\ Finish(t)
    /\ UNCHANGED <<free_blocks_, data_>>

FetchSub(t) ==
    LET c == ctrl_[op[t].s] IN
    /\ op[t].pc = "drop"
    /\ block' = [block EXCEPT ![c].ref = @ - 1]
    /\ IF block[c].ref = 1
       THEN op' = [op EXCEPT ![t].pc = "last"] /\ UNCHANGED ctrl_
       ELSE Finish(t)
    /\ UNCHANGED <<free_blocks_, data_>>

CallDeleter(t) ==
    /\ op[t].pc = "last"
    /\ Back(block[ctrl_[op[t].s]].ptr)
    /\ op' = [op EXCEPT ![t].pc = "delete"]
    /\ UNCHANGED <<data_, ctrl_, block>>

DeleteBlock(t) ==
    /\ op[t].pc = "delete"
    /\ block' = [block EXCEPT ![ctrl_[op[t].s]] = Deleted]
    /\ Finish(t)
    /\ UNCHANGED <<free_blocks_, data_>>

\* (mutated) The count is not compared.
ReleaseAnyway(t, s, r) ==
    /\ op[t] = NoOp
    /\ ctrl_[s] # None /\ Idle(s)
    /\ data_[r] = None /\ Idle(r)
    /\ block' = [block EXCEPT ![ctrl_[s]].ref = 0]
    /\ op' = [op EXCEPT ![t] = [pc |-> "consumed", s |-> s, next |-> None, other |-> r]]
    /\ UNCHANGED <<free_blocks_, data_, ctrl_>>

\* release(): the count is exchanged, 1 for 0.  With other owners it is not,
\* and nothing is released.
Release(t, s, r) ==
    /\ op[t] = NoOp
    /\ ctrl_[s] # None /\ Idle(s)
    /\ data_[r] = None /\ Idle(r)
    /\ block[ctrl_[s]].ref = 1
    /\ block' = [block EXCEPT ![ctrl_[s]].ref = 0]
    /\ op' = [op EXCEPT ![t] = [pc |-> "consumed", s |-> s, next |-> None, other |-> r]]
    /\ UNCHANGED <<free_blocks_, data_, ctrl_>>

\* (mutated) The deleter is called although it is moved out.
MoveOutAndDelete(t) ==
    LET c == ctrl_[op[t].s] IN
    /\ op[t].pc = "consumed"
    /\ data_' = [data_ EXCEPT ![op[t].other] = block[c].ptr]
    /\ Back(block[c].ptr)
    /\ block' = [block EXCEPT ![c] = Deleted]
    /\ ctrl_' = [ctrl_ EXCEPT ![op[t].s] = None]
    /\ op' = [op EXCEPT ![t] = NoOp]

\* Pointer and deleter are moved out, and the control block is deleted.
MoveOut(t) ==
    LET c == ctrl_[op[t].s] IN
    /\ op[t].pc = "consumed"
    /\ data_' = [data_ EXCEPT ![op[t].other] = block[c].ptr]
    /\ block' = [block EXCEPT ![c] = Deleted]
    /\ ctrl_' = [ctrl_ EXCEPT ![op[t].s] = None]
    /\ op' = [op EXCEPT ![t] = NoOp]
    /\ UNCHANGED free_blocks_

-----------------------------------------------------------------------------

OwnersNext ==
    \/ \E u \in Uniques : Allocate(u)
    \/ \E h \in Owners : Reset(h)
    \/ \E h, g \in Owners : Transfer(h, g)
    \/ \E u, v \in Uniques : MoveAssign(u, v) \/ Swap(u, v)
    \/ \E h \in Owners, s \in Shareds : MakeShared(h, s)
    \/ \E s, from \in Shareds : Copy(s, from) \/ Move(s, from) \/ SwapShared(s, from)

Starts(t) ==
    \/ \E s \in Shareds : ResetShared(t, s)
    \/ \E s, from \in Shareds : CopyAssign(t, s, from) \/ AssignByMove(t, s, from)
    \/ \E s \in Shareds, r \in Releaseds : Release(t, s, r)

GoesOn(t) == FetchSub(t) \/ CallDeleter(t) \/ DeleteBlock(t) \/ MoveOut(t)

Next == OwnersNext \/ \E t \in Threads : Starts(t) \/ GoesOn(t)

Spec == Init /\ [][Next]_vars

\* A call that has begun goes on; nothing obliges a thread to begin one.
FairSpec == Spec /\ \A t \in Threads : WF_vars(GoesOn(t))

-----------------------------------------------------------------------------
(* Properties *)

\* Buffer s has given up its share of the control block it still points to.
GaveUp(s) == \E t \in Threads : op[t].s = s /\ op[t].pc \in {"last", "delete"}

Consumed(s) == \E t \in Threads : op[t].s = s /\ op[t].pc = "consumed"

\* The buffers that own a share of c, and the assignments that will give one one.
Shares(c) == {s \in Shareds : ctrl_[s] = c /\ ~GaveUp(s) /\ ~Consumed(s)}
Pending(c) == {t \in Threads : op[t].next = c}

\* A control block whose deleter has been called.
Emptied(c) == \E t \in Threads : op[t].pc = "delete" /\ ctrl_[op[t].s] = c

\* Where block b is.
Places(b) ==
    {x \in {<<"pool">>} : b \in ToSet(free_blocks_)}
    \union {<<"owner", h>> : h \in {g \in Owners : data_[g] = b}}
    \union {<<"control", c>> : c \in {d \in Ctrls : block[d].live /\ block[d].ptr = b /\ ~Emptied(d)}}

\* Every block of the pool is free once, or in one exclusive buffer, or in one
\* control block: none is lost, none given back twice, across conversions
\* between the three kinds of buffers (unique_buffer.hpp:100-128,
\* shared_buffer.hpp:161-185, 225-244, MemPool.hpp:36-50, 63-66).
BlocksConserved ==
    /\ IsInjective(free_blocks_)
    /\ \A b \in Blocks : \E x \in Places(b) : Places(b) = {x}

\* "Thread-safe refcounting" (shared_buffer.hpp:11): the count of a control
\* block is the number of the buffers that own a share of it, those included
\* that are about to be assigned one.
CountsAreOwners ==
    \A c \in Ctrls :
        block[c].live => block[c].ref = Cardinality(Shares(c)) + Cardinality(Pending(c))

\* No buffer points to a control block that was deleted, and a buffer that is
\* not being dropped has its block (shared_buffer.hpp:232-241).
BuffersAreLive ==
    /\ \A s \in Shareds : ctrl_[s] # None => block[ctrl_[s]].live
    /\ \A s \in Shareds : ctrl_[s] # None /\ ~GaveUp(s) => ~Emptied(ctrl_[s])
    /\ \A t \in Threads : op[t].next # None => block[op[t].next].live

\* A thread has the buffers of its call to itself, and the call is one of those
\* that are made.
Uses(t) == {op[t].s, op[t].other} \ {None}

Formed(t) ==
    LET o == op[t] IN
        \/ o = NoOp
        \/ /\ o.pc \in {"drop", "last", "delete"}
           /\ o.s \in Shareds /\ ctrl_[o.s] # None
           /\ o.other \in (Shareds \ {o.s}) \union {None}
           /\ o.next = None \/ o.other = None
        \/ /\ o.pc = "consumed"
           /\ o.s \in Shareds /\ ctrl_[o.s] # None
           /\ o.other \in Releaseds /\ data_[o.other] = None
           /\ o.next = None

CallsFormed ==
    /\ \A t, u \in Threads : t # u => Uses(t) \intersect Uses(u) = {}
    /\ \A t \in Threads : Formed(t)

\* The thread that took the count of a control block to zero is alone with it.
AloneAtZero ==
    \A t, u \in Threads :
        op[t].pc \in {"last", "delete", "consumed"} =>
            LET c == ctrl_[op[t].s] IN
                /\ block[c].ref = 0
                /\ op[u].pc \in {"last", "delete", "consumed"} /\ ctrl_[op[u].s] = c => t = u

\* A control block has a block of memory.
PointersSet == \A c \in Ctrls : block[c].live => block[c].ptr \in Blocks

\* The inductive invariant.
IInv ==
    /\ TypeOK /\ CallsFormed /\ AloneAtZero
    /\ CountsAreOwners /\ BuffersAreLive
    /\ BlocksConserved /\ PointersSet

\* The shared buffers that have, or are about to be assigned, a share of b.
Sharers(b) ==
    {s \in Shareds :
        \/ ctrl_[s] # None /\ block[ctrl_[s]].ptr = b /\ ~GaveUp(s)
        \/ \E t \in Threads : /\ op[t].s = s /\ op[t].next # None
                              /\ block[op[t].next].ptr = b}

OwnersOf(b) == {h \in Owners : data_[h] = b} \union Sharers(b)

\* The life of each block in BlockOwnership.
Abstract == INSTANCE BlockOwnership WITH
    Exclusive <- Owners,
    Sharing <- Shareds,
    holders <- [b \in Blocks |-> OwnersOf(b)],
    free <- ToSet(free_blocks_)

\* A block has one exclusive owner or several that share it, is released only
\* by a sole owner (shared_buffer.hpp:13-16), and goes back after its last one.
ImplementsBlockOwnership == Abstract!AbsSpec

\* The last owner's going gives the block back to the pool.
AbandonedBlocksReturn ==
    \A b \in Blocks :
        (OwnersOf(b) = {}) ~> (b \in ToSet(free_blocks_))
=============================================================================
