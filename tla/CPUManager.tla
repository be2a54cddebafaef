----------------------------- MODULE CPUManager -----------------------------
(***************************************************************************)
(* pt::threads::CPUManager (core/src/utils/threads/CPUManager.cpp): the    *)
(* process-wide allocator of cpus.  Threads call allocate(), which works   *)
(* on copies of the two pools under mutex_ and writes them back, and       *)
(* deallocate(), which pushes core after core onto the pools without       *)
(* taking the mutex.                                                       *)
(*                                                                         *)
(* A step is what other threads can observe at once: entering a call,      *)
(* taking the mutex and copying the pools, writing the copies back and     *)
(* releasing the mutex, reading a pool for a push, completing the push.    *)
(***************************************************************************)
EXTENDS CorePools, FiniteSets

CONSTANTS
    Callers,        \* threads that call the CPUManager
    PinnedCores,    \* pinned_core_pool as parse_cpus() leaves it
    IsolatedCores,  \* isol_core_pool as parse_cpus() leaves it
    MaxCores,       \* bound on policy.cores
    Serialised,     \* the callers keep deallocate() apart from all other calls
    NoOne           \* the owner of a free mutex

ASSUME PoolsAssumption ==
    /\ PinnedCores \in Seq(Nat)
    /\ IsolatedCores \in Seq(Nat)
    /\ Distinct(PinnedCores)
    /\ Distinct(IsolatedCores)
    /\ Members(PinnedCores) \intersect Members(IsolatedCores) = {}

ASSUME CallersAssumption ==
    /\ NoOne \notin Callers
    /\ MaxCores \in Nat
    /\ Serialised \in BOOLEAN

Cpus == Members(PinnedCores) \union Members(IsolatedCores)

Policies == ThreadPolicy(MaxCores)

\* Whoever waits for nothing is told from whoever waits for a policy.
ASSUME NoOneAssumption == NoOne \notin Policies

VARIABLES
    pinned_core_pool,   \* ids of free non-isolated cpus
    isol_core_pool,     \* ids of free isolated cpus
    mutex_,             \* the caller that has locked mutex_, or NoOne
    call,               \* each caller's call in progress: step and local variables
    held,               \* cores a caller was granted and has not given back
    returning           \* cores its deallocate() has yet to push

pools == <<pinned_core_pool, isol_core_pool>>
vars == <<pools, mutex_, call, held, returning>>

\* policy is the argument of allocate(), pinned and isol what the call has read
\* of the two vectors.
Call == [pc : {"idle", "lock", "locked", "relock", "dealloc", "push"},
         policy : Policies, pinned : Seq(Cpus), isol : Seq(Cpus)]

NoPolicy == [cores |-> 0, affinity_type |-> "NORMAL", strict |-> FALSE]

At(label) == [pc |-> label, policy |-> NoPolicy, pinned |-> <<>>, isol |-> <<>>]

TypeOK ==
    /\ pinned_core_pool \in Seq(Cpus)
    /\ isol_core_pool \in Seq(Cpus)
    /\ mutex_ \in Callers \union {NoOne}
    /\ call \in [Callers -> Call]
    /\ held \in [Callers -> SUBSET Core(Cpus)]
    /\ returning \in [Callers -> SUBSET Core(Cpus)]

Init ==
    /\ pinned_core_pool = PinnedCores
    /\ isol_core_pool = IsolatedCores
    /\ mutex_ = NoOne
    /\ call = [c \in Callers |-> At("idle")]
    /\ held = [c \in Callers |-> {}]
    /\ returning = [c \in Callers |-> {}]

pc(c) == call[c].pc

Deallocating(c) == pc(c) \in {"dealloc", "push"}

\* Caller c goes on with step label of its call (or, at "idle", returns from it).
Proceed(c, label) == call' = [call EXCEPT ![c] = At(label)]

ReadPools(c, label) ==
    call' = [call EXCEPT ![c].pc = label,
                         ![c].pinned = pinned_core_pool,
                         ![c].isol = isol_core_pool]

-----------------------------------------------------------------------------
(* allocate(policy) *)

CallAllocate(c) ==
    /\ pc(c) = "idle"
    /\ Serialised => \A d \in Callers : ~Deallocating(d)
    /\ \E p \in Policies : call' = [call EXCEPT ![c].pc = "lock", ![c].policy = p]
    /\ UNCHANGED <<pools, mutex_, held, returning>>

\* Locked, the pool sizes do not suffice: the exception unlocks on its way out.
AllocateThrows(c) ==
    /\ pc(c) = "lock"
    /\ mutex_ = NoOne
    /\ ~Enough(call[c].policy, pinned_core_pool, isol_core_pool)
    /\ Proceed(c, "idle")
    /\ UNCHANGED <<pools, mutex_, held, returning>>

\* (mutated) The lock_guard is missing.
CopyUnlocked(c) ==
    /\ pc(c) = "lock"
    /\ Enough(call[c].policy, pinned_core_pool, isol_core_pool)
    /\ mutex_' = c
    /\ ReadPools(c, "locked")
    /\ UNCHANGED <<pools, held, returning>>

\* The size check and the two copies are one step: in between the pools can
\* only have grown, by a concurrent deallocate().
LockAndCopy(c) ==
    /\ pc(c) = "lock"
    /\ mutex_ = NoOne
    /\ Enough(call[c].policy, pinned_core_pool, isol_core_pool)
    /\ mutex_' = c
    /\ ReadPools(c, "locked")
    /\ UNCHANGED <<pools, held, returning>>

\* (mutated) The exception leaves the mutex locked.
ThrowsLocked(c) ==
    /\ pc(c) = "locked"
    /\ LacksIsolated(call[c].policy, call[c].isol)
    /\ call[c].policy.strict
    /\ Proceed(c, "idle")
    /\ UNCHANGED <<pools, mutex_, held, returning>>

\* A strict policy that the isolated cpus alone cannot serve.
AllocateIsolatedThrows(c) ==
    /\ pc(c) = "locked"
    /\ LacksIsolated(call[c].policy, call[c].isol)
    /\ call[c].policy.strict
    /\ mutex_' = NoOne
    /\ Proceed(c, "idle")
    /\ UNCHANGED <<pools, held, returning>>

\* The same, not strict: allocate() calls itself for the missing cpus, and the
\* inner call locks the std::mutex that its own thread holds.  It never returns.
FallBackToPinned(c) ==
    /\ pc(c) = "locked"
    /\ LacksIsolated(call[c].policy, call[c].isol)
    /\ ~call[c].policy.strict
    /\ call' = [call EXCEPT ![c].pc = "relock"]
    /\ UNCHANGED <<pools, mutex_, held, returning>>

\* The copies lose the granted cores and replace the pools; allocate() returns.
Commit(c) ==
    /\ pc(c) = "locked"
    /\ ~LacksIsolated(call[c].policy, call[c].isol)
    /\ pinned_core_pool' = PinnedLeft(call[c].policy, call[c].pinned)
    /\ isol_core_pool' = IsolLeft(call[c].policy, call[c].isol)
    /\ held' = [held EXCEPT ![c] =
                  @ \union Granted(call[c].policy, call[c].pinned, call[c].isol)]
    /\ mutex_' = NoOne
    /\ Proceed(c, "idle")
    /\ UNCHANGED returning

-----------------------------------------------------------------------------
(* deallocate(cores), for all the cores the caller holds *)

CallDeallocate(c) ==
    /\ pc(c) = "idle"
    /\ held[c] # {}
    /\ Serialised => \A d \in Callers : pc(d) = "idle"
    /\ returning' = [returning EXCEPT ![c] = held[c]]
    /\ held' = [held EXCEPT ![c] = {}]
    /\ Proceed(c, "dealloc")
    /\ UNCHANGED <<pools, mutex_>>

\* One core is done; deallocate() returns after the last one.
Returned(c, core) ==
    /\ returning' = [returning EXCEPT ![c] = @ \ {core}]
    /\ Proceed(c, IF returning[c] = {core} THEN "idle" ELSE "dealloc")

\* NORMAL cores were never taken out of the pool.
SkipNormal(c) ==
    /\ pc(c) = "dealloc"
    /\ \E core \in returning[c] :
         core.affinity_type = "NORMAL" /\ Returned(c, core)
    /\ UNCHANGED <<pools, mutex_, held>>

\* emplace_back() without the mutex: it reads the vector ...
ReadPool(c) ==
    /\ pc(c) = "dealloc"
    /\ \E core \in returning[c] : core.affinity_type # "NORMAL"
    /\ ReadPools(c, "push")
    /\ UNCHANGED <<pools, mutex_, held, returning>>

\* ... and stores it with the core appended.
Store(c, core) ==
    \/ /\ core.affinity_type = "PINNED"
       /\ pinned_core_pool' = Append(call[c].pinned, core.cpu_id)
       /\ UNCHANGED isol_core_pool
    \/ /\ core.affinity_type = "ISOLATED"
       /\ isol_core_pool' = Append(call[c].isol, core.cpu_id)
       /\ UNCHANGED pinned_core_pool

Push(c) ==
    /\ pc(c) = "push"
    /\ \E core \in returning[c] : Store(c, core) /\ Returned(c, core)
    /\ UNCHANGED <<mutex_, held>>

-----------------------------------------------------------------------------

CallerNext(c) ==
    \/ CallAllocate(c) \/ AllocateThrows(c) \/ LockAndCopy(c)
    \/ AllocateIsolatedThrows(c) \/ FallBackToPinned(c) \/ Commit(c)
    \/ CallDeallocate(c) \/ SkipNormal(c) \/ ReadPool(c) \/ Push(c)

Next == \E c \in Callers : CallerNext(c)

Spec == Init /\ [][Next]_vars

-----------------------------------------------------------------------------
(* Properties *)

\* Caller c has cpu x, of the pool of this affinity type, until it returns it.
Reserves(c, x, type) ==
    [cpu_id |-> x, affinity_type |-> type] \in held[c] \union returning[c]

Reservable == {"PINNED", "ISOLATED"}

ReservedCpus(type) == {x \in Cpus : \E c \in Callers : Reserves(c, x, type)}

OneHolder ==
    \A c, d \in Callers, x \in Cpus, type \in Reservable :
        Reserves(c, x, type) /\ Reserves(d, x, type) => c = d

\* allocate() and deallocate() (CPUManager.cpp:37-149) keep the partition of
\* the machine's cpus: each is free exactly once, in the pool parse_cpus() put
\* it in, or reserved by one caller.  "Retreives a cpu to the correct cpu pool"
\* (CPUManager.h:30).
CoresConserved ==
    /\ Partition(pinned_core_pool, ReservedCpus("PINNED"), Members(PinnedCores))
    /\ Partition(isol_core_pool, ReservedCpus("ISOLATED"), Members(IsolatedCores))
    /\ OneHolder

\* The copies that allocate() writes back at CPUManager.cpp:101-102, and the
\* vector that an emplace_back() extends, are never stale when they are stored.
FreshViews ==
    \A c \in Callers : pc(c) \in {"locked", "push"} =>
        call[c].pinned = pinned_core_pool /\ call[c].isol = isol_core_pool

\* The mutex is held exactly by the caller between LockAndCopy and its unlock.
LockOwner ==
    \A c \in Callers : pc(c) \in {"locked", "relock"} <=> mutex_ = c

\* The cpus counted at CPUManager.cpp:47 are still there when they are taken.
SufficesWhenTaken ==
    \A c \in Callers : pc(c) = "locked" =>
        Enough(call[c].policy, pinned_core_pool, isol_core_pool)

\* Callers that serialise deallocate() are alone in it.
DeallocatesAlone ==
    \A c, d \in Callers : Deallocating(c) /\ c # d => pc(d) = "idle"

\* deallocate() has cores to return until it returns, and gave up all others.
ReturnsWhatItHeld ==
    \A c \in Callers :
        IF Deallocating(c) THEN held[c] = {} ELSE returning[c] = {}

\* The inductive invariant of the serialised manager: CoresConserved does not
\* follow from itself, it needs that a pool is only replaced by a fresh view
\* of it, hence the lock and the callers' discipline.
IInv ==
    /\ TypeOK
    /\ CoresConserved
    /\ FreshViews
    /\ SufficesWhenTaken
    /\ LockOwner
    /\ DeallocatesAlone
    /\ ReturnsWhatItHeld

\* No thread waits for the mutex it holds: a non-strict ISOLATED policy is
\* served from the pinned pool ("An isolated core was requested, but a pinned
\* one was allocated instead.", CPUManager.cpp:86-88).
NoSelfDeadlock == \A c \in Callers : pc(c) # "relock"

Holders(x) == {c \in Callers : \E type \in Reservable : Reserves(c, x, type)}

HolderOf(x) == IF Holders(x) = {} THEN NoOne ELSE CHOOSE c \in Holders(x) : TRUE

\* The allocator of CoreAllocator: a cpu belongs to who reserved it, and a
\* caller waits from the entry of allocate() to its return.
Abstract == INSTANCE CoreAllocator WITH
    PinnedCpus <- Members(PinnedCores),
    IsolatedCpus <- Members(IsolatedCores),
    Free <- NoOne,
    NoRequest <- NoOne,
    owner <- [x \in Cpus |-> HolderOf(x)],
    request <- [c \in Callers |->
                  IF pc(c) \in {"lock", "locked", "relock"} THEN call[c].policy ELSE NoOne]

\* Every call is answered as CoreAllocator promises: with free cpus of the
\* kind and number asked for, or with a refusal the free cpus justify.
ImplementsCoreAllocator == Abstract!AbsSpec
=============================================================================
