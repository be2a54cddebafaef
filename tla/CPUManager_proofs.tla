------------------------- MODULE CPUManager_proofs -------------------------
(***************************************************************************)
(* Proofs about CPUManager: for any number of callers, any machine and any *)
(* sizes of requests, callers that keep deallocate() apart from the other  *)
(* calls lose no cpu and share none, and the manager implements            *)
(* CoreAllocator: steps of many threads look like calls that are answered  *)
(* in one instant.  And about Startup, for any number of threads and any   *)
(* machine: there is one manager if first calls do not overlap.            *)
(***************************************************************************)
EXTENDS CPUManager, Startup, SequenceTheorems, FiniteSetTheorems, TLAPS

(* Lemmas on the pools *)

\* A pool is a sequence over any set that contains its members.
LEMMA SeqOfMembers ==
    ASSUME NEW S, NEW T, NEW pool \in Seq(S), Members(pool) \subseteq T
    PROVE  pool \in Seq(T)
<1>1. /\ Len(pool) \in Nat
      /\ pool = [i \in 1..Len(pool) |-> pool[i]]
  OBVIOUS
<1>2. \A i \in 1..Len(pool) : pool[i] \in T
  BY DEF Members
<1>3. pool \in [1..Len(pool) -> T]
  BY <1>1, <1>2
<1> QED
  BY <1>1, <1>3, SeqDef

\* n rounds of back() and pop_back() split a pool in what is taken and what is left.
LEMMA WithoutLastSplits ==
    ASSUME NEW S, NEW pool \in Seq(S), NEW n \in Nat, n <= Len(pool),
           Distinct(pool)
    PROVE  /\ WithoutLast(pool, n) \in Seq(S)
           /\ Distinct(WithoutLast(pool, n))
           /\ Members(WithoutLast(pool, n)) = Members(pool) \ LastCpus(pool, n)
           /\ LastCpus(pool, n) \subseteq Members(pool)
<1> DEFINE m == Len(pool) - n
           left == WithoutLast(pool, n)
<1>1. /\ m \in 0..Len(pool)
      /\ left \in Seq(S)
      /\ Len(left) = m
      /\ \A i \in 1..m : left[i] = pool[i]
  BY DEF WithoutLast
<1>2. Distinct(left)
  BY <1>1 DEF Distinct
<1>3. Members(left) = Members(pool) \ LastCpus(pool, n)
  <2>1. ASSUME NEW x \in Members(left)
        PROVE  x \in Members(pool) \ LastCpus(pool, n)
    <3>1. PICK i \in 1..m : x = pool[i]
      BY <1>1 DEF Members
    <3>2. \A j \in (m + 1)..Len(pool) : pool[j] # pool[i]
      BY <1>1 DEF Distinct
    <3> QED
      BY <1>1, <3>1, <3>2 DEF Members, LastCpus
  <2>2. ASSUME NEW x \in Members(pool) \ LastCpus(pool, n)
        PROVE  x \in Members(left)
    <3>1. PICK i \in 1..Len(pool) : x = pool[i]
      BY DEF Members
    <3>2. i \notin (m + 1)..Len(pool)
      BY <3>1 DEF LastCpus
    <3> QED
      BY <1>1, <3>1, <3>2 DEF Members
  <2> QED
    BY <2>1, <2>2
<1>4. LastCpus(pool, n) \subseteq Members(pool)
  BY <1>1 DEF LastCpus, Members
<1> QED
  BY <1>1, <1>2, <1>3, <1>4

\* What an allocation does to the partition of a pool.
LEMMA PartitionGrant ==
    ASSUME NEW S, NEW pool \in Seq(S), NEW n \in Nat, n <= Len(pool),
           NEW reserved, NEW all, Partition(pool, reserved, all)
    PROVE  Partition(WithoutLast(pool, n), reserved \union LastCpus(pool, n), all)
BY WithoutLastSplits DEF Partition

\* What emplace_back() makes of a pool that lacks the cpu.
LEMMA AppendMember ==
    ASSUME NEW S, NEW pool \in Seq(S), NEW x \in S, Distinct(pool),
           x \notin Members(pool)
    PROVE  /\ Append(pool, x) \in Seq(S)
           /\ Distinct(Append(pool, x))
           /\ Members(Append(pool, x)) = Members(pool) \union {x}
<1> DEFINE longer == Append(pool, x)
<1>1. /\ longer \in Seq(S)
      /\ Len(longer) = Len(pool) + 1
      /\ \A i \in 1..Len(pool) : longer[i] = pool[i]
      /\ longer[Len(pool) + 1] = x
  OBVIOUS
<1>2. 1..Len(longer) = (1..Len(pool)) \union {Len(pool) + 1}
  BY <1>1
<1>3. \A i \in 1..Len(pool) : longer[i] # x
  BY <1>1 DEF Members
<1>4. Distinct(longer)
  BY <1>1, <1>2, <1>3 DEF Distinct
<1>5. Members(longer) = Members(pool) \union {x}
  BY <1>1, <1>2 DEF Members
<1> QED
  BY <1>1, <1>4, <1>5

\* What the return of a reserved cpu does to the partition of a pool.
LEMMA PartitionReturn ==
    ASSUME NEW S, NEW pool \in Seq(S), NEW x \in S,
           NEW reserved, x \in reserved, NEW all, Partition(pool, reserved, all)
    PROVE  Partition(Append(pool, x), reserved \ {x}, all)
<1>1. x \notin Members(pool)
  BY DEF Partition
<1> QED
  BY <1>1, AppendMember DEF Partition

-----------------------------------------------------------------------------
(* The inductive invariant *)

\* An allocation grants distinct cpus of one pool and leaves the other alone.
LEMMA GrantedTypes ==
    ASSUME NEW p \in Policies, NEW pinned \in Seq(Cpus), NEW isol \in Seq(Cpus),
           Distinct(pinned), Distinct(isol),
           Enough(p, pinned, isol), ~LacksIsolated(p, isol)
    PROVE  /\ Granted(p, pinned, isol) \subseteq Core(Cpus)
           /\ PinnedLeft(p, pinned) \in Seq(Cpus)
           /\ IsolLeft(p, isol) \in Seq(Cpus)
<1> USE CallersAssumption DEF Policies, ThreadPolicy, AffinityType
<1>1. CASE p.affinity_type = "NORMAL"
  BY <1>1 DEF Enough, Granted, Chosen, CoresOf, FirstCpus, Core, PinnedLeft, IsolLeft
<1>2. CASE p.affinity_type = "PINNED"
  <2>1. p.cores <= Len(pinned)
    BY <1>2 DEF Enough
  <2>2. /\ WithoutLast(pinned, p.cores) \in Seq(Cpus)
        /\ LastCpus(pinned, p.cores) \subseteq Cpus
    BY <2>1, WithoutLastSplits DEF Members
  <2> QED
    BY <1>2, <2>2 DEF Granted, Chosen, CoresOf, Core, PinnedLeft, IsolLeft
<1>3. CASE p.affinity_type = "ISOLATED"
  <2>1. p.cores <= Len(isol)
    BY <1>3 DEF LacksIsolated
  <2>2. /\ WithoutLast(isol, p.cores) \in Seq(Cpus)
        /\ LastCpus(isol, p.cores) \subseteq Cpus
    BY <2>1, WithoutLastSplits DEF Members
  <2> QED
    BY <1>3, <2>2 DEF Granted, Chosen, CoresOf, Core, PinnedLeft, IsolLeft
<1> QED
  BY <1>1, <1>2, <1>3

\* The pools parse_cpus() leaves are partitioned: nothing is reserved yet.
LEMMA InitIInv == Init => IInv
<1> SUFFICES ASSUME Init PROVE IInv
  OBVIOUS
<1> USE PoolsAssumption, CallersAssumption DEF Init
<1>1. TypeOK
  <2>1. /\ PinnedCores \in Seq(Cpus)
        /\ IsolatedCores \in Seq(Cpus)
    BY SeqOfMembers DEF Cpus
  <2>2. At("idle") \in Call
    BY DEF At, Call, NoPolicy, Policies, ThreadPolicy, AffinityType
  <2> QED
    BY <2>1, <2>2 DEF TypeOK
<1>2. CoresConserved
  BY DEF CoresConserved, Partition, ReservedCpus, Reserves, OneHolder
<1>3. \A c \in Callers : pc(c) = "idle"
  BY DEF pc, At
<1>4. /\ FreshViews /\ SufficesWhenTaken /\ LockOwner
      /\ DeallocatesAlone /\ ReturnsWhatItHeld
  BY <1>3 DEF FreshViews, SufficesWhenTaken, LockOwner, DeallocatesAlone, ReturnsWhatItHeld, Deallocating
<1> QED
  BY <1>1, <1>2, <1>4 DEF IInv

\* Steps that leave pools and cores alone conserve the cores.
LEMMA CoresUntouched ==
    CoresConserved /\ UNCHANGED <<pools, held, returning>> => CoresConserved'
BY DEF CoresConserved, Partition, ReservedCpus, Reserves, OneHolder, pools

\* CPUManager.cpp:101-110: what leaves the pools is reserved by the caller.
LEMMA CommitConserves ==
    ASSUME IInv, NEW c \in Callers, Commit(c)
    PROVE  CoresConserved'
<1> DEFINE p == call[c].policy
           n == p.cores
           new == Granted(p, pinned_core_pool, isol_core_pool)
<1>1. /\ pc(c) = "locked"
      /\ call[c].pinned = pinned_core_pool
      /\ call[c].isol = isol_core_pool
      /\ Enough(p, pinned_core_pool, isol_core_pool)
      /\ ~LacksIsolated(p, isol_core_pool)
  BY DEF Commit, IInv, FreshViews, SufficesWhenTaken
<1>2. /\ pinned_core_pool \in Seq(Cpus)
      /\ isol_core_pool \in Seq(Cpus)
      /\ p \in Policies
      /\ n \in Nat
      /\ p.affinity_type \in AffinityType
  BY CallersAssumption DEF IInv, TypeOK, Call, Policies, ThreadPolicy
<1>3. /\ pinned_core_pool' = PinnedLeft(p, pinned_core_pool)
      /\ isol_core_pool' = IsolLeft(p, isol_core_pool)
      /\ held' = [held EXCEPT ![c] = @ \union new]
      /\ returning' = returning
  BY <1>1 DEF Commit
<1>4. \A d \in Callers, x \in Cpus, type \in Reservable :
        Reserves(d, x, type)' <=>
          Reserves(d, x, type) \/ (d = c /\ [cpu_id |-> x, affinity_type |-> type] \in new)
  BY <1>3 DEF Reserves, IInv, TypeOK
<1>5. /\ CoresConserved
      /\ Distinct(pinned_core_pool)
      /\ Distinct(isol_core_pool)
  BY DEF IInv, CoresConserved, Partition
<1>6. CASE p.affinity_type = "NORMAL"
  <2>1. \A x \in Cpus, type \in Reservable :
          [cpu_id |-> x, affinity_type |-> type] \notin new
    BY <1>6 DEF Granted, CoresOf, Reservable
  <2>2. /\ pinned_core_pool' = pinned_core_pool
        /\ isol_core_pool' = isol_core_pool
    BY <1>3, <1>6 DEF PinnedLeft, IsolLeft
  <2>3. \A type \in Reservable : ReservedCpus(type)' = ReservedCpus(type)
    BY <1>4, <2>1 DEF ReservedCpus
  <2>4. OneHolder'
    BY <1>4, <1>5, <2>1 DEF OneHolder, CoresConserved
  <2> QED
    BY <1>5, <2>2, <2>3, <2>4 DEF CoresConserved, Reservable
<1>7. CASE p.affinity_type = "PINNED"
  <2> DEFINE taken == LastCpus(pinned_core_pool, n)
  <2>1. /\ n <= Len(pinned_core_pool)
        /\ pinned_core_pool' = WithoutLast(pinned_core_pool, n)
        /\ isol_core_pool' = isol_core_pool
    BY <1>1, <1>3, <1>7 DEF Enough, PinnedLeft, IsolLeft
  <2>2. \A x \in Cpus, type \in Reservable :
          [cpu_id |-> x, affinity_type |-> type] \in new <=>
            x \in taken /\ type = "PINNED"
    BY <1>7 DEF Granted, Chosen, CoresOf
  <2>3. taken \subseteq Members(pinned_core_pool) /\ taken \subseteq Cpus
    BY <1>2, <1>5, <2>1, WithoutLastSplits DEF Members
  <2>4. /\ ReservedCpus("PINNED")' = ReservedCpus("PINNED") \union taken
        /\ ReservedCpus("ISOLATED")' = ReservedCpus("ISOLATED")
    BY <1>4, <2>2, <2>3 DEF ReservedCpus, Reservable
  <2>5. OneHolder'
    <3>1. \A d \in Callers, x \in Cpus, type \in Reservable :
            x \in taken /\ type = "PINNED" => ~Reserves(d, x, type)
      BY <1>5, <2>3 DEF CoresConserved, Partition, ReservedCpus
    <3> SUFFICES ASSUME NEW d \in Callers, NEW e \in Callers,
                        NEW x \in Cpus, NEW type \in Reservable,
                        Reserves(d, x, type)', Reserves(e, x, type)'
                 PROVE  d = e
      BY DEF OneHolder
    <3>2. CASE x \in taken /\ type = "PINNED"
      BY <1>4, <3>1, <3>2
    <3>3. CASE ~(x \in taken /\ type = "PINNED")
      BY <1>4, <1>5, <2>2, <3>3 DEF OneHolder, CoresConserved
    <3> QED
      BY <3>2, <3>3
  <2>6. Partition(pinned_core_pool, ReservedCpus("PINNED"), Members(PinnedCores))'
    BY <1>2, <1>5, <2>1, <2>4, PartitionGrant DEF CoresConserved
  <2> QED
    BY <1>5, <2>1, <2>4, <2>5, <2>6 DEF CoresConserved
<1>8. CASE p.affinity_type = "ISOLATED"
  <2> DEFINE taken == LastCpus(isol_core_pool, n)
  <2>1. /\ n <= Len(isol_core_pool)
        /\ isol_core_pool' = WithoutLast(isol_core_pool, n)
        /\ pinned_core_pool' = pinned_core_pool
    BY <1>1, <1>2, <1>3, <1>8 DEF LacksIsolated, PinnedLeft, IsolLeft
  <2>2. \A x \in Cpus, type \in Reservable :
          [cpu_id |-> x, affinity_type |-> type] \in new <=>
            x \in taken /\ type = "ISOLATED"
    BY <1>8 DEF Granted, Chosen, CoresOf
  <2>3. taken \subseteq Members(isol_core_pool) /\ taken \subseteq Cpus
    BY <1>2, <1>5, <2>1, WithoutLastSplits DEF Members
  <2>4. /\ ReservedCpus("ISOLATED")' = ReservedCpus("ISOLATED") \union taken
        /\ ReservedCpus("PINNED")' = ReservedCpus("PINNED")
    BY <1>4, <2>2, <2>3 DEF ReservedCpus, Reservable
  <2>5. OneHolder'
    <3>1. \A d \in Callers, x \in Cpus, type \in Reservable :
            x \in taken /\ type = "ISOLATED" => ~Reserves(d, x, type)
      BY <1>5, <2>3 DEF CoresConserved, Partition, ReservedCpus
    <3> SUFFICES ASSUME NEW d \in Callers, NEW e \in Callers,
                        NEW x \in Cpus, NEW type \in Reservable,
                        Reserves(d, x, type)', Reserves(e, x, type)'
                 PROVE  d = e
      BY DEF OneHolder
    <3>2. CASE x \in taken /\ type = "ISOLATED"
      BY <1>4, <3>1, <3>2
    <3>3. CASE ~(x \in taken /\ type = "ISOLATED")
      BY <1>4, <1>5, <2>2, <3>3 DEF OneHolder, CoresConserved
    <3> QED
      BY <3>2, <3>3
  <2>6. Partition(isol_core_pool, ReservedCpus("ISOLATED"), Members(IsolatedCores))'
    BY <1>2, <1>5, <2>1, <2>4, PartitionGrant DEF CoresConserved
  <2> QED
    BY <1>5, <2>1, <2>4, <2>5, <2>6 DEF CoresConserved
<1> QED
  BY <1>2, <1>6, <1>7, <1>8 DEF AffinityType

\* CPUManager.cpp:113-143: a returned core is free again, and nobody's.
LEMMA PushConserves ==
    ASSUME IInv, NEW c \in Callers, Push(c)
    PROVE  CoresConserved'
<1>1. PICK core \in returning[c] : Store(c, core) /\ Returned(c, core)
  BY DEF Push
<1> DEFINE y == core.cpu_id
           t == core.affinity_type
<1>2. /\ pinned_core_pool \in Seq(Cpus)
      /\ isol_core_pool \in Seq(Cpus)
      /\ core = [cpu_id |-> y, affinity_type |-> t]
      /\ y \in Cpus
      /\ t \in Reservable
  BY <1>1 DEF IInv, TypeOK, Core, Store, Reservable
<1>3. /\ call[c].pinned = pinned_core_pool
      /\ call[c].isol = isol_core_pool
  BY DEF Push, IInv, FreshViews
<1>4. /\ held' = held
      /\ returning' = [returning EXCEPT ![c] = @ \ {core}]
      /\ held[c] = {}
  BY <1>1 DEF Push, Returned, IInv, ReturnsWhatItHeld, Deallocating
<1>5. \A d \in Callers, x \in Cpus, type \in Reservable :
        Reserves(d, x, type)' <=>
          Reserves(d, x, type) /\ ~(d = c /\ x = y /\ type = t)
  BY <1>2, <1>4 DEF Reserves, IInv, TypeOK
<1>6. CoresConserved /\ OneHolder /\ Reserves(c, y, t)
  BY <1>1, <1>2 DEF IInv, CoresConserved, Reserves
<1>7. \A d \in Callers, x \in Cpus, type \in Reservable :
        Reserves(d, x, type)' <=>
          Reserves(d, x, type) /\ ~(x = y /\ type = t)
  BY <1>2, <1>5, <1>6 DEF OneHolder
<1>8. OneHolder'
  BY <1>6, <1>7 DEF OneHolder
<1>9. CASE t = "PINNED"
  <2>1. /\ pinned_core_pool' = Append(pinned_core_pool, y)
        /\ isol_core_pool' = isol_core_pool
    BY <1>1, <1>3, <1>9 DEF Store
  <2>2. /\ ReservedCpus("PINNED")' = ReservedCpus("PINNED") \ {y}
        /\ ReservedCpus("ISOLATED")' = ReservedCpus("ISOLATED")
        /\ y \in ReservedCpus("PINNED")
    BY <1>2, <1>6, <1>7, <1>9 DEF ReservedCpus, Reservable
  <2>3. Partition(pinned_core_pool, ReservedCpus("PINNED"), Members(PinnedCores))'
    BY <1>2, <1>6, <2>1, <2>2, PartitionReturn DEF CoresConserved
  <2> QED
    BY <1>6, <1>8, <2>1, <2>2, <2>3 DEF CoresConserved
<1>10. CASE t = "ISOLATED"
  <2>1. /\ isol_core_pool' = Append(isol_core_pool, y)
        /\ pinned_core_pool' = pinned_core_pool
    BY <1>1, <1>3, <1>10 DEF Store
  <2>2. /\ ReservedCpus("ISOLATED")' = ReservedCpus("ISOLATED") \ {y}
        /\ ReservedCpus("PINNED")' = ReservedCpus("PINNED")
        /\ y \in ReservedCpus("ISOLATED")
    BY <1>2, <1>6, <1>7, <1>10 DEF ReservedCpus, Reservable
  <2>3. Partition(isol_core_pool, ReservedCpus("ISOLATED"), Members(IsolatedCores))'
    BY <1>2, <1>6, <2>1, <2>2, PartitionReturn DEF CoresConserved
  <2> QED
    BY <1>6, <1>8, <2>1, <2>2, <2>3 DEF CoresConserved
<1> QED
  BY <1>2, <1>9, <1>10 DEF Reservable

\* A NORMAL core leaves the list of those to return; no reservable one does.
LEMMA SkipConserves ==
    ASSUME IInv, NEW c \in Callers, SkipNormal(c)
    PROVE  CoresConserved'
<1>1. PICK core \in returning[c] :
        core.affinity_type = "NORMAL" /\ Returned(c, core)
  BY DEF SkipNormal
<1>2. /\ UNCHANGED <<pools, held>>
      /\ returning' = [returning EXCEPT ![c] = @ \ {core}]
  BY <1>1 DEF SkipNormal, Returned
<1>3. \A d \in Callers, x \in Cpus, type \in Reservable :
        Reserves(d, x, type)' <=> Reserves(d, x, type)
  BY <1>1, <1>2 DEF Reserves, Reservable, IInv, TypeOK
<1>4. \A type \in Reservable : ReservedCpus(type)' = ReservedCpus(type)
  BY <1>3 DEF ReservedCpus
<1> QED
  BY <1>2, <1>3, <1>4 DEF IInv, CoresConserved, OneHolder, Reservable, pools

\* The cores to return are the ones that were held.
LEMMA CallDeallocateConserves ==
    ASSUME IInv, NEW c \in Callers, CallDeallocate(c)
    PROVE  CoresConserved'
<1>1. /\ UNCHANGED pools
      /\ held' = [held EXCEPT ![c] = {}]
      /\ returning' = [returning EXCEPT ![c] = held[c]]
      /\ returning[c] = {}
  BY DEF CallDeallocate, IInv, ReturnsWhatItHeld, Deallocating
<1>2. \A d \in Callers, x \in Cpus, type \in Reservable :
        Reserves(d, x, type)' <=> Reserves(d, x, type)
  BY <1>1 DEF Reserves, IInv, TypeOK
<1>3. \A type \in Reservable : ReservedCpus(type)' = ReservedCpus(type)
  BY <1>2 DEF ReservedCpus
<1> QED
  BY <1>1, <1>2, <1>3 DEF IInv, CoresConserved, OneHolder, Reservable, pools

-----------------------------------------------------------------------------

\* The parts of the invariant that only speak of who is where in its call.
Protocol ==
    /\ FreshViews
    /\ SufficesWhenTaken
    /\ LockOwner
    /\ DeallocatesAlone
    /\ ReturnsWhatItHeld

\* Every step of every call keeps the invariant of serialised callers.
LEMMA NextIInv ==
    ASSUME Serialised, IInv, [Next]_vars
    PROVE  IInv'
<1> USE DEF IInv
<1> DEFINE AtIdle == At("idle")
<1>0. \A label \in {"idle", "dealloc"} : At(label) \in Call /\ At(label).pc = label
  BY CallersAssumption DEF At, Call, NoPolicy, Policies, ThreadPolicy, AffinityType
<1> SUFFICES ASSUME NEW c \in Callers, CallerNext(c)
             PROVE  IInv'
  <2>1. CASE UNCHANGED vars
    <3>1. TypeOK' /\ Protocol'
      BY <2>1 DEF vars, pools, TypeOK, Protocol, FreshViews, SufficesWhenTaken,
        LockOwner, DeallocatesAlone, ReturnsWhatItHeld, Deallocating, pc
    <3>2. CoresConserved'
      BY <2>1, CoresUntouched DEF vars
    <3> QED
      BY <3>1, <3>2 DEF Protocol
  <2> QED
    BY <2>1 DEF Next
<1>1. CASE CallAllocate(c)
  <2>1. TypeOK'
    <3>1. PICK p \in Policies :
            call' = [call EXCEPT ![c] = [@ EXCEPT !.pc = "lock", !.policy = p]]
      BY <1>1 DEF CallAllocate
    <3>2. call' \in [Callers -> Call]
      BY <3>1 DEF TypeOK, Call
    <3> QED
      BY <1>1, <3>2 DEF CallAllocate, TypeOK, pools
  <2>2. Protocol'
    BY <1>0, <1>1, CallersAssumption DEF CallAllocate, pools, Protocol, FreshViews, SufficesWhenTaken, LockOwner,
      DeallocatesAlone, ReturnsWhatItHeld, Deallocating, pc, TypeOK
  <2>3. CoresConserved'
    BY <1>1, CoresUntouched DEF CallAllocate
  <2> QED
    BY <2>1, <2>2, <2>3 DEF Protocol
<1>2. CASE AllocateThrows(c)
  <2>1. TypeOK'
    BY <1>0, <1>2 DEF AllocateThrows, Proceed, TypeOK, Call, pools
  <2>2. Protocol'
    BY <1>0, <1>2, CallersAssumption DEF AllocateThrows, Proceed, pools, Protocol, FreshViews, SufficesWhenTaken, LockOwner,
      DeallocatesAlone, ReturnsWhatItHeld, Deallocating, pc, TypeOK
  <2>3. CoresConserved'
    BY <1>2, CoresUntouched DEF AllocateThrows
  <2> QED
    BY <2>1, <2>2, <2>3 DEF Protocol
<1>3. CASE LockAndCopy(c)
  <2>1. TypeOK'
    BY <1>0, <1>3 DEF LockAndCopy, ReadPools, TypeOK, Call, pools
  <2>2. Protocol'
    BY <1>0, <1>3, CallersAssumption DEF LockAndCopy, ReadPools, pools, Protocol, FreshViews, SufficesWhenTaken, LockOwner,
      DeallocatesAlone, ReturnsWhatItHeld, Deallocating, pc, TypeOK
  <2>3. CoresConserved'
    BY <1>3, CoresUntouched DEF LockAndCopy
  <2> QED
    BY <2>1, <2>2, <2>3 DEF Protocol
<1>4. CASE AllocateIsolatedThrows(c)
  <2>1. TypeOK'
    BY <1>0, <1>4 DEF AllocateIsolatedThrows, Proceed, TypeOK, Call, pools
  <2>2. Protocol'
    BY <1>0, <1>4, CallersAssumption DEF AllocateIsolatedThrows, Proceed, pools, Protocol, FreshViews, SufficesWhenTaken, LockOwner,
      DeallocatesAlone, ReturnsWhatItHeld, Deallocating, pc, TypeOK
  <2>3. CoresConserved'
    BY <1>4, CoresUntouched DEF AllocateIsolatedThrows
  <2> QED
    BY <2>1, <2>2, <2>3 DEF Protocol
<1>5. CASE FallBackToPinned(c)
  <2>1. TypeOK'
    BY <1>0, <1>5 DEF FallBackToPinned, TypeOK, Call, pools
  <2>2. Protocol'
    BY <1>0, <1>5, CallersAssumption DEF FallBackToPinned, pools, Protocol, FreshViews, SufficesWhenTaken, LockOwner,
      DeallocatesAlone, ReturnsWhatItHeld, Deallocating, pc, TypeOK
  <2>3. CoresConserved'
    BY <1>5, CoresUntouched DEF FallBackToPinned
  <2> QED
    BY <2>1, <2>2, <2>3 DEF Protocol
<1>6. CASE Commit(c)
  <2>1. TypeOK'
    <3>1. /\ call[c].policy \in Policies
          /\ call[c].pinned = pinned_core_pool /\ Distinct(pinned_core_pool)
          /\ call[c].isol = isol_core_pool /\ Distinct(isol_core_pool)
          /\ Enough(call[c].policy, pinned_core_pool, isol_core_pool)
      BY <1>6 DEF Commit, FreshViews, SufficesWhenTaken, TypeOK, Call,
        CoresConserved, Partition
    <3>2. /\ pinned_core_pool' \in Seq(Cpus)
          /\ isol_core_pool' \in Seq(Cpus)
          /\ held' \in [Callers -> SUBSET Core(Cpus)]
      BY <1>6, <3>1, GrantedTypes DEF Commit, TypeOK
    <3> QED
      BY <1>0, <1>6, <3>2 DEF Commit, Proceed, TypeOK
  <2>2. Protocol'
    BY <1>0, <1>6, CallersAssumption DEF Commit, Proceed, pools, Protocol, FreshViews, SufficesWhenTaken, LockOwner,
      DeallocatesAlone, ReturnsWhatItHeld, Deallocating, pc, TypeOK
  <2>3. CoresConserved'
    BY <1>6, CommitConserves DEF Commit
  <2> QED
    BY <2>1, <2>2, <2>3 DEF Protocol
<1>7. CASE CallDeallocate(c)
  <2>1. TypeOK'
    BY <1>0, <1>7 DEF CallDeallocate, Proceed, TypeOK, Call, pools
  <2>2. Protocol'
    BY <1>0, <1>7, CallersAssumption DEF CallDeallocate, Proceed, pools, Protocol, FreshViews, SufficesWhenTaken, LockOwner,
      DeallocatesAlone, ReturnsWhatItHeld, Deallocating, pc, TypeOK
  <2>3. CoresConserved'
    BY <1>7, CallDeallocateConserves DEF CallDeallocate
  <2> QED
    BY <2>1, <2>2, <2>3 DEF Protocol
<1>8. CASE SkipNormal(c)
  <2>1. TypeOK'
    BY <1>0, <1>8 DEF SkipNormal, Returned, Proceed, TypeOK, Call, pools
  <2>2. Protocol'
    BY <1>0, <1>8, CallersAssumption DEF SkipNormal, Returned, Proceed, pools, Protocol, FreshViews, SufficesWhenTaken, LockOwner,
      DeallocatesAlone, ReturnsWhatItHeld, Deallocating, pc, TypeOK
  <2>3. CoresConserved'
    BY <1>8, SkipConserves DEF SkipNormal
  <2> QED
    BY <2>1, <2>2, <2>3 DEF Protocol
<1>9. CASE ReadPool(c)
  <2>1. TypeOK'
    BY <1>0, <1>9 DEF ReadPool, ReadPools, TypeOK, Call, pools
  <2>2. Protocol'
    BY <1>0, <1>9, CallersAssumption DEF ReadPool, ReadPools, pools, Protocol, FreshViews, SufficesWhenTaken, LockOwner,
      DeallocatesAlone, ReturnsWhatItHeld, Deallocating, pc, TypeOK
  <2>3. CoresConserved'
    BY <1>9, CoresUntouched DEF ReadPool
  <2> QED
    BY <2>1, <2>2, <2>3 DEF Protocol
<1>10. CASE Push(c)
  <2>1. TypeOK'
    <3>1. PICK core \in returning[c] : Store(c, core) /\ Returned(c, core)
      BY <1>10 DEF Push
    <3> DEFINE y == core.cpu_id
    <3>2. /\ call[c].pinned = pinned_core_pool
          /\ call[c].isol = isol_core_pool
      BY <1>10 DEF Push, FreshViews
    <3>3. /\ y \in Cpus
          /\ pinned_core_pool \in Seq(Cpus) /\ isol_core_pool \in Seq(Cpus)
      BY <3>1 DEF TypeOK, Core
    <3>4. /\ Append(pinned_core_pool, y) \in Seq(Cpus)
          /\ Append(isol_core_pool, y) \in Seq(Cpus)
      BY <3>3
    <3>5. pinned_core_pool' \in Seq(Cpus) /\ isol_core_pool' \in Seq(Cpus)
      BY <3>1, <3>2, <3>3, <3>4 DEF Store
    <3> QED
      BY <1>0, <1>10, <3>1, <3>5 DEF Push, Returned, Proceed, TypeOK
  <2>2. Protocol'
    BY <1>0, <1>10, CallersAssumption DEF Push, Returned, Proceed, Store, pools, Protocol, FreshViews, SufficesWhenTaken, LockOwner,
      DeallocatesAlone, ReturnsWhatItHeld, Deallocating, pc, TypeOK
  <2>3. CoresConserved'
    BY <1>10, PushConserves DEF Push
  <2> QED
    BY <2>1, <2>2, <2>3 DEF Protocol
<1> QED
  BY <1>1, <1>2, <1>3, <1>4, <1>5, <1>6, <1>7, <1>8, <1>9, <1>10 DEF CallerNext

\* The inductive invariant holds of every behaviour of serialised callers.
THEOREM InvariantIInv ==
    ASSUME Serialised
    PROVE  Spec => []IInv
<1>1. Init => IInv
  BY InitIInv
<1>2. IInv /\ [Next]_vars => IInv'
  BY NextIInv
<1> QED
  BY <1>1, <1>2, PTL DEF Spec

\* TypeOK: the pools hold cpus of the machine, in every reachable state.
THEOREM TypeCorrect ==
    ASSUME Serialised
    PROVE  Spec => []TypeOK
<1>1. IInv => TypeOK
  BY DEF IInv
<1> QED
  BY <1>1, InvariantIInv, PTL

\* allocate() and deallocate() never lose a cpu, nor give it to two callers, as
\* long as no deallocate() overlaps another call.
THEOREM CoresAreConserved ==
    ASSUME Serialised
    PROVE  Spec => []CoresConserved
<1>1. IInv => CoresConserved
  BY DEF IInv
<1> QED
  BY <1>1, InvariantIInv, PTL

\* The copies allocate() writes back are never stale.
THEOREM ViewsAreFresh ==
    ASSUME Serialised
    PROVE  Spec => []FreshViews
<1>1. IInv => FreshViews
  BY DEF IInv
<1> QED
  BY <1>1, InvariantIInv, PTL

-----------------------------------------------------------------------------
(* CPUManager implements CoreAllocator *)

(* How many cpus there are at some positions of a pool *)

CpusAt(pool, a, b) == {pool[i] : i \in a..b}

\* A pool has no cpu twice, so there are as many cpus as positions.
LEMMA CpusAtPositions ==
    ASSUME NEW S, NEW pool \in Seq(S), Distinct(pool),
           NEW a \in Nat \ {0}, NEW b \in Nat, b <= Len(pool)
    PROVE  /\ IsFiniteSet(CpusAt(pool, a, b))
           /\ Cardinality(CpusAt(pool, a, b)) = IF a > b THEN 0 ELSE b - a + 1
<1> DEFINE cpus == CpusAt(pool, a, b)
           at == [i \in a..b |-> pool[i]]
<1>1. at \in Surjection(a..b, cpus)
  BY DEF Surjection, CpusAt
<1>2. at \in Injection(a..b, cpus)
  <2>1. a..b \subseteq 1..Len(pool)
    OBVIOUS
  <2>2. \A i, j \in a..b : pool[i] = pool[j] => i = j
    BY <2>1 DEF Distinct
  <2> QED BY <2>2 DEF Injection, IsInjective, CpusAt
<1>3. IsFiniteSet(a..b) /\ Cardinality(a..b) = IF a > b THEN 0 ELSE b - a + 1
  BY FS_Interval
<1> QED BY <1>1, <1>2, <1>3, FS_Surjection

LEMMA PoolSizes ==
    ASSUME NEW S, NEW pool \in Seq(S), Distinct(pool)
    PROVE  /\ IsFiniteSet(Members(pool)) /\ Cardinality(Members(pool)) = Len(pool)
           /\ \A n \in 0..Len(pool) : /\ Cardinality(FirstCpus(pool, n)) = n
                                      /\ Cardinality(LastCpus(pool, n)) = n
<1>1. Len(pool) \in Nat
  OBVIOUS
<1>2. IsFiniteSet(Members(pool)) /\ Cardinality(Members(pool)) = Len(pool)
  <2>1. Members(pool) = CpusAt(pool, 1, Len(pool))
    BY DEF Members, CpusAt
  <2> QED BY <1>1, <2>1, CpusAtPositions
<1>3. ASSUME NEW n \in 0..Len(pool)
      PROVE  Cardinality(FirstCpus(pool, n)) = n
  <2>1. FirstCpus(pool, n) = CpusAt(pool, 1, n)
    BY DEF FirstCpus, CpusAt
  <2> QED BY <1>1, <2>1, CpusAtPositions
<1>4. ASSUME NEW n \in 0..Len(pool)
      PROVE  Cardinality(LastCpus(pool, n)) = n
  <2> DEFINE a == Len(pool) - n + 1
  <2>1. a \in Nat \ {0} /\ (IF a > Len(pool) THEN 0 ELSE Len(pool) - a + 1) = n
    BY <1>1
  <2>2. LastCpus(pool, n) = CpusAt(pool, a, Len(pool))
    BY DEF LastCpus, CpusAt
  <2> HIDE DEF a
  <2> QED BY <1>1, <2>1, <2>2, CpusAtPositions
<1> QED BY <1>2, <1>3, <1>4

-----------------------------------------------------------------------------
(* The owners of the cpus *)

\* HolderOf names who has reserved a cpu, if anyone has.
Owners ==
    /\ \A x \in Cpus, c \in Callers, type \in Reservable :
        Reserves(c, x, type) => HolderOf(x) = c
    /\ \A x \in Cpus :
        (\A c \in Callers, type \in Reservable : ~Reserves(c, x, type)) => HolderOf(x) = NoOne

LEMMA OwnersFromIInv == IInv => Owners
<1> SUFFICES ASSUME IInv PROVE Owners
  OBVIOUS
<1>1. ASSUME NEW x \in Cpus, NEW c \in Callers, NEW type \in Reservable, Reserves(c, x, type)
      PROVE  HolderOf(x) = c
  <2>1. ASSUME NEW d \in Callers, NEW other \in Reservable, Reserves(d, x, other)
        PROVE  d = c
    <3>1. x \in ReservedCpus(type) /\ x \in ReservedCpus(other)
      BY <1>1, <2>1 DEF ReservedCpus
    <3>2. type = other
      BY <3>1, PoolsAssumption DEF IInv, CoresConserved, Partition, Reservable
    <3> QED BY <1>1, <2>1, <3>2 DEF IInv, CoresConserved, OneHolder
  <2>2. Holders(x) = {c}
    BY <1>1, <2>1 DEF Holders
  <2> QED BY <2>2 DEF HolderOf
<1>2. ASSUME NEW x \in Cpus, \A c \in Callers, type \in Reservable : ~Reserves(c, x, type)
      PROVE  HolderOf(x) = NoOne
  BY <1>2 DEF HolderOf, Holders
<1> QED BY <1>1, <1>2 DEF Owners

\* The cpus without an owner are those in the pools.
LEMMA FreeCpus ==
    ASSUME IInv
    PROVE  /\ Abstract!FreeIn(Members(PinnedCores)) = Members(pinned_core_pool)
           /\ Abstract!FreeIn(Members(IsolatedCores)) = Members(isol_core_pool)
           /\ Abstract!FreeIn(Members(PinnedCores) \union Members(IsolatedCores)) =
                Members(pinned_core_pool) \union Members(isol_core_pool)
<1>1. Owners
  BY OwnersFromIInv
<1>2. \A x \in Cpus : HolderOf(x) = NoOne <=>
                        x \notin ReservedCpus("PINNED") /\ x \notin ReservedCpus("ISOLATED")
  BY <1>1, CallersAssumption DEF Owners, ReservedCpus, Reservable
<1>3. /\ {x \in Members(PinnedCores) : HolderOf(x) = NoOne} = Members(pinned_core_pool)
      /\ {x \in Members(IsolatedCores) : HolderOf(x) = NoOne} = Members(isol_core_pool)
  BY <1>2, PoolsAssumption DEF IInv, CoresConserved, Partition, Cpus
<1> QED BY <1>3 DEF Abstract!FreeIn, Cpus

\* Who has reserved nothing else owns what he did before.
LEMMA SameOwner ==
    ASSUME NEW x \in Cpus,
           \A d \in Callers, type \in Reservable : Reserves(d, x, type)' <=> Reserves(d, x, type)
    PROVE  HolderOf(x)' = HolderOf(x)
<1>1. Holders(x)' = Holders(x)
  BY DEF Holders
<1> QED BY <1>1 DEF HolderOf

LEMMA SameOwners ==
    ASSUME UNCHANGED <<held, returning>>
    PROVE  \A x \in Cpus : HolderOf(x)' = HolderOf(x)
  BY SameOwner DEF Reserves

-----------------------------------------------------------------------------
(* The steps *)

\* CoreAllocator counts cpus, and describes requests, as CPUManager does.
LEMMA SameCardinality ==
    ASSUME NEW S
    PROVE  Abstract!Cardinality(S) = Cardinality(S)
  BY DEF Abstract!Cardinality, Cardinality

LEMMA SamePolicies == Abstract!ThreadPolicy(MaxCores) = Policies
  BY DEF Abstract!ThreadPolicy, Policies, ThreadPolicy, Abstract!AffinityType, AffinityType

\* What a caller waits for.
Waiting(c) == IF pc(c) \in {"lock", "locked", "relock"} THEN call[c].policy ELSE NoOne

\* A caller that goes on with its call, or returns from deallocate().
LEMMA SameRequests ==
    ASSUME NEW c \in Callers, Waiting(c)' = Waiting(c),
           \A d \in Callers : d # c => call'[d] = call[d]
    PROVE  \A d \in Callers : Waiting(d)' = Waiting(d)
  BY DEF Waiting, pc

\* The entry of allocate() is the request.
LEMMA RequestStep ==
    ASSUME IInv, NEW c \in Callers, CallAllocate(c)
    PROVE  Abstract!Request(c)
<1>1. PICK p \in Policies :
        call' = [call EXCEPT ![c] = [@ EXCEPT !.pc = "lock", !.policy = p]]
  BY DEF CallAllocate
<1>2. /\ Waiting(c) = NoOne /\ Waiting(c)' = p
      /\ \A d \in Callers : d # c => Waiting(d)' = Waiting(d)
  BY <1>1 DEF CallAllocate, Waiting, pc, IInv, TypeOK, Call
<1>3. \A x \in Cpus : HolderOf(x)' = HolderOf(x)
  BY SameOwners DEF CallAllocate
<1> QED BY <1>2, <1>3, SamePolicies DEF Abstract!Request, Waiting

\* An exception is a refusal, if the free cpus do not serve the policy.
LEMMA RefuseStep ==
    ASSUME IInv, NEW c \in Callers, pc(c) \in {"lock", "locked"}, Proceed(c, "idle"),
           UNCHANGED <<held, returning>>,
           \A S \in SUBSET Cpus : ~Abstract!Serves(S, call[c].policy)
    PROVE  Abstract!Refuse(c)
<1>1. /\ Waiting(c) = call[c].policy /\ Waiting(c)' = NoOne
      /\ \A d \in Callers : d # c => Waiting(d)' = Waiting(d)
  BY DEF Proceed, At, Waiting, pc, IInv, TypeOK
<1>2. call[c].policy # NoOne
  BY NoOneAssumption DEF IInv, TypeOK, Call
<1>3. \A x \in Cpus : HolderOf(x)' = HolderOf(x)
  BY SameOwners
<1> QED BY <1>1, <1>2, <1>3 DEF Abstract!Refuse, Waiting

\* The sizes that allocate() compares are the numbers of free cpus.
LEMMA FreeCardinalities ==
    ASSUME IInv
    PROVE  LET pinned == Abstract!FreeIn(Members(PinnedCores))
               isol == Abstract!FreeIn(Members(IsolatedCores))
               all == Abstract!FreeIn(Members(PinnedCores) \union Members(IsolatedCores))
           IN  /\ IsFiniteSet(pinned) /\ Cardinality(pinned) = Len(pinned_core_pool)
               /\ IsFiniteSet(isol) /\ Cardinality(isol) = Len(isol_core_pool)
               /\ IsFiniteSet(all)
               /\ Cardinality(all) <= Len(pinned_core_pool) + Len(isol_core_pool)
<1>1. /\ IsFiniteSet(Members(pinned_core_pool))
      /\ Cardinality(Members(pinned_core_pool)) = Len(pinned_core_pool)
      /\ IsFiniteSet(Members(isol_core_pool))
      /\ Cardinality(Members(isol_core_pool)) = Len(isol_core_pool)
  BY PoolSizes DEF IInv, TypeOK, CoresConserved, Partition
<1>2. Len(pinned_core_pool) \in Nat /\ Len(isol_core_pool) \in Nat
  BY DEF IInv, TypeOK
<1> DEFINE P == Members(pinned_core_pool)
           I == Members(isol_core_pool)
<1>3. Cardinality(P \intersect I) \in Nat
  BY <1>1, FS_Intersection, FS_CardinalityType
<1>4. /\ IsFiniteSet(P \union I)
      /\ Cardinality(P \union I) <= Len(pinned_core_pool) + Len(isol_core_pool)
  <2> HIDE DEF P, I
  <2>1. /\ IsFiniteSet(P \union I)
        /\ Cardinality(P \union I) = Cardinality(P) + Cardinality(I) - Cardinality(P \intersect I)
    BY <1>1, FS_Union DEF P, I
  <2>2. Cardinality(P) = Len(pinned_core_pool) /\ Cardinality(I) = Len(isol_core_pool)
    BY <1>1 DEF P, I
  <2> QED BY <1>2, <1>3, <2>1, <2>2
<1> QED BY <1>1, <1>4, FreeCpus

\* CPUManager.cpp:47: the exception for too few cpus.
LEMMA ThrowsStep ==
    ASSUME IInv, NEW c \in Callers, AllocateThrows(c)
    PROVE  Abstract!Refuse(c)
<1> DEFINE p == call[c].policy
<1>1. p \in Policies /\ p.cores \in Nat /\ p.affinity_type \in AffinityType
  BY CallersAssumption DEF IInv, TypeOK, Call, Policies, ThreadPolicy
<1>2. Len(pinned_core_pool) \in Nat /\ Len(isol_core_pool) \in Nat
  BY DEF IInv, TypeOK
<1>3. ASSUME NEW S \in SUBSET Cpus, Abstract!Serves(S, p)
      PROVE  Enough(p, pinned_core_pool, isol_core_pool)
  <2>1. Cardinality(S) = p.cores
    BY <1>3, SameCardinality DEF Abstract!Serves
  <2>2. CASE p.affinity_type = "ISOLATED"
    <3>1. S \subseteq Abstract!FreeIn(Members(PinnedCores) \union Members(IsolatedCores))
      BY <1>3, <2>2 DEF Abstract!Serves
    <3>2. Cardinality(S) <= Cardinality(
              Abstract!FreeIn(Members(PinnedCores) \union Members(IsolatedCores)))
          /\ Cardinality(Abstract!FreeIn(Members(PinnedCores) \union Members(IsolatedCores))) \in Nat
      BY <3>1, FreeCardinalities, FS_Subset, FS_CardinalityType
    <3> QED BY <1>1, <1>2, <2>1, <2>2, <3>2, FreeCardinalities DEF Enough
  <2>3. CASE p.affinity_type # "ISOLATED"
    <3>1. S \subseteq Abstract!FreeIn(Members(PinnedCores))
      BY <1>3, <2>3 DEF Abstract!Serves
    <3>2. Cardinality(S) <= Len(pinned_core_pool)
      BY <3>1, FreeCardinalities, FS_Subset
    <3> QED BY <2>1, <2>3, <3>2 DEF Enough
  <2> QED BY <2>2, <2>3
<1> QED BY <1>3, RefuseStep DEF AllocateThrows

\* CPUManager.cpp:79-85: the exception for too few isolated cpus.
LEMMA IsolatedThrowsStep ==
    ASSUME IInv, NEW c \in Callers, AllocateIsolatedThrows(c)
    PROVE  Abstract!Refuse(c)
<1> DEFINE p == call[c].policy
<1>1. p.affinity_type = "ISOLATED" /\ p.strict /\ p.cores > Len(isol_core_pool)
  BY DEF AllocateIsolatedThrows, LacksIsolated, IInv, FreshViews
<1>2. p.cores \in Nat /\ Len(isol_core_pool) \in Nat
  BY CallersAssumption DEF IInv, TypeOK, Call, Policies, ThreadPolicy
<1>3. ASSUME NEW S \in SUBSET Cpus, Abstract!Serves(S, p)
      PROVE  FALSE
  <2>1. /\ Cardinality(S) = p.cores
        /\ S \subseteq Abstract!FreeIn(Members(PinnedCores) \union Members(IsolatedCores))
        /\ S \intersect Members(PinnedCores) = {}
    BY <1>1, <1>3, SameCardinality DEF Abstract!Serves
  <2>2. S \subseteq Abstract!FreeIn(Members(IsolatedCores))
    BY <2>1 DEF Abstract!FreeIn, Cpus
  <2>3. Cardinality(S) <= Len(isol_core_pool)
    BY <2>2, FreeCardinalities, FS_Subset
  <2> QED BY <1>1, <1>2, <2>1, <2>3
<1> QED BY <1>3, RefuseStep DEF AllocateIsolatedThrows

\* The cpus that an allocation takes, or only reads, serve its policy.
LEMMA ChosenServes ==
    ASSUME IInv, NEW c \in Callers, pc(c) = "locked",
           ~LacksIsolated(call[c].policy, isol_core_pool)
    PROVE  LET S == Chosen(call[c].policy, pinned_core_pool, isol_core_pool)
           IN  S \in SUBSET Cpus /\ Abstract!Serves(S, call[c].policy)
<1> DEFINE p == call[c].policy
           S == Chosen(p, pinned_core_pool, isol_core_pool)
<1>1. /\ p.cores \in Nat /\ p.affinity_type \in AffinityType
      /\ pinned_core_pool \in Seq(Cpus) /\ isol_core_pool \in Seq(Cpus)
      /\ Len(pinned_core_pool) \in Nat /\ Len(isol_core_pool) \in Nat
  BY CallersAssumption DEF IInv, TypeOK, Call, Policies, ThreadPolicy
<1>2. Distinct(pinned_core_pool) /\ Distinct(isol_core_pool)
  BY DEF IInv, CoresConserved, Partition
<1>3. Enough(p, pinned_core_pool, isol_core_pool)
  BY DEF IInv, SufficesWhenTaken
<1>4. Members(pinned_core_pool) \subseteq Cpus /\ Members(isol_core_pool) \subseteq Cpus
  BY <1>1 DEF Members
<1>5. CASE p.affinity_type = "NORMAL"
  <2>1. p.cores \in 0..Len(pinned_core_pool) /\ S = FirstCpus(pinned_core_pool, p.cores)
    BY <1>1, <1>3, <1>5 DEF Enough, Chosen
  <2>2. S \subseteq Members(pinned_core_pool)
    BY <1>1, <2>1 DEF FirstCpus, Members
  <2>3. Cardinality(S) = p.cores
    BY <1>1, <1>2, <2>1, PoolSizes
  <2> QED BY <1>4, <1>5, <2>2, <2>3, FreeCpus, SameCardinality DEF Abstract!Serves
<1>6. CASE p.affinity_type = "PINNED"
  <2>1. p.cores \in 0..Len(pinned_core_pool) /\ S = LastCpus(pinned_core_pool, p.cores)
    BY <1>1, <1>3, <1>6 DEF Enough, Chosen
  <2>2. S \subseteq Members(pinned_core_pool)
    BY <1>1, <1>2, <2>1, WithoutLastSplits
  <2>3. Cardinality(S) = p.cores
    BY <1>1, <1>2, <2>1, PoolSizes
  <2> QED BY <1>4, <1>6, <2>2, <2>3, FreeCpus, SameCardinality DEF Abstract!Serves
<1>7. CASE p.affinity_type = "ISOLATED"
  <2>1. p.cores \in 0..Len(isol_core_pool) /\ S = LastCpus(isol_core_pool, p.cores)
    BY <1>1, <1>7 DEF LacksIsolated, Chosen
  <2>2. S \subseteq Members(isol_core_pool)
    BY <1>1, <1>2, <2>1, WithoutLastSplits
  <2>3. Cardinality(S) = p.cores
    BY <1>1, <1>2, <2>1, PoolSizes
  <2>4. S \intersect Members(PinnedCores) = {}
    BY <2>2, PoolsAssumption DEF IInv, CoresConserved, Partition
  <2> QED BY <1>4, <1>7, <2>2, <2>3, <2>4, FreeCpus, SameCardinality DEF Abstract!Serves
<1> QED BY <1>1, <1>5, <1>6, <1>7 DEF AffinityType

\* CPUManager.cpp:101-110: the copies that replace the pools are the grant.
LEMMA GrantStep ==
    ASSUME IInv, Owners', NEW c \in Callers, Commit(c)
    PROVE  Abstract!Grant(c)
<1> DEFINE p == call[c].policy
           S == Chosen(p, pinned_core_pool, isol_core_pool)
<1>1. /\ pc(c) = "locked" /\ ~LacksIsolated(p, isol_core_pool)
      /\ held' = [held EXCEPT ![c] = @ \union CoresOf(S, p.affinity_type)]
      /\ returning' = returning
      /\ call' = [call EXCEPT ![c] = At("idle")]
  BY DEF Commit, IInv, FreshViews, Granted, Proceed
<1>2. S \in SUBSET Cpus /\ Abstract!Serves(S, p)
  BY <1>1, ChosenServes
<1> HIDE DEF S
<1>3. /\ Waiting(c) = p /\ Waiting(c)' = NoOne /\ p # NoOne
      /\ \A d \in Callers : d # c => Waiting(d)' = Waiting(d)
  BY <1>1, NoOneAssumption DEF At, Waiting, pc, IInv, TypeOK, Call
<1>4. \A d \in Callers, x \in Cpus, type \in Reservable :
        Reserves(d, x, type)' <=>
          Reserves(d, x, type) \/ (d = c /\ x \in S /\ type = p.affinity_type)
  BY <1>1 DEF Reserves, CoresOf, IInv, TypeOK
<1>5. ASSUME NEW x \in Cpus
      PROVE  HolderOf(x)' = IF x \in S /\ p.affinity_type # "NORMAL" THEN c ELSE HolderOf(x)
  <2>1. CASE x \in S /\ p.affinity_type # "NORMAL"
    <3>1. p.affinity_type \in Reservable
      BY <2>1 DEF IInv, TypeOK, Call, Policies, ThreadPolicy, AffinityType, Reservable
    <3>2. PICK type \in Reservable : type = p.affinity_type
      BY <3>1
    <3>3. Reserves(c, x, type)'
      BY <1>4, <2>1, <3>2
    <3> QED BY <2>1, <3>3 DEF Owners
  <2>2. CASE ~(x \in S /\ p.affinity_type # "NORMAL")
    <3>1. \A d \in Callers, type \in Reservable : Reserves(d, x, type)' <=> Reserves(d, x, type)
      BY <1>4, <2>2 DEF Reservable
    <3> QED BY <2>2, <3>1, SameOwner
  <2> QED BY <2>1, <2>2
<1> QED BY <1>2, <1>3, <1>5 DEF Abstract!Grant, Waiting

\* CPUManager.cpp:113-143: a cpu that is pushed is free.
LEMMA ReturnStep ==
    ASSUME IInv, Owners, Owners', NEW c \in Callers, Push(c)
    PROVE  Abstract!Return(c)
<1>1. PICK core \in returning[c] : Store(c, core) /\ Returned(c, core)
  BY DEF Push
<1> DEFINE y == core.cpu_id
           t == core.affinity_type
<1>2. /\ core = [cpu_id |-> y, affinity_type |-> t]
      /\ y \in Cpus
      /\ t \in Reservable
  BY <1>1 DEF IInv, TypeOK, Core, Store, Reservable
<1>3. /\ held' = held
      /\ returning' = [returning EXCEPT ![c] = @ \ {core}]
      /\ held[c] = {}
  BY <1>1 DEF Push, Returned, IInv, ReturnsWhatItHeld, Deallocating
<1>4. \A d \in Callers, x \in Cpus, type \in Reservable :
        Reserves(d, x, type)' <=>
          Reserves(d, x, type) /\ ~(d = c /\ x = y /\ type = t)
  BY <1>2, <1>3 DEF Reserves, IInv, TypeOK
<1>5. Reserves(c, y, t)
  BY <1>1, <1>2 DEF Reserves
<1>6. \A d \in Callers, type \in Reservable : Reserves(d, y, type) => d = c /\ type = t
  <2>1. \A d \in Callers, type \in Reservable : Reserves(d, y, type) => y \in ReservedCpus(type)
    BY <1>2 DEF ReservedCpus
  <2>2. \A type \in Reservable : y \in ReservedCpus(type) => type = t
    BY <1>2, <1>5, <2>1, PoolsAssumption DEF IInv, CoresConserved, Partition, Reservable
  <2> QED BY <1>2, <1>5, <2>1, <2>2 DEF IInv, CoresConserved, OneHolder
<1>7. HolderOf(y) = c
  BY <1>2, <1>5 DEF Owners
<1>8. HolderOf(y)' = NoOne
  BY <1>2, <1>4, <1>6 DEF Owners
<1>9. \A x \in Cpus : x # y => HolderOf(x)' = HolderOf(x)
  BY <1>4, SameOwner
<1>10. \A d \in Callers : Waiting(d)' = Waiting(d)
  BY <1>1 DEF Push, Returned, Proceed, At, Waiting, pc, IInv, TypeOK
<1> HIDE DEF y
<1> QED BY <1>2, <1>7, <1>8, <1>9, <1>10 DEF Abstract!Return, Waiting

\* A step that is not seen from outside.
Unseen == UNCHANGED Abstract!absVars

LEMMA UnseenStep ==
    ASSUME \A x \in Cpus : HolderOf(x)' = HolderOf(x),
           \A c \in Callers : Waiting(c)' = Waiting(c)
    PROVE  Unseen
  BY DEF Unseen, Abstract!absVars, Waiting

\* Every step of the manager is one of the allocator's, or none.
LEMMA AllocatorStep ==
    ASSUME IInv, Owners, Owners', [Next]_vars
    PROVE  [Abstract!AbsNext]_(Abstract!absVars)
<1>1. CASE UNCHANGED vars
  <2>1. \A c \in Callers : Waiting(c)' = Waiting(c)
    BY <1>1 DEF vars, Waiting, pc
  <2> QED BY <1>1, <2>1, SameOwners, UnseenStep DEF vars, Unseen
<1>2. ASSUME NEW c \in Callers, CallerNext(c)
      PROVE  \/ Abstract!Request(c) \/ Abstract!Grant(c)
             \/ Abstract!Refuse(c) \/ Abstract!Return(c)
             \/ Unseen
  <2>1. CASE LockAndCopy(c) \/ FallBackToPinned(c)
    <3>1. \A d \in Callers : Waiting(d)' = Waiting(d)
      <4>1. CASE LockAndCopy(c)
        BY <4>1 DEF LockAndCopy, ReadPools, Waiting, pc, IInv, TypeOK, Call
      <4>2. CASE FallBackToPinned(c)
        BY <4>2 DEF FallBackToPinned, Waiting, pc, IInv, TypeOK, Call
      <4> QED BY <2>1, <4>1, <4>2
    <3> QED BY <2>1, <3>1, SameOwners, UnseenStep DEF LockAndCopy, FallBackToPinned
  <2>2. CASE ReadPool(c)
    <3>1. \A d \in Callers : Waiting(d)' = Waiting(d)
      BY <2>2 DEF ReadPool, ReadPools, Waiting, pc, IInv, TypeOK, Call
    <3> QED BY <2>2, <3>1, SameOwners, UnseenStep DEF ReadPool
  <2>3. CASE SkipNormal(c)
    <3>1. PICK core \in returning[c] :
            core.affinity_type = "NORMAL" /\ Returned(c, core)
      BY <2>3 DEF SkipNormal
    <3>2. \A d \in Callers : Waiting(d)' = Waiting(d)
      BY <2>3, <3>1 DEF SkipNormal, Returned, Proceed, At, Waiting, pc, IInv, TypeOK
    <3>3. /\ UNCHANGED held
          /\ returning' = [returning EXCEPT ![c] = @ \ {core}]
      BY <2>3, <3>1 DEF SkipNormal, Returned
    <3>4. \A d \in Callers, x \in Cpus, type \in Reservable :
            Reserves(d, x, type)' <=> Reserves(d, x, type)
      BY <3>1, <3>3 DEF Reserves, Reservable, IInv, TypeOK
    <3> QED BY <3>2, <3>4, SameOwner, UnseenStep
  <2>4. CASE CallDeallocate(c)
    <3>1. \A d \in Callers : Waiting(d)' = Waiting(d)
      BY <2>4 DEF CallDeallocate, Proceed, At, Waiting, pc, IInv, TypeOK
    <3>2. /\ held' = [held EXCEPT ![c] = {}]
          /\ returning' = [returning EXCEPT ![c] = held[c]]
          /\ returning[c] = {}
      BY <2>4 DEF CallDeallocate, IInv, ReturnsWhatItHeld, Deallocating
    <3>3. \A d \in Callers, x \in Cpus, type \in Reservable :
            Reserves(d, x, type)' <=> Reserves(d, x, type)
      BY <3>2 DEF Reserves, IInv, TypeOK
    <3> QED BY <3>1, <3>3, SameOwner, UnseenStep
  <2> QED BY <1>2, <2>1, <2>2, <2>3, <2>4, RequestStep, ThrowsStep, IsolatedThrowsStep,
             GrantStep, ReturnStep DEF CallerNext
<1> QED BY <1>1, <1>2 DEF Next, Abstract!AbsNext, Unseen

\* Nobody has a cpu, and nobody waits for one.
LEMMA AllocatorInit ==
    ASSUME Init
    PROVE  Abstract!AbsInit
<1>1. Owners
  BY InitIInv, OwnersFromIInv
<1>2. \A c \in Callers : held[c] = {} /\ returning[c] = {} /\ pc(c) = "idle"
  BY DEF Init, pc, At
<1>3. \A x \in Cpus : HolderOf(x) = NoOne
  BY <1>1, <1>2 DEF Owners, Reserves
<1> QED BY <1>2, <1>3 DEF Abstract!AbsInit, Cpus

\* allocate() and deallocate() answer as CoreAllocator promises, as long as no
\* deallocate() overlaps another call: a grant is of free cpus of the kind and in
\* the number asked for, a refusal is justified by the cpus free at one instant
\* (CPUManager.cpp:37-149).
THEOREM CPUManagerIsAllocator ==
    ASSUME Serialised
    PROVE  Spec => ImplementsCoreAllocator
<1>1. Init => Abstract!AbsInit
  BY AllocatorInit
<1>2. IInv /\ Owners /\ Owners' /\ [Next]_vars => [Abstract!AbsNext]_(Abstract!absVars)
  BY AllocatorStep
<1> QED
  BY <1>1, <1>2, InvariantIInv, OwnersFromIInv, PTL
     DEF Spec, ImplementsCoreAllocator, Abstract!AbsSpec

-----------------------------------------------------------------------------
(* Startup: one manager *)

\* What the variables are made of.
ShapeOK ==
    /\ thread = [t \in Threads |-> [pc |-> thread[t].pc, ptr |-> thread[t].ptr,
                                    count |-> thread[t].count]]
    /\ instance = [ptr |-> instance.ptr, count |-> instance.count]
    /\ overlapped \in BOOLEAN

Users == {t \in Threads : thread[t].pc = "use"}

Crashed == made = <<>> /\ \A t \in Threads : thread[t].pc = "crashed"

NotMade ==
    /\ made = <<>> /\ owners = <<>> /\ instance = Null
    /\ \A t \in Threads : thread[t].pc \in {"idle", "make"}
    /\ \A t, u \in Threads : thread[t].pc = "make" /\ thread[u].pc = "make" => t = u

Storing ==
    /\ Len(made) = 1 /\ owners = <<1>>
    /\ \E t \in Threads :
        /\ thread[t].ptr = 1 /\ thread[t].count = 1
        /\ \/ thread[t].pc = "store" /\ instance = Null
           \/ thread[t].pc = "count" /\ instance = [ptr |-> 1, count |-> 0]
        /\ \A u \in Threads : u # t => thread[u].pc = "idle"

Settled ==
    /\ Len(made) = 1 /\ instance = [ptr |-> 1, count |-> 1]
    /\ \A t \in Threads :
        /\ thread[t].pc \in {"idle", "copy", "own", "use"}
        /\ thread[t].pc \in {"own", "use"} => thread[t].ptr = 1
        /\ thread[t].pc = "use" => thread[t].count = 1
    /\ IsFiniteSet(Users)
    /\ Len(owners) = 1 /\ owners[1] = 1 + Cardinality(Users)

\* The inductive invariant: the phases of a start without overlapping first calls.
\* The manager belongs to the instance and to those who use it.
Phases == ~overlapped => Crashed \/ NotMade \/ Storing \/ Settled

\* No step changes what the variables are made of.
LEMMA ShapeStep ==
    ASSUME ShapeOK, [StartNext]_startVars
    PROVE  ShapeOK'
<1>1. CASE UNCHANGED startVars
  BY <1>1 DEF startVars, ShapeOK
<1>2. ASSUME NEW t \in Threads, Look(t)
      PROVE  ShapeOK'
  BY <1>2 DEF Look, Goes, ShapeOK
<1>3. ASSUME NEW t \in Threads, Make(t)
      PROVE  ShapeOK'
  BY <1>3 DEF Make, ShapeOK
<1>4. ASSUME NEW t \in Threads, MakeThrows(t)
      PROVE  ShapeOK'
  BY <1>4 DEF MakeThrows, Goes, ShapeOK
<1>5. ASSUME NEW t \in Threads, Crash(t)
      PROVE  ShapeOK'
  BY <1>5 DEF Crash, ShapeOK
<1>6. ASSUME NEW t \in Threads, StorePointer(t)
      PROVE  ShapeOK'
  BY <1>6 DEF StorePointer, Goes, ShapeOK
<1>7. ASSUME NEW t \in Threads, StoreCount(t)
      PROVE  ShapeOK'
  BY <1>7 DEF StoreCount, Goes, ShapeOK
<1>8. ASSUME NEW t \in Threads, Copy(t) \/ CopyCount(t) \/ Leave(t)
      PROVE  ShapeOK'
  BY <1>8 DEF Copy, CopyCount, Leave, Idle, ShapeOK
<1> QED
  BY <1>1, <1>2, <1>3, <1>4, <1>5, <1>6, <1>7, <1>8 DEF StartNext

\* Each phase is left for another, or kept.
LEMMA PhasesStep ==
    ASSUME ShapeOK, Phases, [StartNext]_startVars
    PROVE  Phases'
<1>1. CASE UNCHANGED startVars
  BY <1>1 DEF startVars, Phases, Crashed, NotMade, Storing, Settled, Users
<1> SUFFICES ASSUME ~overlapped', NEW t \in Threads,
                    \/ Look(t) \/ Make(t) \/ MakeThrows(t) \/ Crash(t)
                    \/ StorePointer(t) \/ StoreCount(t)
                    \/ Copy(t) \/ CopyCount(t) \/ Leave(t)
             PROVE  Crashed' \/ NotMade' \/ Storing' \/ Settled'
  BY <1>1 DEF StartNext, Phases
<1>2. ~overlapped
  BY DEF ShapeOK, Look, Make, MakeThrows, Crash, StorePointer, StoreCount, Copy, CopyCount, Leave
<1>3. CASE Look(t)
  <2>1. Making = {} /\ UNCHANGED <<made, owners, instance>>
    BY <1>3 DEF Look
  <2>2. thread' = [thread EXCEPT ![t].pc = IF instance.ptr = 0 THEN "make" ELSE "copy"]
        /\ thread[t].pc = "idle"
    BY <1>3 DEF Look, Goes
  <2>3. CASE NotMade
    <3>1. instance.ptr = 0
      BY <2>3 DEF NotMade, Null
    <3>2. thread'[t].pc = "make" /\ \A u \in Threads : u # t => thread'[u].pc = "idle"
      <4>1. \A u \in Threads : thread[u].pc = "idle"
        BY <2>1, <2>3 DEF NotMade, Making
      <4>2. thread' = [thread EXCEPT ![t].pc = "make"]
        BY <2>2, <3>1
      <4> QED BY <4>1, <4>2 DEF ShapeOK
    <3>3. NotMade'
      BY <2>1, <2>3, <3>2 DEF NotMade
    <3> QED BY <3>3
  <2>4. CASE Settled
    <3>1. Users' = Users
      BY <2>2, <2>4 DEF Settled, Users, ShapeOK
    <3> QED BY <2>1, <2>2, <2>4, <3>1 DEF Settled, ShapeOK
  <2>5. ~Crashed /\ ~Storing
    BY <2>1, <2>2 DEF Crashed, Storing, Making
  <2> QED BY <1>2, <2>3, <2>4, <2>5 DEF Phases
<1>4. CASE Make(t)
  <2>1. NotMade
    BY <1>2, <1>4 DEF Make, Phases, Crashed, Storing, Settled
  <2>2. Len(made') = 1 /\ owners' = <<1>>
    <3>1. <<>> \in Seq({parse_cpus})
      OBVIOUS
    <3> QED BY <1>4, <2>1, <3>1 DEF Make, NotMade
  <2>3. thread' = [thread EXCEPT ![t] = [pc |-> "store", ptr |-> 1, count |-> 1]]
    BY <1>4, <2>2 DEF Make
  <2> QED BY <1>4, <2>1, <2>2, <2>3 DEF Make, NotMade, Storing, ShapeOK
<1>5. CASE MakeThrows(t)
  <2>1. NotMade
    BY <1>2, <1>5 DEF MakeThrows, Phases, Crashed, Storing, Settled
  <2> QED BY <1>5, <2>1 DEF MakeThrows, Goes, NotMade, ShapeOK
<1>6. CASE Crash(t)
  <2>1. NotMade
    BY <1>2, <1>6 DEF Crash, Phases, Crashed, Storing, Settled
  <2>2. \A u \in Threads : thread'[u].pc = "crashed"
    BY <1>6 DEF Crash, ShapeOK
  <2> QED BY <1>6, <2>1, <2>2 DEF Crash, NotMade, Crashed
<1>7. CASE StorePointer(t)
  <2>1. Storing /\ thread[t].ptr = 1 /\ thread[t].count = 1 /\ instance = Null
        /\ \A u \in Threads : u # t => thread[u].pc = "idle"
    BY <1>2, <1>7 DEF StorePointer, Phases, Crashed, NotMade, Storing, Settled
  <2>2. instance' = [ptr |-> 1, count |-> 0]
    BY <1>7, <2>1 DEF StorePointer, Null
  <2>3. /\ thread'[t].ptr = 1 /\ thread'[t].count = 1 /\ thread'[t].pc = "count"
        /\ \A u \in Threads : u # t => thread'[u].pc = "idle"
    BY <1>7, <2>1 DEF StorePointer, Goes, ShapeOK
  <2> QED BY <1>7, <2>1, <2>2, <2>3 DEF StorePointer, Storing
<1>8. CASE StoreCount(t)
  <2>1. Storing /\ thread[t].ptr = 1 /\ thread[t].count = 1
        /\ instance = [ptr |-> 1, count |-> 0]
        /\ \A u \in Threads : u # t => thread[u].pc = "idle"
    BY <1>2, <1>8 DEF StoreCount, Phases, Crashed, NotMade, Storing, Settled
  <2>2. instance' = [ptr |-> 1, count |-> 1]
    BY <1>8, <2>1 DEF StoreCount
  <2>3. Len(owners') = 1 /\ owners'[1] = 1
    <3>1. owners' = [m \in 1..1 |-> 1]
      BY <1>8, <2>1 DEF StoreCount, Released, Storing
    <3> QED BY <3>1
  <2>4. thread'[t].pc = "copy" /\ \A u \in Threads : u # t => thread'[u].pc = "idle"
    BY <1>8, <2>1 DEF StoreCount, Goes, ShapeOK
  <2>5. Users' = {}
    BY <2>4 DEF Users
  <2> QED BY <1>8, <2>1, <2>2, <2>3, <2>4, <2>5, FS_EmptySet DEF StoreCount, Storing, Settled
<1>9. CASE Copy(t)
  <2>1. Settled
    BY <1>2, <1>9 DEF Copy, Phases, Crashed, NotMade, Storing
  <2>2. Users' = Users
    BY <1>9, <2>1 DEF Copy, Users, ShapeOK
  <2> QED BY <1>9, <2>1, <2>2 DEF Copy, Settled, ShapeOK
<1>10. CASE CopyCount(t)
  <2>1. Settled
    BY <1>2, <1>10 DEF CopyCount, Phases, Crashed, NotMade, Storing
  <2>2. Users' = Users \union {t} /\ t \notin Users
    BY <1>10, <2>1 DEF CopyCount, Users, ShapeOK
  <2>3. IsFiniteSet(Users') /\ Cardinality(Users') = Cardinality(Users) + 1
        /\ Cardinality(Users) \in Nat
    BY <2>1, <2>2, FS_AddElement, FS_CardinalityType DEF Settled
  <2>4. Len(owners') = 1 /\ owners'[1] = owners[1] + 1
    <3>1. owners' = [m \in 1..1 |-> owners[m] + 1]
      BY <1>10, <2>1 DEF CopyCount, Shared, Settled
    <3> QED BY <3>1
  <2> QED BY <1>10, <2>1, <2>3, <2>4 DEF CopyCount, Settled, ShapeOK
<1>11. CASE Leave(t)
  <2>1. Settled
    BY <1>2, <1>11 DEF Leave, Phases, Crashed, NotMade, Storing
  <2>2. Users' = Users \ {t} /\ t \in Users
    BY <1>11, <2>1 DEF Leave, Idle, Users, ShapeOK
  <2>3. IsFiniteSet(Users') /\ Cardinality(Users') = Cardinality(Users) - 1
        /\ Cardinality(Users) \in Nat
    BY <2>1, <2>2, FS_RemoveElement, FS_CardinalityType DEF Settled
  <2>4. Len(owners') = 1 /\ owners'[1] = owners[1] - 1
    <3>1. owners' = [m \in 1..1 |-> owners[m] - 1]
      BY <1>11, <2>1 DEF Leave, Released, Settled
    <3> QED BY <3>1
  <2> QED BY <1>11, <2>1, <2>3, <2>4 DEF Leave, Idle, Settled, ShapeOK
<1> QED
  BY <1>3, <1>4, <1>5, <1>6, <1>7, <1>8, <1>9, <1>10, <1>11

\* If no first call overlaps another there is one manager, which lives as long as
\* anyone uses it (Singleton.tpp:11-14), for any number of threads and whatever the
\* constructor reads or throws.
THEOREM OneManager == StartSpec => []OneManagerForAll
<1>1. StartInit => ShapeOK /\ Phases
  <2> HAVE StartInit
  <2>1. \A t \in Threads : thread[t] = [pc |-> "idle", ptr |-> 0, count |-> 0]
    BY DEF StartInit, Idle
  <2>2. ShapeOK
    BY <2>1 DEF StartInit, ShapeOK, Null
  <2>3. NotMade
    BY <2>1 DEF StartInit, NotMade
  <2> QED BY <2>2, <2>3 DEF Phases
<1>2. Phases => OneManagerForAll
  <2> SUFFICES ASSUME Phases, ~overlapped PROVE OneManagerForAll
    BY DEF OneManagerForAll
  <2>1. CASE Crashed \/ NotMade
    BY <2>1 DEF Crashed, NotMade, OneManagerForAll
  <2>2. CASE Storing
    BY <2>2 DEF Storing, OneManagerForAll
  <2>3. CASE Settled
    <3>1. Cardinality(Users) \in Nat
      BY <2>3, FS_CardinalityType DEF Settled
    <3> QED BY <2>3, <3>1 DEF Settled, OneManagerForAll
  <2> QED BY <2>1, <2>2, <2>3 DEF Phases
<1> QED
  BY <1>1, <1>2, ShapeStep, PhasesStep, PTL DEF StartSpec
=============================================================================
