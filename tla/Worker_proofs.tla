--------------------------- MODULE Worker_proofs ---------------------------
(***************************************************************************)
(* Proofs about Worker, for any workers, policies, machine and number of   *)
(* starts: the workers give back the cores they took, one thread at most   *)
(* is left of the starts of a worker, and none when its object is gone.    *)
(***************************************************************************)
EXTENDS Worker, SequenceTheorems, FunctionTheorems, FiniteSetTheorems, TLAPS

(* Lemmas on the pools *)

\* What allocate() takes from the back of a pool and what it leaves are the pool.
LEMMA TakingSplits ==
    ASSUME NEW S, NEW pool \in Seq(S), Distinct(pool), NEW n \in Nat, n <= Len(pool)
    PROVE  LET taken == TakenInOrder(pool, n)
               left == WithoutLast(pool, n)
           IN  /\ taken \in Seq(S) /\ Distinct(taken)
               /\ left \in Seq(S) /\ Distinct(left)
               /\ Members(left) \intersect Members(taken) = {}
               /\ Members(left) \union Members(taken) = Members(pool)
<1> DEFINE taken == TakenInOrder(pool, n)
           left == WithoutLast(pool, n)
           m == Len(pool) - n
<1>1. /\ m \in 0..Len(pool)
      /\ left \in Seq(S) /\ Len(left) = m
      /\ \A i \in 1..m : left[i] = pool[i]
  BY DEF WithoutLast
<1>2. /\ taken \in [1..n -> S]
      /\ \A i \in 1..n : taken[i] = pool[Len(pool) + 1 - i]
  BY DEF TakenInOrder
<1>3. taken \in Seq(S) /\ Len(taken) = n
  BY <1>2, IsASeq, LenProperties
<1>4. Distinct(left)
  BY <1>1 DEF Distinct
<1>5. Distinct(taken)
  <2> SUFFICES ASSUME NEW i \in 1..n, NEW j \in 1..n, taken[i] = taken[j]
               PROVE  i = j
    BY <1>3 DEF Distinct
  <2>1. Len(pool) + 1 - i \in 1..Len(pool) /\ Len(pool) + 1 - j \in 1..Len(pool)
    OBVIOUS
  <2>2. pool[Len(pool) + 1 - i] = pool[Len(pool) + 1 - j]
    BY <1>2
  <2>3. Len(pool) + 1 - i = Len(pool) + 1 - j
    BY <2>1, <2>2 DEF Distinct
  <2> QED
    BY <2>3
<1>6. Members(left) \intersect Members(taken) = {}
  <2> SUFFICES ASSUME NEW i \in 1..m, NEW j \in 1..n, left[i] = taken[j]
               PROVE  FALSE
    BY <1>1, <1>3 DEF Members
  <2>1. Len(pool) + 1 - j \in (m + 1)..Len(pool)
    OBVIOUS
  <2>2. pool[i] = pool[Len(pool) + 1 - j] /\ i \in 1..Len(pool) /\ i <= m
    BY <1>1, <1>2
  <2>3. i = Len(pool) + 1 - j
    BY <2>1, <2>2 DEF Distinct
  <2> QED
    BY <2>1, <2>2, <2>3
<1>7. Members(left) \union Members(taken) = Members(pool)
  <2>1. ASSUME NEW i \in 1..Len(pool)
        PROVE  pool[i] \in Members(left) \union Members(taken)
    <3>1. CASE i <= m
      BY <1>1, <3>1 DEF Members
    <3>2. CASE i > m
      <4>1. Len(pool) + 1 - i \in 1..n
        BY <3>2
      <4>2. taken[Len(pool) + 1 - i] = pool[i]
        BY <1>2, <4>1
      <4> QED
        BY <1>3, <4>1, <4>2 DEF Members
    <3> QED
      BY <1>1, <3>1, <3>2
  <2>2. Members(left) \subseteq Members(pool)
    BY <1>1 DEF Members
  <2>3. Members(taken) \subseteq Members(pool)
    BY <1>2, <1>3 DEF Members
  <2> QED
    BY <2>1, <2>2, <2>3 DEF Members
<1> QED
  BY <1>1, <1>3, <1>4, <1>5, <1>6, <1>7

\* What deallocate() puts back is in the pool, and nothing twice.
LEMMA GivingBackJoins ==
    ASSUME NEW S, NEW pool \in Seq(S), NEW back \in Seq(S),
           Distinct(pool), Distinct(back), Members(pool) \intersect Members(back) = {}
    PROVE  /\ pool \o back \in Seq(S)
           /\ Distinct(pool \o back)
           /\ Members(pool \o back) = Members(pool) \union Members(back)
<1> DEFINE joined == pool \o back
<1>1. /\ joined \in Seq(S)
      /\ Len(joined) = Len(pool) + Len(back)
      /\ \A i \in 1..Len(pool) : joined[i] = pool[i]
      /\ \A i \in 1..Len(back) : joined[Len(pool) + i] = back[i]
  OBVIOUS
<1>2. \A i \in 1..Len(joined) :
        \/ i \in 1..Len(pool) /\ joined[i] = pool[i]
        \/ i - Len(pool) \in 1..Len(back) /\ joined[i] = back[i - Len(pool)]
  OBVIOUS
<1>3. \A i \in 1..Len(pool), j \in 1..Len(back) : pool[i] # back[j]
  BY DEF Members
<1>4. Distinct(joined)
  BY <1>2, <1>3 DEF Distinct
<1>5. Members(joined) = Members(pool) \union Members(back)
  <2>1. Members(joined) \subseteq Members(pool) \union Members(back)
    BY <1>2 DEF Members
  <2>2. \A i \in 1..Len(back) : Len(pool) + i \in 1..Len(joined)
    BY <1>1
  <2>3. Members(back) \subseteq Members(joined)
    BY <1>1, <2>2 DEF Members
  <2>4. Members(pool) \subseteq Members(joined)
    BY <1>1 DEF Members
  <2> QED
    BY <2>1, <2>3, <2>4
<1> QED
  BY <1>1, <1>4, <1>5

\* A pool without duplicates is no longer than a pool with the same members.
LEMMA DistinctIsShortest ==
    ASSUME NEW S, NEW T, NEW pool \in Seq(S), Distinct(pool),
           NEW all \in Seq(T), Members(pool) \subseteq Members(all)
    PROVE  Len(pool) <= Len(all)
<1>1. pool \in Injection(1..Len(pool), Members(all))
  <2>1. pool \in [1..Len(pool) -> Members(all)]
    <3>1. \A i \in 1..Len(pool) : pool[i] \in Members(all)
      BY DEF Members
    <3> QED BY <3>1
  <2> QED
    BY <2>1, Fun_IsInj DEF Distinct
<1>2. all \in Surjection(1..Len(all), Members(all))
  <2>1. all \in [1..Len(all) -> Members(all)]
    BY DEF Members
  <2> QED
    BY <2>1, Fun_IsSurj DEF Members
<1>3. /\ IsFiniteSet(1..Len(pool)) /\ Cardinality(1..Len(pool)) = Len(pool)
      /\ IsFiniteSet(1..Len(all)) /\ Cardinality(1..Len(all)) = Len(all)
  <2>1. Len(pool) \in Nat /\ Len(all) \in Nat /\ 1 \in Int
    OBVIOUS
  <2>2. ASSUME NEW n \in Nat
        PROVE  IsFiniteSet(1..n) /\ Cardinality(1..n) = n
    <3>1. n \in Int
      OBVIOUS
    <3>2. /\ IsFiniteSet(1..n)
          /\ Cardinality(1..n) = IF 1 > n THEN 0 ELSE n - 1 + 1
      BY <2>1, <3>1, FS_Interval
    <3> QED
      BY <3>2
  <2> QED
    BY <2>1, <2>2
<1>4. /\ IsFiniteSet(Members(all))
      /\ Cardinality(Members(all)) <= Len(all)
  BY <1>2, <1>3, FS_Surjection
<1>5. Len(pool) <= Cardinality(Members(all))
  BY <1>1, <1>3, <1>4, FS_Injection
<1>6. Cardinality(Members(all)) \in Nat
  BY <1>4, FS_CardinalityType
<1> QED
  BY <1>4, <1>5, <1>6

-----------------------------------------------------------------------------
(* The inductive invariant *)

\* Each pool with what the workers hold of it.
PoolsOK ==
    /\ pinned_core_pool \in Seq(Cpus)
    /\ isol_core_pool \in Seq(Cpus)
    /\ allocated_cores \in [Workers -> Seq(Cpus)]
    /\ lost \in [Workers -> SUBSET Cpus]
    /\ CoresConserved /\ DistinctHeld

\* A pool is a sequence over any set that contains its members.
LEMMA SeqOfMembers ==
    ASSUME NEW S, NEW T, NEW pool \in Seq(S), Members(pool) \subseteq T
    PROVE  pool \in Seq(T)
<1>1. /\ Len(pool) \in Nat
      /\ pool = [i \in 1..Len(pool) |-> pool[i]]
  OBVIOUS
<1>2. \A i \in 1..Len(pool) : pool[i] \in T
  BY DEF Members
<1>3. pool \in [1..Len(pool) -> T]
  BY <1>1, <1>2
<1> QED
  BY <1>1, <1>3, SeqDef

\* No worker holds anything at the start.
LEMMA InitIInv == Init => IInv
<1> SUFFICES ASSUME Init PROVE IInv
  OBVIOUS
<1> USE DEF Init
<1>1. /\ PinnedCores \in Seq(Cpus)
      /\ IsolatedCores \in Seq(Cpus)
  BY PoolsAssumption, SeqOfMembers DEF Cpus
<1>2. \A w \in Workers : allocated_cores[w] = <<>> /\ Members(allocated_cores[w]) = {}
  BY DEF Members
<1>3. TypeOK
  <2>1. thread \in [Workers -> [Starts -> Thread]]
    BY DEF NoThread, Thread
  <2>2. control \in Control
    BY DEF Idle, Control
  <2> QED
    BY <1>1, <2>1, <2>2, MaxStartsAssumption DEF TypeOK
<1>4. CoresConserved
  <2>1. TakenOf("PINNED") = {} /\ TakenOf("ISOLATED") = {}
    BY <1>2 DEF TakenOf, Taken
  <2> QED
    BY <1>2, <2>1, PoolsAssumption DEF CoresConserved, Partition, Taken
<1>5. HeldUntilStop /\ DistinctHeld
  BY <1>2 DEF HeldUntilStop, DistinctHeld, Distinct
<1>6. OneThreadPerWorker /\ NoThreadOutlivesWorker
  BY DEF OneThreadPerWorker, NoThreadOutlivesWorker, Live, NoThread
<1> QED
  BY <1>3, <1>4, <1>5, <1>6 DEF IInv

\* What the workers have taken of one type when worker w takes or gives back.
LEMMA TakenStep ==
    ASSUME NEW type, NEW w \in Workers, NEW cpus, policy' = policy,
           \A v \in Workers : v # w => Taken(v)' = Taken(v),
           \A v \in Workers :
             /\ v # w
             /\ policy[v].affinity_type = type
             /\ policy[w].affinity_type = type
             => Taken(v) \intersect Taken(w) = {}
    PROVE  /\ policy[w].affinity_type # type => TakenOf(type)' = TakenOf(type)
           /\ policy[w].affinity_type = type /\ Taken(w)' = Taken(w) \union cpus =>
                TakenOf(type)' = TakenOf(type) \union cpus
           /\ /\ policy[w].affinity_type = type
              /\ Taken(w)' = Taken(w) \ cpus
              /\ cpus \subseteq Taken(w)
              => TakenOf(type)' = TakenOf(type) \ cpus
<1>1. \A x : /\ x \in TakenOf(type) <=>
                   \E v \in Workers : policy[v].affinity_type = type /\ x \in Taken(v)
             /\ x \in TakenOf(type)' <=>
                   \E v \in Workers : policy[v].affinity_type = type /\ x \in Taken(v)'
  BY DEF TakenOf
<1>2. CASE policy[w].affinity_type # type
  BY <1>1, <1>2
<1>3. CASE policy[w].affinity_type = type /\ Taken(w)' = Taken(w) \union cpus
  <2>1. ASSUME NEW x
        PROVE  x \in TakenOf(type)' <=> x \in TakenOf(type) \union cpus
    BY <1>1, <1>3
  <2>2. TakenOf(type)' = TakenOf(type) \union cpus
    BY <2>1
  <2>3. /\ Taken(w)' = Taken(w) \ cpus
        /\ cpus \subseteq Taken(w)
        => cpus = {}
    BY <1>3
  <2> QED
    BY <1>3, <2>2, <2>3
<1>4. CASE /\ policy[w].affinity_type = type
           /\ Taken(w)' = Taken(w) \ cpus
           /\ cpus \subseteq Taken(w)
  <2>1. ASSUME NEW x
        PROVE  x \in TakenOf(type)' <=> x \in TakenOf(type) \ cpus
    BY <1>1, <1>4
  <2>2. TakenOf(type)' = TakenOf(type) \ cpus
    BY <2>1
  <2>3. Taken(w)' = Taken(w) \union cpus => cpus = {}
    BY <1>4
  <2> QED
    BY <1>4, <2>2, <2>3
<1> QED
  BY <1>2, <1>3, <1>4

\* Worker.cpp:10, 26: what leaves a pool is held by the worker.
LEMMA StartConserves ==
    ASSUME TypeOK, PoolsOK, HeldUntilStop, NEW w \in Workers, StartAllocated(w)
    PROVE  PoolsOK'
<1> DEFINE p == policy[w]
           s == AllocatedFor(p)
           gone == IF p.affinity_type = "NORMAL" THEN {} ELSE Members(allocated_cores[w])
<1>1. /\ p \in [cores : Nat, affinity_type : AffinityType, strict : BOOLEAN]
      /\ policy' = policy
      /\ allocated_cores' = [allocated_cores EXCEPT ![w] = s]
      /\ lost' = [lost EXCEPT ![w] = @ \union gone]
      /\ restarted' = restarted \union (IF starts[w] > 0 /\ ~stop_flag[w] THEN {w} ELSE {})
      /\ pinned_core_pool' = PinnedLeft(p, pinned_core_pool)
      /\ isol_core_pool' = IsolLeft(p, isol_core_pool)
      /\ Enough(p, pinned_core_pool, isol_core_pool)
      /\ ~LacksIsolated(p, isol_core_pool)
  BY PoliciesAssumption DEF TypeOK, StartAllocated, Overwrite, ClearFlag, Fits, Lacks
<1>2. /\ Distinct(pinned_core_pool) /\ Distinct(isol_core_pool)
      /\ pinned_core_pool \in Seq(Cpus) /\ isol_core_pool \in Seq(Cpus)
  BY DEF PoolsOK, CoresConserved, Partition
<1>3. /\ allocated_cores'[w] = s
      /\ lost'[w] = lost[w] \union gone
      /\ \A v \in Workers : v # w =>
           /\ allocated_cores'[v] = allocated_cores[v]
           /\ lost'[v] = lost[v]
           /\ Taken(v)' = Taken(v)
  BY <1>1 DEF PoolsOK, Taken
<1>4. lost' \in [Workers -> SUBSET Cpus]
  <2>1. gone \subseteq Cpus
    BY DEF PoolsOK, Members
  <2> QED
    BY <1>1, <2>1 DEF PoolsOK
<1>5. \A v \in Workers : lost'[v] # {} => v \in restarted'
  <2>1. gone # {} => allocated_cores[w] # <<>>
    BY DEF Members
  <2>2. gone # {} => w \in restarted'
    BY <1>1, <2>1 DEF HeldUntilStop
  <2> QED
    BY <1>1, <1>3, <2>2 DEF PoolsOK, CoresConserved
<1>6. \A type \in {"PINNED", "ISOLATED"} : \A v \in Workers :
        /\ v # w
        /\ policy[v].affinity_type = type
        /\ policy[w].affinity_type = type
        => Taken(v) \intersect Taken(w) = {}
  BY DEF PoolsOK, CoresConserved
<1>7. CASE p.affinity_type = "NORMAL"
  <2>1. /\ pinned_core_pool' = pinned_core_pool
        /\ isol_core_pool' = isol_core_pool
        /\ s = SubSeq(pinned_core_pool, 1, p.cores)
        /\ p.cores <= Len(pinned_core_pool)
    BY <1>1, <1>7 DEF PinnedLeft, IsolLeft, AllocatedFor, Enough
  <2>2. s \in Seq(Cpus)
    BY <1>1, <1>2, <2>1
  <2>3. /\ TakenOf("PINNED")' = TakenOf("PINNED")
        /\ TakenOf("ISOLATED")' = TakenOf("ISOLATED")
    BY <1>1, <1>3, <1>7, <1>6, TakenStep
  <2>4. CoresConserved'
    BY <1>1, <1>3, <1>7, <1>5, <2>1, <2>3 DEF PoolsOK, CoresConserved
  <2>5. DistinctHeld'
    BY <1>1, <1>3, <1>7 DEF PoolsOK, DistinctHeld
  <2> QED
    BY <1>1, <1>2, <1>4, <2>1, <2>2, <2>4, <2>5 DEF PoolsOK
<1>8. CASE p.affinity_type = "PINNED"
  <2>1. /\ pinned_core_pool' = WithoutLast(pinned_core_pool, p.cores)
        /\ isol_core_pool' = isol_core_pool
        /\ s = TakenInOrder(pinned_core_pool, p.cores)
        /\ p.cores <= Len(pinned_core_pool)
    BY <1>1, <1>8 DEF PinnedLeft, IsolLeft, AllocatedFor, Enough
  <2>2. /\ s \in Seq(Cpus) /\ Distinct(s)
        /\ pinned_core_pool' \in Seq(Cpus) /\ Distinct(pinned_core_pool')
        /\ Members(pinned_core_pool') \intersect Members(s) = {}
        /\ Members(pinned_core_pool') \union Members(s) = Members(pinned_core_pool)
    BY <1>1, <1>2, <2>1, TakingSplits
  <2>3. Taken(w)' = Taken(w) \union Members(s)
    BY <1>3, <1>8 DEF Taken
  <2>4. /\ TakenOf("PINNED")' = TakenOf("PINNED") \union Members(s)
        /\ TakenOf("ISOLATED")' = TakenOf("ISOLATED")
    BY <1>1, <1>3, <1>8, <1>6, <2>3, TakenStep
  <2>5. Partition(pinned_core_pool, TakenOf("PINNED"), Members(PinnedCores))'
    BY <2>2, <2>4 DEF PoolsOK, CoresConserved, Partition
  <2>6. Partition(isol_core_pool, TakenOf("ISOLATED"), Members(IsolatedCores))'
    BY <2>1, <2>4 DEF PoolsOK, CoresConserved, Partition
  <2>7. \A v \in Workers :
          policy[v].affinity_type = "PINNED" => Taken(v) \intersect Members(s) = {}
    BY <2>2 DEF PoolsOK, CoresConserved, Partition, TakenOf
  <2>8. Members(s) \intersect lost'[w] = {}
    BY <1>3, <1>8, <2>7 DEF Taken
  <2>9. CoresConserved'
    <3>1. \A u, v \in Workers :
            /\ u # v
            /\ policy'[u].affinity_type = policy'[v].affinity_type
            /\ policy'[u].affinity_type # "NORMAL"
            => Taken(u)' \intersect Taken(v)' = {}
      <4>1. \A u, v \in Workers :
              /\ u # v
              /\ policy[u].affinity_type = policy[v].affinity_type
              /\ policy[u].affinity_type # "NORMAL"
              => Taken(u) \intersect Taken(v) = {}
        BY DEF PoolsOK, CoresConserved
      <4> QED
        BY <1>1, <1>3, <1>8, <2>3, <2>7, <4>1
    <3>2. \A v \in Workers :
            policy'[v].affinity_type # "NORMAL" =>
              Members(allocated_cores'[v]) \intersect lost'[v] = {}
      BY <1>1, <1>3, <2>8 DEF PoolsOK, CoresConserved
    <3> QED
      BY <1>5, <2>5, <2>6, <3>1, <3>2 DEF CoresConserved
  <2>10. DistinctHeld'
    BY <1>1, <1>3, <2>2 DEF PoolsOK, DistinctHeld
  <2> QED
    BY <1>1, <1>2, <1>4, <2>1, <2>2, <2>9, <2>10 DEF PoolsOK
<1>9. CASE p.affinity_type = "ISOLATED"
  <2>1. /\ isol_core_pool' = WithoutLast(isol_core_pool, p.cores)
        /\ pinned_core_pool' = pinned_core_pool
        /\ s = TakenInOrder(isol_core_pool, p.cores)
        /\ p.cores <= Len(isol_core_pool)
    BY <1>1, <1>2, <1>9 DEF PinnedLeft, IsolLeft, AllocatedFor, LacksIsolated
  <2>2. /\ s \in Seq(Cpus) /\ Distinct(s)
        /\ isol_core_pool' \in Seq(Cpus) /\ Distinct(isol_core_pool')
        /\ Members(isol_core_pool') \intersect Members(s) = {}
        /\ Members(isol_core_pool') \union Members(s) = Members(isol_core_pool)
    BY <1>1, <1>2, <2>1, TakingSplits
  <2>3. Taken(w)' = Taken(w) \union Members(s)
    BY <1>3, <1>9 DEF Taken
  <2>4. /\ TakenOf("ISOLATED")' = TakenOf("ISOLATED") \union Members(s)
        /\ TakenOf("PINNED")' = TakenOf("PINNED")
    BY <1>1, <1>3, <1>9, <1>6, <2>3, TakenStep
  <2>5. Partition(isol_core_pool, TakenOf("ISOLATED"), Members(IsolatedCores))'
    BY <2>2, <2>4 DEF PoolsOK, CoresConserved, Partition
  <2>6. Partition(pinned_core_pool, TakenOf("PINNED"), Members(PinnedCores))'
    BY <2>1, <2>4 DEF PoolsOK, CoresConserved, Partition
  <2>7. \A v \in Workers :
          policy[v].affinity_type = "ISOLATED" => Taken(v) \intersect Members(s) = {}
    BY <2>2 DEF PoolsOK, CoresConserved, Partition, TakenOf
  <2>8. Members(s) \intersect lost'[w] = {}
    BY <1>3, <1>9, <2>7 DEF Taken
  <2>9. CoresConserved'
    <3>1. \A u, v \in Workers :
            /\ u # v
            /\ policy'[u].affinity_type = policy'[v].affinity_type
            /\ policy'[u].affinity_type # "NORMAL"
            => Taken(u)' \intersect Taken(v)' = {}
      <4>1. \A u, v \in Workers :
              /\ u # v
              /\ policy[u].affinity_type = policy[v].affinity_type
              /\ policy[u].affinity_type # "NORMAL"
              => Taken(u) \intersect Taken(v) = {}
        BY DEF PoolsOK, CoresConserved
      <4> QED
        BY <1>1, <1>3, <1>9, <2>3, <2>7, <4>1
    <3>2. \A v \in Workers :
            policy'[v].affinity_type # "NORMAL" =>
              Members(allocated_cores'[v]) \intersect lost'[v] = {}
      BY <1>1, <1>3, <2>8 DEF PoolsOK, CoresConserved
    <3> QED
      BY <1>5, <2>5, <2>6, <3>1, <3>2 DEF CoresConserved
  <2>10. DistinctHeld'
    BY <1>1, <1>3, <2>2 DEF PoolsOK, DistinctHeld
  <2> QED
    BY <1>1, <1>2, <1>4, <2>1, <2>2, <2>9, <2>10 DEF PoolsOK
<1> QED
  BY <1>1, <1>7, <1>8, <1>9 DEF AffinityType

\* Worker.cpp:94-95: what the worker held is in its pool again.
LEMMA StopConserves ==
    ASSUME TypeOK, PoolsOK, NEW w \in Workers, StopEffects(w),
           UNCHANGED <<policy, history>>
    PROVE  PoolsOK'
<1> DEFINE t == policy[w].affinity_type
           s == allocated_cores[w]
<1>1. /\ t \in AffinityType
      /\ s \in Seq(Cpus)
      /\ allocated_cores' = [allocated_cores EXCEPT ![w] = <<>>]
      /\ pinned_core_pool' = pinned_core_pool \o (IF t = "PINNED" THEN s ELSE <<>>)
      /\ isol_core_pool' = isol_core_pool \o (IF t = "ISOLATED" THEN s ELSE <<>>)
      /\ policy' = policy /\ lost' = lost /\ restarted' = restarted
  BY PoliciesAssumption DEF TypeOK, StopEffects, history
<1>2. /\ pinned_core_pool \in Seq(Cpus) /\ Distinct(pinned_core_pool)
      /\ isol_core_pool \in Seq(Cpus) /\ Distinct(isol_core_pool)
  BY DEF PoolsOK, CoresConserved, Partition
<1>3. /\ allocated_cores'[w] = <<>>
      /\ \A v \in Workers : v # w =>
           allocated_cores'[v] = allocated_cores[v] /\ Taken(v)' = Taken(v)
      /\ allocated_cores' \in [Workers -> Seq(Cpus)]
  BY <1>1 DEF PoolsOK, Taken
<1>4. Members(<<>>) = {} /\ Distinct(<<>>)
  BY DEF Members, Distinct
<1>5. DistinctHeld'
  BY <1>3, <1>4 DEF PoolsOK, DistinctHeld
<1>6. t # "NORMAL" =>
        Members(s) \subseteq Taken(w) /\ Taken(w)' = Taken(w) \ Members(s)
  BY <1>1, <1>3, <1>4 DEF PoolsOK, CoresConserved, Taken
<1>7. \A u, v \in Workers :
        /\ u # v
        /\ policy[u].affinity_type = policy[v].affinity_type
        /\ policy[u].affinity_type # "NORMAL"
        => Taken(u)' \intersect Taken(v)' = {}
  <2> SUFFICES ASSUME NEW u \in Workers, NEW v \in Workers, u # v,
                      policy[u].affinity_type = policy[v].affinity_type,
                      policy[u].affinity_type # "NORMAL"
               PROVE  Taken(u)' \intersect Taken(v)' = {}
    OBVIOUS
  <2>1. Taken(u) \intersect Taken(v) = {}
    BY DEF PoolsOK, CoresConserved
  <2>2. Taken(u)' \subseteq Taken(u) /\ Taken(v)' \subseteq Taken(v)
    BY <1>3, <1>6
  <2> QED
    BY <2>1, <2>2
<1>8. /\ \A v \in Workers : policy'[v].affinity_type # "NORMAL" =>
            Members(allocated_cores'[v]) \intersect lost'[v] = {}
      /\ \A v \in Workers : lost'[v] # {} => v \in restarted'
  <2>1. \A v \in Workers : policy[v].affinity_type # "NORMAL" =>
          Members(allocated_cores'[v]) \intersect lost[v] = {}
    BY <1>3, <1>4 DEF PoolsOK, CoresConserved
  <2>2. \A v \in Workers : lost[v] # {} => v \in restarted
    BY DEF PoolsOK, CoresConserved
  <2> QED
    BY <1>1, <2>1, <2>2
<1>9. \A type \in {"PINNED", "ISOLATED"} : \A v \in Workers :
        /\ v # w
        /\ policy[v].affinity_type = type
        /\ policy[w].affinity_type = type
        => Taken(v) \intersect Taken(w) = {}
  BY DEF PoolsOK, CoresConserved
<1>10. CASE t = "NORMAL"
  <2>1. /\ pinned_core_pool' = pinned_core_pool
        /\ isol_core_pool' = isol_core_pool
    BY <1>1, <1>2, <1>10
  <2>2. /\ TakenOf("PINNED")' = TakenOf("PINNED")
        /\ TakenOf("ISOLATED")' = TakenOf("ISOLATED")
    BY <1>1, <1>3, <1>10, <1>9, TakenStep
  <2>3. CoresConserved'
    BY <1>1, <1>7, <1>8, <2>1, <2>2 DEF PoolsOK, CoresConserved
  <2> QED
    BY <1>1, <1>2, <1>3, <1>5, <2>1, <2>3 DEF PoolsOK
<1>11. CASE t = "PINNED"
  <2>1. /\ pinned_core_pool' = pinned_core_pool \o s
        /\ isol_core_pool' = isol_core_pool
    BY <1>1, <1>2, <1>11
  <2>2. /\ TakenOf("PINNED")' = TakenOf("PINNED") \ Members(s)
        /\ TakenOf("ISOLATED")' = TakenOf("ISOLATED")
    BY <1>1, <1>3, <1>6, <1>11, <1>9, TakenStep
  <2>3. Members(s) \subseteq TakenOf("PINNED") /\ Distinct(s)
    BY <1>6, <1>11 DEF TakenOf, PoolsOK, DistinctHeld
  <2>4. Members(pinned_core_pool) \intersect Members(s) = {}
    BY <2>3 DEF PoolsOK, CoresConserved, Partition
  <2>5. /\ pinned_core_pool' \in Seq(Cpus)
        /\ Distinct(pinned_core_pool')
        /\ Members(pinned_core_pool') = Members(pinned_core_pool) \union Members(s)
    BY <1>1, <1>2, <2>1, <2>3, <2>4, GivingBackJoins
  <2>6. Partition(pinned_core_pool, TakenOf("PINNED"), Members(PinnedCores))'
    BY <2>2, <2>3, <2>5 DEF PoolsOK, CoresConserved, Partition
  <2>7. Partition(isol_core_pool, TakenOf("ISOLATED"), Members(IsolatedCores))'
    BY <2>1, <2>2 DEF PoolsOK, CoresConserved, Partition
  <2>8. CoresConserved'
    <3>1. \A u, v \in Workers :
            /\ u # v
            /\ policy'[u].affinity_type = policy'[v].affinity_type
            /\ policy'[u].affinity_type # "NORMAL"
            => Taken(u)' \intersect Taken(v)' = {}
      BY <1>1, <1>7
    <3> QED
      BY <1>8, <2>6, <2>7, <3>1 DEF CoresConserved
  <2> QED
    BY <1>1, <1>2, <1>3, <1>5, <2>1, <2>5, <2>8 DEF PoolsOK
<1>12. CASE t = "ISOLATED"
  <2>1. /\ isol_core_pool' = isol_core_pool \o s
        /\ pinned_core_pool' = pinned_core_pool
    BY <1>1, <1>2, <1>12
  <2>2. /\ TakenOf("ISOLATED")' = TakenOf("ISOLATED") \ Members(s)
        /\ TakenOf("PINNED")' = TakenOf("PINNED")
    BY <1>1, <1>3, <1>6, <1>12, <1>9, TakenStep
  <2>3. Members(s) \subseteq TakenOf("ISOLATED") /\ Distinct(s)
    BY <1>6, <1>12 DEF TakenOf, PoolsOK, DistinctHeld
  <2>4. Members(isol_core_pool) \intersect Members(s) = {}
    BY <2>3 DEF PoolsOK, CoresConserved, Partition
  <2>5. /\ isol_core_pool' \in Seq(Cpus)
        /\ Distinct(isol_core_pool')
        /\ Members(isol_core_pool') = Members(isol_core_pool) \union Members(s)
    BY <1>1, <1>2, <2>1, <2>3, <2>4, GivingBackJoins
  <2>6. Partition(isol_core_pool, TakenOf("ISOLATED"), Members(IsolatedCores))'
    BY <2>2, <2>3, <2>5 DEF PoolsOK, CoresConserved, Partition
  <2>7. Partition(pinned_core_pool, TakenOf("PINNED"), Members(PinnedCores))'
    BY <2>1, <2>2 DEF PoolsOK, CoresConserved, Partition
  <2>8. CoresConserved'
    <3>1. \A u, v \in Workers :
            /\ u # v
            /\ policy'[u].affinity_type = policy'[v].affinity_type
            /\ policy'[u].affinity_type # "NORMAL"
            => Taken(u)' \intersect Taken(v)' = {}
      BY <1>1, <1>7
    <3> QED
      BY <1>8, <2>6, <2>7, <3>1 DEF CoresConserved
  <2> QED
    BY <1>1, <1>2, <1>3, <1>5, <2>1, <2>5, <2>8 DEF PoolsOK
<1> QED
  BY <1>1, <1>10, <1>11, <1>12 DEF AffinityType

\* The control thread's steps that leave pools and cores alone.
LEMMA PoolsUntouched ==
    ASSUME PoolsOK, UNCHANGED <<pools, policy, allocated_cores, lost>>,
           restarted \subseteq restarted'
    PROVE  PoolsOK'
<1>1. \A v \in Workers : lost'[v] # {} => v \in restarted'
  BY DEF PoolsOK, CoresConserved
<1> QED
  BY <1>1 DEF PoolsOK, CoresConserved, Partition, TakenOf, Taken, DistinctHeld, pools

\* What a step does to cores: nothing, or what start() or stop() does.
LEMMA PoolsStep ==
    ASSUME TypeOK, PoolsOK, HeldUntilStop, [Next]_vars
    PROVE  PoolsOK'
<1> DEFINE Untouched == /\ UNCHANGED <<pools, policy, allocated_cores, lost>>
                        /\ restarted \subseteq restarted'
<1>1. CASE Untouched
  BY <1>1, PoolsUntouched
<1>2. ASSUME NEW w \in Workers, StartAllocated(w)
      PROVE  PoolsOK'
  BY <1>2, StartConserves
<1>3. ASSUME NEW w \in Workers, Stop(w) \/ Destroy(w)
      PROVE  PoolsOK'
  BY <1>3, StopConserves DEF Stop, Destroy
<1>4. ASSUME NEW w \in Workers, StartUnallocated(w) \/ StartThrows(w) \/ StartHangs(w)
      PROVE  Untouched
  BY <1>4 DEF StartUnallocated, StartThrows, StartHangs, ClearFlag
<1>5. ASSUME NEW w \in Workers, NEW g \in Starts, ThreadNext(w, g) \/ ReturnUnasked(w, g)
      PROVE  Untouched
  BY <1>5 DEF ThreadNext, ReadStrict, SetPriority, PriorityFails, SetAffinity, AffinityFails,
              SeeStop, ReturnUnasked, FuncReturns, Fails, ThreadOnly, history
<1>6. StartReturns \/ DestroyReturns => Untouched
  BY DEF StartReturns, DestroyReturns, history
<1>7. UNCHANGED vars => Untouched
  BY DEF vars, history
<1> QED
  BY <1>1, <1>2, <1>3, <1>4, <1>5, <1>6, <1>7 DEF Next, ControlNext

\* The lengths that TypeOK bounds follow from what the pools are made of.
LEMMA PoolsFit ==
    ASSUME PoolsOK
    PROVE  /\ Len(pinned_core_pool) <= Len(PinnedCores)
           /\ Len(isol_core_pool) <= Len(IsolatedCores)
<1>1. /\ pinned_core_pool \in Seq(Cpus) /\ Distinct(pinned_core_pool)
      /\ Members(pinned_core_pool) \subseteq Members(PinnedCores)
      /\ isol_core_pool \in Seq(Cpus) /\ Distinct(isol_core_pool)
      /\ Members(isol_core_pool) \subseteq Members(IsolatedCores)
  BY DEF PoolsOK, CoresConserved, Partition
<1> QED
  BY <1>1, PoolsAssumption, DistinctIsShortest

\* start() has a mask for the thread it makes.
LEMMA SpawnStep ==
    ASSUME TypeOK, NEW w \in Workers, NEW mask \in SUBSET Cpus, MayStart(w), Spawn(w, mask)
    PROVE  /\ starts' \in [Workers -> 0..MaxStarts]
           /\ thread' \in [Workers -> [Starts -> Thread]]
           /\ control' \in Control
           /\ \A v \in Workers, g \in Starts :
                thread'[v][g] # thread[v][g] => v = w /\ g = starts'[v]
<1> USE MaxStartsAssumption DEF TypeOK
<1>1. PICK strict \in BOOLEAN :
        thread' = [thread EXCEPT ![w][starts[w] + 1] =
                    [NoThread EXCEPT !.pc = "fresh", !.strict = strict, !.mask = mask]]
  BY DEF Spawn
<1>2. [NoThread EXCEPT !.pc = "fresh", !.strict = strict, !.mask = mask] \in Thread
  BY DEF NoThread, Thread
<1>3. starts[w] + 1 \in 0..MaxStarts /\ starts'[w] = starts[w] + 1
  BY DEF MayStart, Spawn
<1>4. thread' \in [Workers -> [Starts -> Thread]]
  BY <1>1, <1>2
<1>5. \A v \in Workers, g \in Starts : v # w \/ g # starts[w] + 1 => thread'[v][g] = thread[v][g]
  BY <1>1
<1> QED
  BY <1>3, <1>4, <1>5 DEF Spawn, Control

\* A thread's step: its own entry changes, and it goes on, or ends.
LEMMA ThreadStep ==
    ASSUME TypeOK, NEW w \in Workers, NEW g \in Starts, ThreadNext(w, g) \/ ReturnUnasked(w, g)
    PROVE  /\ thread' \in [Workers -> [Starts -> Thread]]
           /\ process' \in {"running", "terminated", "undefined"}
           /\ \A v \in Workers, f \in Starts : Live(v, f)' => Live(v, f)
           /\ ThreadOnly
<1> USE DEF TypeOK, ThreadOnly
<1> DEFINE OneThread(th) ==
             /\ th \in Thread
             /\ thread[w][g].pc \notin {"none", "done"}
             /\ thread' = [thread EXCEPT ![w][g] = th]
<1>0. thread[w][g] \in Thread /\ thread \in [Workers -> [Starts -> Thread]]
  OBVIOUS
<1>1. ASSUME NEW th, OneThread(th)
      PROVE  /\ thread' \in [Workers -> [Starts -> Thread]]
             /\ \A v \in Workers, f \in Starts : Live(v, f)' => Live(v, f)
  BY <1>1 DEF Live
<1>2. CASE ReadStrict(w, g)
  <2>1. PICK strict \in BOOLEAN :
          thread' = [thread EXCEPT ![w][g].pc = "priority", ![w][g].strict = strict]
    <3>1. (IF FrameAlive(w, g) THEN {thread[w][g].strict} ELSE BOOLEAN) \subseteq BOOLEAN
      BY <1>0 DEF Thread
    <3> QED
      BY <1>2, <3>1 DEF ReadStrict
  <2>2. thread[w][g].pc = "fresh"
    BY <1>2 DEF ReadStrict
  <2>3. [thread[w][g] EXCEPT !.pc = "priority", !.strict = strict] \in Thread
    BY <1>0 DEF Thread
  <2>4. thread' = [thread EXCEPT ![w][g] =
                     [thread[w][g] EXCEPT !.pc = "priority", !.strict = strict]]
    BY <1>0, <2>1
  <2>5. OneThread([thread[w][g] EXCEPT !.pc = "priority", !.strict = strict])
    BY <2>2, <2>3, <2>4
  <2> QED
    BY <1>1, <1>2, <2>5 DEF ReadStrict
<1>3. ASSUME NEW from, NEW to \in {"affinity", "loop"}, from \notin {"none", "done"},
             Goes(w, g, from, to)
      PROVE  OneThread([thread[w][g] EXCEPT !.pc = to])
  <2>1. [thread[w][g] EXCEPT !.pc = to] \in Thread
    BY <1>0 DEF Thread
  <2>2. thread' = [thread EXCEPT ![w][g] = [thread[w][g] EXCEPT !.pc = to]]
    BY <1>0, <1>3 DEF Goes
  <2> QED
    BY <1>3, <2>1, <2>2 DEF Goes
<1>4. CASE SetPriority(w, g)
  BY <1>1, <1>3, <1>4 DEF SetPriority
<1>5. ASSUME NEW from, NEW to \in {"affinity", "loop"}, from \notin {"none", "done"},
             Fails(w, g, from, to)
      PROVE  /\ thread' \in [Workers -> [Starts -> Thread]]
             /\ process' \in {"running", "terminated", "undefined"}
             /\ \A v \in Workers, f \in Starts : Live(v, f)' => Live(v, f)
             /\ ThreadOnly
  <2>1. CASE Goes(w, g, from, to) /\ UNCHANGED process
    BY <1>1, <1>3, <1>5, <2>1 DEF Fails
  <2>2. CASE /\ UNCHANGED thread
             /\ process' = IF object[w] # "alive" THEN "undefined" ELSE "terminated"
    BY <1>5, <2>2 DEF Fails, Live
  <2> QED
    BY <1>5, <2>1, <2>2 DEF Fails
<1>6. CASE PriorityFails(w, g) \/ AffinityFails(w, g)
  BY <1>5, <1>6 DEF PriorityFails, AffinityFails
<1>7. CASE SetAffinity(w, g)
  <2>1. PICK mask \in SUBSET Cpus :
          thread' = [thread EXCEPT ![w][g].pc = "loop", ![w][g].strict = FALSE,
                                 ![w][g].affinity = mask]
    <3>1. MasksRead(w, g) \subseteq SUBSET Cpus
      BY DEF MasksRead, Thread
    <3> QED
      BY <1>7, <3>1 DEF SetAffinity
  <2>2. thread[w][g].pc = "affinity"
    BY <1>7 DEF SetAffinity
  <2>3. [thread[w][g] EXCEPT !.pc = "loop", !.strict = FALSE, !.affinity = mask] \in Thread
    BY <1>0 DEF Thread
  <2>4. thread' = [thread EXCEPT ![w][g] =
          [thread[w][g] EXCEPT !.pc = "loop", !.strict = FALSE, !.affinity = mask]]
    BY <1>0, <2>1
  <2>5. OneThread([thread[w][g] EXCEPT !.pc = "loop", !.strict = FALSE, !.affinity = mask])
    BY <2>2, <2>3, <2>4
  <2> QED
    BY <1>1, <1>7, <2>5 DEF SetAffinity
<1>8. CASE FuncReturns(w, g)
  <2>1. OneThread([NoThread EXCEPT !.pc = "done"])
    BY <1>8 DEF FuncReturns, NoThread, Thread
  <2> QED
    BY <1>1, <1>8, <2>1 DEF FuncReturns
<1> QED
  BY <1>2, <1>4, <1>6, <1>7, <1>8 DEF ThreadNext, SeeStop, ReturnUnasked

\* The mask that start() writes is made of the machine's cpus.
LEMMA MaskOfCpus ==
    ASSUME TypeOK, PoolsOK, HeldUntilStop, NEW w \in Workers, StartAllocated(w)
    PROVE  Members(AllocatedFor(policy[w])) \subseteq Cpus
<1>1. PoolsOK'
  BY StartConserves
<1>2. AllocatedFor(policy[w]) \in Seq(Cpus)
  BY <1>1 DEF StartAllocated, Overwrite, PoolsOK
<1> QED
  BY <1>2 DEF Members

\* TypeOK from its parts.
LEMMA TypeFromParts ==
    ASSUME TypeOK, PoolsOK', policy' = policy,
           stop_flag' \in [Workers -> BOOLEAN],
           object' \in [Workers -> {"alive", "destroying", "dead"}],
           starts' \in [Workers -> 0..MaxStarts],
           restarted' \subseteq Workers,
           thread' \in [Workers -> [Starts -> Thread]],
           control' \in Control,
           process' \in {"running", "terminated", "undefined"}
    PROVE  TypeOK'
<1>1. (/\ Len(pinned_core_pool) <= Len(PinnedCores)
       /\ Len(isol_core_pool) <= Len(IsolatedCores))'
  BY PoolsFit, PTL
<1> QED
  BY <1>1 DEF TypeOK, PoolsOK

\* Worker.cpp:78-87: start() makes a thread, and nobody else's flag changes.
LEMMA StartStep ==
    ASSUME IInv, NEW w \in Workers,
           \/ StartAllocated(w) \/ StartUnallocated(w)
           \/ StartThrows(w) \/ StartHangs(w)
    PROVE  IInv'
<1> USE DEF IInv
<1>1. PoolsOK /\ PoolsOK'
  <2>1. PoolsOK
    BY DEF PoolsOK, TypeOK
  <2> QED
    BY <2>1, PoolsStep DEF Next, ControlNext
<1>2. /\ control = Idle /\ object[w] = "alive"
      /\ UNCHANGED <<policy, object, process>>
      /\ stop_flag' = [stop_flag EXCEPT ![w] = FALSE]
      /\ restarted' \subseteq Workers
  BY DEF StartAllocated, StartUnallocated, StartThrows, StartHangs, MayStart, ClearFlag, TypeOK
<1>3. CASE \E mask \in SUBSET Cpus : MayStart(w) /\ Spawn(w, mask)
  <2>1. PICK mask \in SUBSET Cpus : MayStart(w) /\ Spawn(w, mask)
    BY <1>3
  <2>2. /\ starts' \in [Workers -> 0..MaxStarts]
        /\ thread' \in [Workers -> [Starts -> Thread]]
        /\ control' \in Control
        /\ \A v \in Workers, g \in Starts :
             thread'[v][g] # thread[v][g] => v = w /\ g = starts'[v]
    BY <2>1, SpawnStep
  <2>3. TypeOK'
    BY <1>1, <1>2, <2>2, TypeFromParts DEF TypeOK
  <2>4. /\ starts' = [starts EXCEPT ![w] = @ + 1]
        /\ control' = [pc |-> "start", w |-> w]
    BY <2>1 DEF Spawn
  <2>5. OneThreadPerWorker'
    <3> SUFFICES ASSUME NEW v \in Workers, NEW g \in Starts, Live(v, g)', g # starts'[v]
                 PROVE  g = starts'[v] - 1 /\ control' = [pc |-> "start", w |-> v]
      BY DEF OneThreadPerWorker
    <3>1. Live(v, g)
      BY <2>2 DEF Live
    <3>2. g = starts[v]
      BY <1>2, <3>1 DEF OneThreadPerWorker, Idle
    <3>3. v = w
      BY <2>4, <3>2 DEF TypeOK
    <3> QED
      BY <2>4, <3>2, <3>3 DEF TypeOK
  <2>6. NoThreadOutlivesWorker'
    BY <1>2, <2>2 DEF NoThreadOutlivesWorker, Live
  <2>7. HeldUntilStop'
    <3>1. ~stop_flag'[w] /\ starts'[w] > 0
      BY <1>2, <2>4 DEF TypeOK
    <3>2. \A v \in Workers : v # w =>
            /\ starts'[v] = starts[v] /\ stop_flag'[v] = stop_flag[v]
            /\ allocated_cores'[v] = allocated_cores[v]
      BY <1>2, <2>4 DEF TypeOK, StartAllocated, StartUnallocated, StartThrows, StartHangs, Overwrite
    <3> QED
      BY <1>2, <3>1, <3>2 DEF HeldUntilStop
  <2> QED
    BY <1>1, <2>3, <2>5, <2>6, <2>7 DEF PoolsOK
<1>4. CASE StartThrows(w) \/ StartHangs(w)
  <2>1. /\ UNCHANGED <<allocated_cores, starts, thread>>
        /\ control' \in {control, [pc |-> "hung", w |-> w]}
    BY <1>4 DEF StartThrows, StartHangs
  <2>2. control' \in Control
    BY <1>2, <2>1 DEF Control, Idle
  <2>3. TypeOK'
    BY <1>1, <1>2, <2>1, <2>2, TypeFromParts DEF TypeOK
  <2>4. OneThreadPerWorker' /\ NoThreadOutlivesWorker'
    BY <1>2, <2>1 DEF OneThreadPerWorker, NoThreadOutlivesWorker, Live, Idle
  <2>5. HeldUntilStop'
    <3>1. \A v \in Workers : stop_flag'[v] => stop_flag[v]
      BY <1>2 DEF TypeOK
    <3> QED
      BY <1>2, <2>1, <3>1 DEF HeldUntilStop
  <2> QED
    BY <1>1, <2>3, <2>4, <2>5 DEF PoolsOK
<1>5. StartAllocated(w) => MayStart(w) /\ Spawn(w, Members(AllocatedFor(policy[w])))
  BY DEF StartAllocated
<1>6. StartUnallocated(w) => MayStart(w) /\ Spawn(w, {})
  BY DEF StartUnallocated
<1> QED
  BY <1>1, <1>3, <1>4, <1>5, <1>6, MaskOfCpus

\* Worker.cpp:89-96 and the destructor: cores go back, and no thread is touched.
LEMMA StopStep ==
    ASSUME IInv, NEW w \in Workers, Stop(w) \/ Destroy(w)
    PROVE  IInv'
<1> USE DEF IInv
<1>1. PoolsOK /\ PoolsOK'
  <2>1. PoolsOK
    BY DEF PoolsOK, TypeOK
  <2> QED
    BY <2>1, PoolsStep DEF Next, ControlNext
<1>2. /\ control = Idle /\ object[w] = "alive"
      /\ UNCHANGED <<policy, starts, lost, restarted, thread, process>>
      /\ stop_flag' = [stop_flag EXCEPT ![w] = TRUE]
      /\ allocated_cores' = [allocated_cores EXCEPT ![w] = <<>>]
      /\ \/ UNCHANGED <<object, control>>
         \/ /\ object' = [object EXCEPT ![w] = "destroying"]
            /\ control' = [pc |-> "destroy", w |-> w]
  BY DEF Stop, Destroy, StopEffects, history
<1>3. control' \in Control
  BY <1>2 DEF TypeOK, Control
<1>4. TypeOK'
  BY <1>1, <1>2, <1>3, TypeFromParts DEF TypeOK
<1>5. OneThreadPerWorker'
  BY <1>2 DEF OneThreadPerWorker, Live, Idle
<1>6. NoThreadOutlivesWorker'
  BY <1>2 DEF NoThreadOutlivesWorker, Live, TypeOK
<1>7. HeldUntilStop'
  <2>1. \A v \in Workers : v # w =>
          /\ object'[v] = object[v] /\ stop_flag'[v] = stop_flag[v]
          /\ allocated_cores'[v] = allocated_cores[v]
    BY <1>2 DEF TypeOK
  <2>2. allocated_cores'[w] = <<>>
    BY <1>2 DEF TypeOK
  <2> QED
    BY <1>2, <2>1, <2>2 DEF HeldUntilStop
<1> QED
  BY <1>1, <1>4, <1>5, <1>6, <1>7 DEF PoolsOK

\* The join in the assignment of work_thread (Worker.cpp:85).
LEMMA StartReturnsStep ==
    ASSUME IInv, StartReturns
    PROVE  IInv'
<1> USE DEF IInv
<1>1. PoolsOK /\ PoolsOK'
  <2>1. PoolsOK
    BY DEF PoolsOK, TypeOK
  <2> QED
    BY <2>1, PoolsStep DEF Next
<1>2. control' = Idle /\ control.pc = "start"
      /\ UNCHANGED <<pools, policy, allocated_cores, stop_flag, object, starts, lost, restarted,
                    thread, process>>
  BY DEF history, StartReturns
<1>3. control' \in Control
  BY <1>2 DEF Control, Idle
<1>4. TypeOK'
  BY <1>1, <1>2, <1>3, TypeFromParts DEF TypeOK
<1>5. OneThreadPerWorker'
  <2> SUFFICES ASSUME NEW v \in Workers, NEW g \in Starts, Live(v, g), g # starts[v]
               PROVE  FALSE
    BY <1>2 DEF OneThreadPerWorker, Live
  <2>1. g = starts[v] - 1 /\ control.w = v
    BY DEF OneThreadPerWorker
  <2>2. starts[v] > 1
    BY <2>1 DEF TypeOK, Starts
  <2>3. thread[v][g].pc = "done"
    BY <2>1, <2>2 DEF StartReturns
  <2> QED
    BY <2>3 DEF Live
<1>6. NoThreadOutlivesWorker' /\ HeldUntilStop'
  BY <1>2 DEF NoThreadOutlivesWorker, HeldUntilStop, Live
<1> QED
  BY <1>1, <1>4, <1>5, <1>6 DEF PoolsOK

\* The join in ~jthread() (Worker.h:71).
LEMMA DestroyReturnsStep ==
    ASSUME IInv, DestroyReturns
    PROVE  IInv'
<1> USE DEF IInv
<1>1. PoolsOK /\ PoolsOK'
  <2>1. PoolsOK
    BY DEF PoolsOK, TypeOK
  <2> QED
    BY <2>1, PoolsStep DEF Next
<1> DEFINE w == control.w
<1>2. /\ control' = Idle /\ control.pc = "destroy"
      /\ object' = [object EXCEPT ![w] = "dead"]
      /\ starts[w] > 0 => thread[w][starts[w]].pc = "done"
      /\ UNCHANGED <<pools, policy, allocated_cores, stop_flag, starts, lost, restarted, thread,
                    process>>
  BY DEF history, DestroyReturns
<1>3. control' \in Control
  BY <1>2 DEF Control, Idle
<1>4. TypeOK'
  BY <1>1, <1>2, <1>3, TypeFromParts DEF TypeOK
<1>5. \A v \in Workers, g \in Starts : Live(v, g) => g = starts[v]
  BY <1>2 DEF OneThreadPerWorker
<1>6. OneThreadPerWorker'
  BY <1>2, <1>5 DEF OneThreadPerWorker, Live
<1>7. NoThreadOutlivesWorker'
  <2> SUFFICES ASSUME NEW v \in Workers, NEW g \in Starts, object'[v] = "dead", Live(v, g)
               PROVE  FALSE
    BY <1>2 DEF NoThreadOutlivesWorker, Live
  <2>1. g = starts[v] /\ starts[v] > 0
    BY <1>5 DEF Starts
  <2>2. v # w
    BY <1>2, <2>1 DEF Live
  <2>3. object[v] = "dead"
    BY <1>2, <2>2 DEF TypeOK
  <2> QED
    BY <2>3 DEF NoThreadOutlivesWorker
<1>8. HeldUntilStop'
  BY <1>2 DEF HeldUntilStop, TypeOK
<1> QED
  BY <1>1, <1>4, <1>6, <1>7, <1>8 DEF PoolsOK

\* No thread comes to life again.
LEMMA ThreadKeepsIInv ==
    ASSUME IInv, NEW w \in Workers, NEW g \in Starts, ThreadNext(w, g) \/ ReturnUnasked(w, g)
    PROVE  IInv'
<1> USE DEF IInv
<1>1. /\ thread' \in [Workers -> [Starts -> Thread]]
      /\ process' \in {"running", "terminated", "undefined"}
      /\ \A v \in Workers, f \in Starts : Live(v, f)' => Live(v, f)
      /\ UNCHANGED <<pools, policy, allocated_cores, stop_flag, object, starts, lost, restarted,
                    control>>
  BY ThreadStep DEF ThreadOnly, history
<1>2. PoolsOK'
  BY <1>1, PoolsUntouched DEF PoolsOK, TypeOK
<1>3. TypeOK'
  BY <1>1, <1>2, TypeFromParts DEF TypeOK
<1>4. OneThreadPerWorker' /\ NoThreadOutlivesWorker' /\ HeldUntilStop'
  BY <1>1 DEF OneThreadPerWorker, NoThreadOutlivesWorker, HeldUntilStop
<1> QED
  BY <1>2, <1>3, <1>4 DEF PoolsOK

\* The invariant holds of every reachable state.
LEMMA Inductive == Spec => []IInv
<1>1. IInv /\ [Next]_vars => IInv'
  <2>1. IInv /\ UNCHANGED vars => IInv'
    BY DEF IInv, TypeOK, CoresConserved, Partition, TakenOf, Taken, HeldUntilStop, DistinctHeld,
           OneThreadPerWorker, NoThreadOutlivesWorker, Live, vars, pools, history
  <2> QED
    BY <2>1, StartStep, StopStep, StartReturnsStep, DestroyReturnsStep, ThreadKeepsIInv
       DEF Next, ControlNext
<1> QED
  BY <1>1, InitIInv, PTL DEF Spec

-----------------------------------------------------------------------------
(* The theorems *)

\* Every variable of the workers keeps its type, and no pool grows beyond what
\* parse_cpus() found (CPUManager.cpp:113-143).
THEOREM TypeCorrect == Spec => []TypeOK
BY Inductive, PTL DEF IInv

\* In whatever order any number of workers are started, started again and
\* stopped, every core is in its pool or with the one worker that took it, and a
\* worker that is stopped before each further start() loses none (Worker.cpp:26,
\* 94-95).
THEOREM WorkersConserveCores == Spec => []CoresConserved
BY Inductive, PTL DEF IInv

\* The join in the assignment of work_thread (Worker.cpp:85) leaves no thread of
\* an earlier start() behind.
THEOREM OneThread == Spec => []OneThreadPerWorker
BY Inductive, PTL DEF IInv

\* ~jthread() leaves no thread that uses a Worker that is gone (Worker.h:71).
THEOREM ThreadsEndFirst == Spec => []NoThreadOutlivesWorker
BY Inductive, PTL DEF IInv
=============================================================================
