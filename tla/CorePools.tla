----------------------------- MODULE CorePools -----------------------------
(***************************************************************************)
(* The arithmetic of pt::threads::CPUManager (CPUManager.cpp) on its two   *)
(* vectors of free cpu ids: what a ThreadPolicy asks for, whether the      *)
(* pools can serve it, which cores it is granted and what is left behind.  *)
(* The operators are pure; CPUManager and Worker call them on their state. *)
(***************************************************************************)
EXTENDS Naturals, Sequences

AffinityType == {"NORMAL", "PINNED", "ISOLATED"}

\* A ThreadPolicy without the fields the allocator ignores (name, priority).
ThreadPolicy(maxCores) ==
    [cores : 0..maxCores, affinity_type : AffinityType, strict : BOOLEAN]

\* A granted Core: the cpu and the pool deallocate() returns it to.
Core(cpus) == [cpu_id : cpus, affinity_type : AffinityType]

Members(pool) == {pool[i] : i \in 1..Len(pool)}

Distinct(pool) == \A i, j \in 1..Len(pool) : pool[i] = pool[j] => i = j

\* The free cpus of a pool and the reserved ones are all its cpus, each once.
Partition(pool, reserved, all) ==
    /\ Distinct(pool)
    /\ Members(pool) \intersect reserved = {}
    /\ Members(pool) \union reserved = all

\* The n cpus that n rounds of back() and pop_back() take, and what they leave.
LastCpus(pool, n) == {pool[i] : i \in (Len(pool) - n + 1)..Len(pool)}
WithoutLast(pool, n) == SubSeq(pool, 1, Len(pool) - n)

\* The n cpus that at(0) .. at(n - 1) read.
FirstCpus(pool, n) == {pool[i] : i \in 1..n}

\* The same cpus in the order in which they are taken, as in the vector of Cores.
TakenInOrder(pool, n) == [i \in 1..n |-> pool[Len(pool) + 1 - i]]

CoresOf(cpus, type) ==
    {[cpu_id |-> x, affinity_type |-> type] : x \in cpus}

\* (mutated) The last free cpu is never handed out.
MoreThanEnough(p, pinned, isol) ==
    IF p.affinity_type = "ISOLATED"
    THEN p.cores < Len(pinned) + Len(isol)
    ELSE p.cores < Len(pinned)

\* Enough cpus in total: only an ISOLATED policy counts the isolated ones.
Enough(p, pinned, isol) ==
    IF p.affinity_type = "ISOLATED"
    THEN p.cores <= Len(pinned) + Len(isol)
    ELSE p.cores <= Len(pinned)

\* An ISOLATED policy that the isolated pool alone cannot serve.
LacksIsolated(p, isol) == p.affinity_type = "ISOLATED" /\ p.cores > Len(isol)

\* The cores a policy that is Enough, and not LacksIsolated, is granted: cpus
\* read from the front of a pool (NORMAL) or taken from its back.
Chosen(p, pinned, isol) ==
    IF p.affinity_type = "NORMAL" THEN FirstCpus(pinned, p.cores)
    ELSE LastCpus(IF p.affinity_type = "PINNED" THEN pinned ELSE isol, p.cores)

Granted(p, pinned, isol) == CoresOf(Chosen(p, pinned, isol), p.affinity_type)

PinnedLeft(p, pinned) ==
    IF p.affinity_type = "PINNED" THEN WithoutLast(pinned, p.cores) ELSE pinned

IsolLeft(p, isol) ==
    IF p.affinity_type = "ISOLATED" THEN WithoutLast(isol, p.cores) ELSE isol
=============================================================================
