------------------------------- MODULE Startup -------------------------------
(***************************************************************************)
(* How the CPUManager comes to be: Singleton::getInstance() (core/src/     *)
(* utils/singleton/Singleton.tpp) makes it in the first call, without a    *)
(* lock, and its constructor reads the cpus from the kernel (CPUManager.   *)
(* cpp, misc_utils.cpp).  The static instance is a shared_ptr, two words   *)
(* that are written, and copied, one after the other.                      *)
(***************************************************************************)
EXTENDS Naturals, Sequences, SequencesExt

CONSTANTS
    Threads,        \* the threads that call getInstance()
    MaxManagers,    \* bound on the managers made, those whose constructor throws apart
    Machines,       \* what the kernel may say: the lists of online and isolated cpus,
                    \* and whether the logger finds its configuration
    Unreadable      \* in place of a list that cannot be opened

VARIABLES
    machine,        \* the machine it runs on
    instance,       \* the static shared_ptr: what it points to, what it counts for
    made,           \* the managers, in the order of their construction
    owners,         \* how many shared_ptrs count for each
    thread,         \* each thread's step, and the shared_ptr in its hands
    overlapped      \* history: a first call has begun before another had returned

startVars == <<machine, instance, made, owners, thread, overlapped>>

Null == [ptr |-> 0, count |-> 0]

Idle == [pc |-> "idle", ptr |-> 0, count |-> 0]

StartInit ==
    /\ machine \in Machines
    /\ instance = Null
    /\ made = <<>>
    /\ owners = <<>>
    /\ thread = [t \in Threads |-> Idle]
    /\ overlapped = FALSE

-----------------------------------------------------------------------------
(* CPUManager::CPUManager() *)

\* (mutated) Leaves out the last cpu of a range.
CpusOfButLast(token) ==
    IF Len(token) = 1
    THEN token
    ELSE [i \in 1..(token[2] - token[1]) |-> token[1] + i - 1]

\* A token is a number, or the two ends of a range.
CpusOf(token) ==
    IF Len(token) = 1
    THEN token
    ELSE [i \in 1..(token[2] - token[1] + 1) |-> token[1] + i - 1]

parse_numeric_ranges(list) == FlattenSeq([i \in 1..Len(list) |-> CpusOf(list[i])])

\* getline() leaves the string as it is when the file could not be opened: an
\* empty one at first, and the list of the online cpus the second time.
OnlineLine == IF machine.online = Unreadable THEN <<>> ELSE machine.online
IsolatedLine == IF machine.isolated = Unreadable THEN OnlineLine ELSE machine.isolated

\* The isolated cpu is in the pool, or the code erases end(): the build drops the
\* last cpu (or wraps the size of an empty pool, left empty here), or crashes.
Erase(pool, cpu) ==
    IF cpu \in ToSet(pool) THEN RemoveFirst(pool, cpu)
    ELSE IF pool = <<>> THEN pool ELSE Front(pool)

ErasesEnd ==
    ~(ToSet(parse_numeric_ranges(IsolatedLine)) \subseteq ToSet(parse_numeric_ranges(OnlineLine)))

parse_cpus ==
    LET isolated == parse_numeric_ranges(IsolatedLine)
    IN  [pinned_core_pool |-> FoldLeft(Erase, parse_numeric_ranges(OnlineLine), isolated),
         isol_core_pool |-> isolated]

-----------------------------------------------------------------------------
(* Singleton::getInstance() *)

Making == {t \in Threads : thread[t].pc \in {"make", "store", "count"}}

Goes(t, pc) == thread' = [thread EXCEPT ![t].pc = pc]

Look(t) ==
    /\ thread[t].pc = "idle"
    /\ Goes(t, IF instance.ptr = 0 THEN "make" ELSE "copy")
    /\ overlapped' = (overlapped \/ Making # {})
    /\ UNCHANGED <<machine, instance, made, owners>>

Make(t) ==
    /\ thread[t].pc = "make"
    /\ machine.configured
    /\ Len(made) < MaxManagers
    /\ made' = Append(made, parse_cpus)
    /\ owners' = Append(owners, 1)
    /\ thread' = [thread EXCEPT ![t] = [pc |-> "store", ptr |-> Len(made'), count |-> Len(made')]]
    /\ UNCHANGED <<machine, instance, overlapped>>

\* The constructor throws when the logger has no configuration; the next call
\* tries again.
MakeThrows(t) ==
    /\ thread[t].pc = "make"
    /\ ~machine.configured
    /\ Goes(t, "idle")
    /\ UNCHANGED <<machine, instance, made, owners, overlapped>>

Crash(t) ==
    /\ thread[t].pc = "make"
    /\ ErasesEnd
    /\ thread' = [u \in Threads |-> [thread[u] EXCEPT !.pc = "crashed"]]
    /\ UNCHANGED <<machine, instance, made, owners, overlapped>>

StorePointer(t) ==
    /\ thread[t].pc = "store"
    /\ instance' = [instance EXCEPT !.ptr = thread[t].ptr]
    /\ Goes(t, "count")
    /\ UNCHANGED <<machine, made, owners, overlapped>>

\* One owner more of one manager or less of another.
Released(n) == [m \in 1..Len(owners) |-> owners[m] - (IF m = n THEN 1 ELSE 0)]
Shared(n) == [m \in 1..Len(owners) |-> owners[m] + (IF m = n THEN 1 ELSE 0)]

\* (mutated) The instance is not an owner.
StoreNoCount(t) ==
    /\ thread[t].pc = "count"
    /\ owners' = Released(thread[t].count)
    /\ Goes(t, "copy")
    /\ UNCHANGED <<machine, instance, made, overlapped>>

\* The manager that was counted until now has one owner less.
StoreCount(t) ==
    /\ thread[t].pc = "count"
    /\ instance' = [instance EXCEPT !.count = thread[t].count]
    /\ owners' = Released(instance.count)
    /\ Goes(t, "copy")
    /\ UNCHANGED <<machine, made, overlapped>>

Copy(t) ==
    /\ thread[t].pc = "copy"
    /\ thread' = [thread EXCEPT ![t].pc = "own", ![t].ptr = instance.ptr]
    /\ UNCHANGED <<machine, instance, made, owners, overlapped>>

CopyCount(t) ==
    /\ thread[t].pc = "own"
    /\ owners' = Shared(instance.count)
    /\ thread' = [thread EXCEPT ![t].pc = "use", ![t].count = instance.count]
    /\ UNCHANGED <<machine, instance, made, overlapped>>

\* The caller is done with the manager.
Leave(t) ==
    /\ thread[t].pc = "use"
    /\ owners' = Released(thread[t].count)
    /\ thread' = [thread EXCEPT ![t] = Idle]
    /\ UNCHANGED <<machine, instance, made, overlapped>>

-----------------------------------------------------------------------------
StartNext ==
    \E t \in Threads :
        \/ Look(t) \/ Make(t) \/ MakeThrows(t) \/ Crash(t)
        \/ StorePointer(t) \/ StoreCount(t)
        \/ Copy(t) \/ CopyCount(t) \/ Leave(t)

StartSpec == StartInit /\ [][StartNext]_startVars

-----------------------------------------------------------------------------
(* Properties *)

\* If no call has begun before the first had returned, as when one thread starts
\* all workers, there is one manager, and a thread that uses it owns it while it
\* does, also after constructors that threw (Singleton.tpp:11-14).
OneManagerForAll ==
    ~overlapped =>
        /\ Len(made) <= 1
        /\ \A t \in Threads : thread[t].pc = "use" =>
            /\ thread[t].ptr = 1
            /\ thread[t].count = 1
            /\ owners[1] >= 1

\* The cpus the kernel lists, none in a list that cannot be read.
Listed(list) ==
    IF list = Unreadable THEN {} ELSE UNION {t[1]..Last(t) : t \in ToSet(list)}

\* Every manager's pools are the kernel's cpus, each once and in one of them: the
\* isolated ones it lists, and the others that are online (CPUManager.cpp:20-34).
\* Nothing is claimed where the isolated list cannot be read, and the line of the
\* online cpus stands in for it (27), or an isolated cpu is offline (32).
PoolsFollowKernel ==
    ~ErasesEnd /\ machine.isolated # Unreadable => \A m \in 1..Len(made) :
        LET pinned == made[m].pinned_core_pool
            isolated == made[m].isol_core_pool
        IN  /\ IsInjective(pinned \o isolated)
            /\ ToSet(isolated) = Listed(machine.isolated)
            /\ ToSet(pinned) = Listed(machine.online) \ Listed(machine.isolated)
=============================================================================
