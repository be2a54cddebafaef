--------------------------- MODULE CoreAllocator ---------------------------
(***************************************************************************)
(* What CPUManager promises its callers (CPUManager.h, and the flow chart  *)
(* docs/imgs/CPUManager_allocate_behaviour.png): every reservable cpu has  *)
(* at most one owner, a request is answered in one instant, either with as *)
(* many free cpus of the kind it asked for as it asked for, or with a      *)
(* refusal that the cpus free at that instant justify, and cpus come back  *)
(* one by one.                                                             *)
(***************************************************************************)
EXTENDS Naturals, FiniteSets, CorePools

CONSTANTS
    Callers,        \* the threads that call the allocator
    PinnedCpus,     \* the reservable cpus that are not isolated
    IsolatedCpus,   \* the reservable isolated cpus
    MaxCores,       \* the largest request
    Free,           \* the owner of a free cpu
    NoRequest       \* a caller that waits for nothing

VARIABLES
    owner,          \* owner[x]: the caller that holds cpu x, or Free
    request         \* request[c]: the policy c waits for, or NoRequest

absVars == <<owner, request>>

AbsInit ==
    /\ owner = [x \in PinnedCpus \union IsolatedCpus |-> Free]
    /\ request = [c \in Callers |-> NoRequest]

FreeIn(cpus) == {x \in cpus : owner[x] = Free}

Request(c) ==
    /\ request[c] = NoRequest
    /\ \E p \in ThreadPolicy(MaxCores) : request' = [request EXCEPT ![c] = p]
    /\ UNCHANGED owner

\* The sets of free cpus that serve policy p: pinned ones, unless it asks for
\* isolated ones; then pinned cpus only make up for isolated ones that lack,
\* and only when the policy is not strict.
Serves(S, p) ==
    /\ Cardinality(S) = p.cores
    /\ IF p.affinity_type = "ISOLATED"
       THEN /\ S \subseteq FreeIn(PinnedCpus \union IsolatedCpus)
            /\ S \intersect PinnedCpus # {} =>
                  ~p.strict /\ FreeIn(IsolatedCpus) \subseteq S
       ELSE S \subseteq FreeIn(PinnedCpus)

\* A NORMAL request needs the free cpus to exist and reserves none of them.
Grant(c) ==
    /\ request[c] # NoRequest
    /\ LET p == request[c] IN
         \E S \in SUBSET DOMAIN owner :
            /\ Serves(S, p)
            /\ owner' = [x \in DOMAIN owner |->
                            IF x \in S /\ p.affinity_type # "NORMAL"
                            THEN c ELSE owner[x]]
    /\ request' = [request EXCEPT ![c] = NoRequest]

\* A refusal is justified when no set of free cpus serves the request.
Refuse(c) ==
    /\ request[c] # NoRequest
    /\ \A S \in SUBSET DOMAIN owner : ~Serves(S, request[c])
    /\ request' = [request EXCEPT ![c] = NoRequest]
    /\ UNCHANGED owner

Return(c) ==
    /\ \E x \in DOMAIN owner :
         owner[x] = c /\ owner' = [owner EXCEPT ![x] = Free]
    /\ UNCHANGED request

AbsNext == \E c \in Callers : Request(c) \/ Grant(c) \/ Refuse(c) \/ Return(c)

AbsSpec == AbsInit /\ [][AbsNext]_absVars
=============================================================================
