------------------------------ MODULE MCStartup ------------------------------
(* Machines of three cpus for TLC, any of them offline or isolated. *)
EXTENDS Startup, FiniteSets

\* A list as the kernel prints it: runs of cpus in ascending order.
RunsOf(cpus) ==
    {run \in cpus \X cpus : /\ run[1] <= run[2]
                            /\ run[1]..run[2] \subseteq cpus
                            /\ run[1] - 1 \notin cpus
                            /\ run[2] + 1 \notin cpus}

KernelList(cpus) ==
    LET runs == SetToSortSeq(RunsOf(cpus), LAMBDA a, b : a[1] < b[1])
    IN  [i \in 1..Len(runs) |-> IF runs[i][1] = runs[i][2] THEN <<runs[i][1]>> ELSE runs[i]]

Lists == {KernelList(cpus) : cpus \in SUBSET (0..2)}

SomeMachines ==
    [online : (Lists \ {<<>>}) \union {Unreadable}, isolated : Lists \union {Unreadable},
     configured : BOOLEAN]
=============================================================================
