------------------------------ MODULE MCWorker ------------------------------
(***************************************************************************)
(* Instances of Worker for TLC: two workers that compete for one pinned    *)
(* and one isolated cpu.                                                   *)
(***************************************************************************)
EXTENDS Worker

CONSTANTS w1, w2

MCPinned == <<1>>
MCIsolated == <<2>>

MCPolicy(n, type, strict) == [cores |-> n, affinity_type |-> type, strict |-> strict]

\* strict tells ISOLATED policies apart, and only these.
MCPolicyList == <<MCPolicy(0, "NORMAL", FALSE), MCPolicy(1, "NORMAL", FALSE),
                  MCPolicy(1, "PINNED", FALSE), MCPolicy(1, "ISOLATED", FALSE),
                  MCPolicy(1, "ISOLATED", TRUE)>>

MCPolicies == ToSet(MCPolicyList)

\* The two workers are interchangeable, so that every pair of policies is tried
\* in one order only; symmetry proper would not be sound with liveness.
MCInit ==
    /\ Init
    /\ \E i, j \in DOMAIN MCPolicyList :
           i <= j /\ policy[w1] = MCPolicyList[i] /\ policy[w2] = MCPolicyList[j]

MCSpec == MCInit /\ [][Next]_vars /\ Fairness
=============================================================================
