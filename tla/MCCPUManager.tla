---------------------------- MODULE MCCPUManager ----------------------------
(***************************************************************************)
(* Instances of CPUManager for TLC: a machine whose cpus 1, 2 are pinnable *)
(* and whose cpu 3 (and 4) is isolated, two callers.                       *)
(***************************************************************************)
EXTENDS CPUManager, TLC

MCPinned == <<1, 2>>
MCIsolated == <<3>>

CallerSymmetry == Permutations(Callers)
=============================================================================
