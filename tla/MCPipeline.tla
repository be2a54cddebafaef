----------------------------- MODULE MCPipeline -----------------------------
(***************************************************************************)
(* Instances of Pipeline for TLC.                                          *)
(***************************************************************************)
EXTENDS Pipeline

CONSTANTS s1, s2, m1, m2, a1, k1, k2

MCManualEdges == {<<s1, a1>>}
=============================================================================
