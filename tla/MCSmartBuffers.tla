--------------------------- MODULE MCSmartBuffers ---------------------------
(***************************************************************************)
(* Instances of SmartBuffers for TLC: two blocks, two threads, a handful   *)
(* of buffers of each kind.                                                *)
(***************************************************************************)
EXTENDS SmartBuffers

CONSTANTS b1, b2

MCFreeBlocks == <<b1, b2>>
=============================================================================
