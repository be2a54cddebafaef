---------------------------- MODULE MCAggregator ----------------------------
(***************************************************************************)
(* Instances of Aggregator for TLC: three producers, words of 5 and 8      *)
(* bits, and a conversion that keeps values, as from an In to itself.      *)
(***************************************************************************)
EXTENDS Aggregator

MCValues == {1, 2}

MCSameType == [v \in MCValues |-> v]
=============================================================================
