---------------------------- MODULE MCAggregator ----------------------------
(* Two provers and two batches, in one sequence or in two.                  *)
EXTENDS Aggregator

CONSTANTS p1, p2
=============================================================================
