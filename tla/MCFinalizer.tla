----------------------------- MODULE MCFinalizer -----------------------------
(* Two transactions that fill a batch, unless the first has to be executed   *)
(* twice, two forced batches (none with the parallel check) and one GER.     *)
EXTENDS Finalizer

MCCost == [t \in Txs |-> IF t = 1 THEN 3 ELSE 1]
MCForcedBound == [m \in Modes |-> IF m THEN MaxForced ELSE 0]
=============================================================================
