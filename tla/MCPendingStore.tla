--------------------------- MODULE MCPendingStore ---------------------------
(* Two transactions of the pool and one forced batch of two, through a      *)
(* channel that holds one.                                                  *)
EXTENDS PendingStore

CONSTANTS t1, t2, f1, f2

MCForcedBatches == <<<<f1, f2>>>>
MCNoForcedBatches == <<>>
=============================================================================
