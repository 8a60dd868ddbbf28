------------------------------ MODULE MCL1Sync ------------------------------
(* The reader of L1 on a short chain: two workers, ranges of two blocks, a   *)
(* channel of two messages.  The first events are in the last block of a     *)
(* range, or in one before it.                                               *)
EXTENDS L1Sync

MCPatterns == {{4, 6}, {3, 6}}
=============================================================================
