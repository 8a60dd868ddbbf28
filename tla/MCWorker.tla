------------------------------ MODULE MCWorker ------------------------------
(* The worker with two senders: three transactions of one of them, two of   *)
(* which compete for the same nonce, and one of the other, at the price of  *)
(* a rival.  bad is refused: its IP is not valid.                           *)
EXTENDS Worker

CONSTANTS alice, bob, a1, a2, a3, b1, bad

MCFrom == (a1 :> alice) @@ (a2 :> alice) @@ (a3 :> alice) @@ (b1 :> bob) @@ (bad :> bob)
MCNonce == (a1 :> 0) @@ (a2 :> 0) @@ (a3 :> 1) @@ (b1 :> 0) @@ (bad :> 0)
MCGasPrice == (a1 :> 1) @@ (a2 :> 2) @@ (a3 :> 1) @@ (b1 :> 1) @@ (bad :> 1)
MCCost == (a1 :> 2) @@ (a2 :> 2) @@ (a3 :> 1) @@ (b1 :> 1) @@ (bad :> 1)
MCPoolCounters == (a1 :> 1) @@ (a2 :> 2) @@ (a3 :> 1) @@ (b1 :> 1) @@ (bad :> 1)
=============================================================================
