--------------------------- MODULE MCEthTxManager ---------------------------
(* Two requests of one owner.                                               *)
EXTENDS EthTxManager

CONSTANTS i1, i2, w1

MCOneOwner == [id \in Id |-> w1]
=============================================================================
