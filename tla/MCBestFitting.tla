--------------------------- MODULE MCBestFitting ---------------------------
(* Three goroutines search lists of five transactions: two of them have two *)
(* places to look at, one has one.  Every combination of fitting ones.      *)
EXTENDS BestFitting
=============================================================================
