----------------------------- MODULE AddrQueue -----------------------------
(***************************************************************************)
(* The transactions the sequencer holds for one sender (addrqueue.go) and  *)
(* the price-ordered list of the ready ones (txsorted_list.go), as         *)
(* operators on values.  The Worker module keeps one queue per sender and  *)
(* one list, and applies these operators under its mutex.                  *)
(*                                                                         *)
(* A transaction is identified by its hash, so two trackers are the same   *)
(* transaction exactly when the Go code finds their HashStr equal.         *)
(***************************************************************************)
EXTENDS Integers, SequencesExt

CONSTANTS
  Addr,      \* sender addresses
  Tx,        \* transaction hashes
  Nil,       \* Go's nil: no transaction, no queue, no nonce, no balance
  From,      \* From[t]: the sender of t
  Nonce,     \* Nonce[t]: the nonce t was signed with
  GasPrice,  \* GasPrice[t]
  Cost       \* Cost[t]: the balance the sender needs to run t

ASSUME TxAssumption ==
  /\ From \in [Tx -> Addr]
  /\ Nonce \in [Tx -> Nat]
  /\ GasPrice \in [Tx -> Nat]
  /\ Cost \in [Tx -> Nat]
  /\ Nil \notin Tx

(***************************************************************************)
(* notReadyTxs is a Go map keyed by nonce whose entry for nonce n always   *)
(* holds a transaction signed with n; here it is the set of its values.    *)
(***************************************************************************)
QueueType ==
  [currentNonce : Nat, currentBalance : Nat, readyTx : Tx \cup {Nil},
   notReadyTxs : SUBSET Tx, forcedTxs : SUBSET Tx,
   pendingTxsToStore : SUBSET Tx]

newAddrQueue(nonce, balance) ==
  [currentNonce |-> nonce, currentBalance |-> balance, readyTx |-> Nil,
   notReadyTxs |-> {}, forcedTxs |-> {}, pendingTxsToStore |-> {}]

\* The map lookup notReadyTxs[n]: a set with no or one transaction.
NotReadyAt(a, n) == {t \in a.notReadyTxs : Nonce[t] = n}

\* The map assignment notReadyTxs[tx.Nonce] = tx.
PutNotReady(txs, tx) == {t \in txs : Nonce[t] # Nonce[tx]} \cup {tx}

\* Faulty variant: the transactions that wait are forgotten.
IsEmpty_IgnoresWaiting(a) ==
  a.readyTx = Nil /\ a.forcedTxs = {} /\ a.pendingTxsToStore = {}

IsEmpty(a) ==
  /\ a.readyTx = Nil
  /\ a.notReadyTxs = {}
  /\ a.forcedTxs = {}
  /\ a.pendingTxsToStore = {}

(***************************************************************************)
(* addTx returns the new queue, the transaction that becomes ready, the    *)
(* one that was ready before, the one to mark as replaced in the pool, and *)
(* whether the new transaction is refused.                                 *)
(***************************************************************************)
AddTxResult(a, new, prev, replaced, drop) ==
  [queue |-> a, newReadyTx |-> new, prevReadyTx |-> prev,
   replacedTx |-> replaced, dropped |-> drop]

\* A transaction that reaches the queue again does not replace itself.
Replaced(old, tx) == IF old = tx THEN Nil ELSE old

\* Faulty variant: the balance is not looked at.
addTxAtCurrentNonce_AnyBalance(a, tx) ==
  IF a.readyTx # Nil /\ GasPrice[tx] < GasPrice[a.readyTx]
  THEN AddTxResult(a, Nil, Nil, Nil, TRUE)
  ELSE AddTxResult([a EXCEPT !.readyTx = tx], tx, a.readyTx,
                   Replaced(a.readyTx, tx), FALSE)

addTxAtCurrentNonce(a, tx) ==
  LET old == a.readyTx
      rep == Replaced(old, tx)
  IN  IF old # Nil /\ GasPrice[tx] < GasPrice[old]
      THEN AddTxResult(a, Nil, Nil, Nil, TRUE)
      ELSE IF a.currentBalance >= Cost[tx]
      THEN AddTxResult([a EXCEPT !.readyTx = tx], tx, old, rep, FALSE)
      ELSE AddTxResult([a EXCEPT !.readyTx = Nil,
                                 !.notReadyTxs = PutNotReady(@, tx)],
                       Nil, old, rep, FALSE)

addTxAtFutureNonce(a, tx) ==
  LET here == NotReadyAt(a, Nonce[tx])
      old  == IF here = {} THEN Nil ELSE CHOOSE t \in here : TRUE
  IN  IF old # Nil /\ GasPrice[tx] < GasPrice[old]
      THEN AddTxResult(a, Nil, Nil, Nil, TRUE)
      ELSE AddTxResult([a EXCEPT !.notReadyTxs = PutNotReady(@, tx)],
                       Nil, Nil, Replaced(old, tx), FALSE)

addTx(a, tx) ==
  IF Nonce[tx] = a.currentNonce THEN addTxAtCurrentNonce(a, tx)
  ELSE IF Nonce[tx] < a.currentNonce THEN AddTxResult(a, Nil, Nil, Nil, TRUE)
  ELSE addTxAtFutureNonce(a, tx)

addForcedTx(a, tx) == [a EXCEPT !.forcedTxs = @ \cup {tx}]

addPendingTxToStore(a, tx) == [a EXCEPT !.pendingTxsToStore = @ \cup {tx}]

\* old: the not ready transactions received longer than maxTime ago;
\* readyIsOld: whether the ready one was.
ExpireQueue(a, old, readyIsOld) ==
  [a EXCEPT !.readyTx = IF readyIsOld THEN Nil ELSE @,
            !.notReadyTxs = @ \ old]

deleteTx(a, tx) ==
  IF a.readyTx = tx
  THEN [a EXCEPT !.readyTx = Nil]
  ELSE [a EXCEPT !.notReadyTxs = @ \ {tx}]

deleteForcedTx(a, tx) == [a EXCEPT !.forcedTxs = @ \ {tx}]

deletePendingTxToStore(a, tx) == [a EXCEPT !.pendingTxsToStore = @ \ {tx}]

(***************************************************************************)
(* updateCurrentNonceBalance, in the order of the code: the new nonce and  *)
(* balance, the not ready transactions the nonce has passed, the ready     *)
(* transaction that no longer fits them, the promotion of a not ready one, *)
(* and last the return of the old ready transaction to notReadyTxs.        *)
(***************************************************************************)
updateCurrentNonceBalance(a, nonce, balance) ==
  LET bal     == IF balance = Nil THEN a.currentBalance ELSE balance
      cur     == IF nonce = Nil THEN a.currentNonce ELSE nonce
      passed  == IF cur = a.currentNonce THEN {}
                 ELSE {t \in a.notReadyTxs : Nonce[t] < cur}
      waiting == a.notReadyTxs \ passed
      keep    == /\ a.readyTx # Nil
                 /\ Nonce[a.readyTx] = cur
                 /\ Cost[a.readyTx] <= bal
      old     == IF keep THEN Nil ELSE a.readyTx
      promote == {t \in waiting : ~keep /\ Nonce[t] = cur /\ Cost[t] <= bal}
      ready   == IF keep THEN a.readyTx
                 ELSE IF promote = {} THEN Nil
                 ELSE CHOOSE t \in promote : TRUE
      rest    == waiting \ promote
      kept    == IF old # Nil /\ Nonce[old] > cur
                 THEN PutNotReady(rest, old) ELSE rest
  IN  [queue |-> [a EXCEPT !.currentNonce = cur, !.currentBalance = bal,
                           !.readyTx = ready, !.notReadyTxs = kept],
       newReadyTx |-> ready, prevReadyTx |-> old, txsToDelete |-> passed]

-----------------------------------------------------------------------------
(***************************************************************************)
(* txSortedList: the hash-indexed map as a set, and the slice kept in      *)
(* descending gas price.                                                   *)
(***************************************************************************)
ListType == [list : SUBSET Tx, sorted : Seq(Tx)]

\* Go's sort.Search: the first index at which Test holds, one past the end
\* when it holds nowhere.  (Its binary search needs Test to be monotone.)
Search(s, Test(_)) ==
  LET hits == {i \in 1..Len(s) : Test(s[i])}
  IN  IF hits = {} THEN Len(s) + 1
      ELSE CHOOSE i \in hits : \A j \in hits : i <= j

\* addSort: behind every transaction of the same or a better price.
SlotFor(s, tx) == Search(s, LAMBDA t : GasPrice[tx] > GasPrice[t])

listAdd(l, tx) ==
  IF tx \in l.list THEN l
  ELSE [list |-> l.list \cup {tx},
        sorted |-> InsertAt(l.sorted, SlotFor(l.sorted, tx), tx)]

\* The indices at which delete may find tx: it searches the first
\* transaction of the same price and walks the run of that price.
FoundAt(s, tx) ==
  LET first == Search(s, LAMBDA t : GasPrice[tx] >= GasPrice[t])
  IN  {i \in first..Len(s) :
         /\ s[i] = tx
         /\ \A k \in first..i : GasPrice[s[k]] = GasPrice[tx]}

\* Faulty variant: the first of the same price is removed, whatever it is.
listDelete_First(l, tx) ==
  LET first == Search(l.sorted, LAMBDA t : GasPrice[tx] >= GasPrice[t])
  IN  IF tx \notin l.list THEN l
      ELSE [list |-> l.list \ {tx}, sorted |-> RemoveAt(l.sorted, first)]

listDelete(l, tx) ==
  LET at == FoundAt(l.sorted, tx)
  IN  IF tx \notin l.list \/ at = {} THEN l
      ELSE [list |-> l.list \ {tx},
            sorted |-> RemoveAt(l.sorted,
                                CHOOSE i \in at : \A j \in at : i <= j)]

\* What every worker operation does with the list after changing a queue:
\* drop the transaction that was ready, add the one that is.
Relist(l, prev, new) ==
  LET d == IF prev = Nil THEN l ELSE listDelete(l, prev)
  IN  IF new = Nil THEN d ELSE listAdd(d, new)
=============================================================================
