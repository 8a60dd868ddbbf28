------------------------------- MODULE Worker -------------------------------
(***************************************************************************)
(* The sequencer's worker (worker.go): one queue per sender, the list of   *)
(* ready transactions the finalizer picks from, and the mutex that guards  *)
(* both.  Its callers are the pool loader (AddTxTracker), the finalizer    *)
(* and the goroutine that stores executed transactions (everything else),  *)
(* and the expiry goroutine (ExpireTransactions).                          *)
(*                                                                         *)
(* Every action is one critical section.  AddTxTracker releases the mutex  *)
(* while it reads nonce and balance of an unknown sender, so it takes two. *)
(* The two operations that loop over senders in Go's random map order,     *)
(* UpdateAfterSingleSuccessfulTxExecution and ExpireTransactions, take one *)
(* step per sender and keep the mutex until the last.                      *)
(***************************************************************************)
EXTENDS AddrQueue

CONSTANTS
  Nonces,        \* nonces the executor or the state may report
  Balances,      \* balances the executor or the state may report
  Counters,      \* batch resources, as one number
  MaxCounters,   \* batchConstraints: what one transaction may use at most
  PoolCounters,  \* PoolCounters[t]: the resources the pool recorded for t
  InvalidIP,     \* transactions whose IP field is set and not valid
  ForcedTx,      \* transactions that forced batches contain
  RemeasuredTx,  \* bound: transactions whose resources the executor corrects
  MaxPending     \* capacity of the channel of transactions to store: the
                 \* finalizer blocks on it with one more already added

ASSUME WorkerAssumption ==
  /\ Nonces \subseteq Nat
  /\ Balances \subseteq Nat
  /\ Counters \subseteq Nat
  /\ MaxCounters \in Nat
  /\ PoolCounters \in [Tx -> Counters]
  /\ InvalidIP \subseteq Tx
  /\ ForcedTx \subseteq Tx
  /\ MaxPending \in Nat
  /\ Nil \notin Nat
  /\ Nil \notin QueueType

VARIABLES
  pool,          \* pool[a]: the queue of sender a, or Nil
  txSortedList,  \* the ready transactions, by hash and by gas price
  counters,      \* counters[t]: BatchResources of the tracker of t
  adding,        \* the transaction whose sender AddTxTracker is looking up
                 \* with the mutex released, or Nil
  holder,        \* the looping operation that holds the mutex, or "free"
  todo,          \* the senders that operation has still to visit
  reported       \* the transactions the last step hands back to its caller

vars == <<pool, txSortedList, counters, adding, holder, todo, reported>>
lockVars == <<holder, todo>>

Known(a) == pool[a] # Nil

Init ==
  /\ pool = [a \in Addr |-> Nil]
  /\ txSortedList = [list |-> {}, sorted |-> <<>>]
  /\ counters = [t \in Tx |-> PoolCounters[t]]
  /\ adding = Nil
  /\ holder = "free"
  /\ todo = {}
  /\ reported = {}

-----------------------------------------------------------------------------
(***************************************************************************)
(* AddTxTracker.  The pool loader is one goroutine, so it is not called    *)
(* again before it returns.                                                *)
(***************************************************************************)
Rejected(tx) == tx \in InvalidIP \/ PoolCounters[tx] > MaxCounters

\* Invalid IP or out of counters: the caller marks tx as failed.
RejectTx(tx) ==
  /\ holder = "free" /\ adding = Nil
  /\ Rejected(tx)
  /\ reported' = {tx}
  /\ UNCHANGED <<pool, txSortedList, counters, adding, lockVars>>

\* addr.addTx(tx) and the update of the list, for a queue q of tx's sender.
AddToQueue(q, tx) ==
  LET r == addTx(q, tx)
  IN  /\ pool' = [pool EXCEPT ![From[tx]] = r.queue]
      /\ IF r.dropped
         THEN /\ reported' = {tx}
              /\ UNCHANGED <<txSortedList, counters>>
         ELSE /\ txSortedList' = Relist(txSortedList, r.prevReadyTx, r.newReadyTx)
              /\ counters' = [counters EXCEPT ![tx] = PoolCounters[tx]]
              /\ reported' = {r.replacedTx} \ {Nil}

AddTxTracker(tx) ==
  /\ holder = "free" /\ adding = Nil
  /\ ~Rejected(tx)
  /\ Known(From[tx])
  /\ AddToQueue(pool[From[tx]], tx)
  /\ UNCHANGED <<adding, lockVars>>

\* Faulty variant: the sender is looked up although its queue exists.
AddTxTrackerUnlock_Always(tx) ==
  /\ holder = "free" /\ adding = Nil
  /\ ~Rejected(tx)
  /\ adding' = tx
  /\ reported' = {}
  /\ UNCHANGED <<pool, txSortedList, counters, lockVars>>

\* The sender has no queue: unlock and ask the state for nonce and balance.
AddTxTrackerUnlock(tx) ==
  /\ holder = "free" /\ adding = Nil
  /\ ~Rejected(tx)
  /\ ~Known(From[tx])
  /\ adding' = tx
  /\ reported' = {}
  /\ UNCHANGED <<pool, txSortedList, counters, lockVars>>

\* Lock again, install a new queue whatever is there now, and add tx to it.
AddTxTrackerNewQueue(nonce, balance) ==
  /\ holder = "free" /\ adding # Nil
  /\ AddToQueue(newAddrQueue(nonce, balance), adding)
  /\ adding' = Nil
  /\ UNCHANGED lockVars

\* One of the three reads fails: tx is dropped.  The mutex is not needed, so
\* this may happen while another operation holds it.
AddTxTrackerStateError ==
  /\ adding # Nil
  /\ adding' = Nil
  /\ reported' = {adding}
  /\ UNCHANGED <<pool, txSortedList, counters, lockVars>>

-----------------------------------------------------------------------------
(***************************************************************************)
(* applyAddressUpdate.                                                     *)
(***************************************************************************)
applyAddressUpdate(a, nonce, balance) ==
  IF Known(a)
  THEN LET u == updateCurrentNonceBalance(pool[a], nonce, balance)
       IN  /\ pool' = [pool EXCEPT ![a] = u.queue]
           /\ txSortedList' = Relist(txSortedList, u.prevReadyTx, u.newReadyTx)
           /\ reported' = u.txsToDelete
  ELSE /\ reported' = {}
       /\ UNCHANGED <<pool, txSortedList>>

\* Faulty variant: the mutex is not released after the last sender.
Holds_Forever(op, rest) == holder' = op /\ todo' = rest

Holds(op, rest) ==
  /\ holder' = IF rest = {} THEN "free" ELSE op
  /\ todo' = rest

\* The executor touched the addresses `touched'; the sender comes first.
UpdateAfterSingleSuccessfulTxExecution(from, touched, nonce, balance) ==
  /\ holder = "free"
  /\ IF from \in touched
     THEN applyAddressUpdate(from, nonce, balance)
     ELSE reported' = {} /\ UNCHANGED <<pool, txSortedList>>
  /\ Holds("touched", touched \ {from})
  /\ UNCHANGED <<counters, adding>>

\* Its loop over the other touched addresses: only their balance counts.
UpdateTouchedAddress(a, balance) ==
  /\ holder = "touched" /\ a \in todo
  /\ applyAddressUpdate(a, Nil, balance)
  /\ Holds("touched", todo \ {a})
  /\ UNCHANGED <<counters, adding>>

MoveTxToNotReady(from, actualNonce, actualBalance) ==
  /\ holder = "free"
  /\ applyAddressUpdate(from, actualNonce, actualBalance)
  /\ UNCHANGED <<counters, adding, lockVars>>

-----------------------------------------------------------------------------
(***************************************************************************)
(* The operations on one known transaction.  Each does nothing but log     *)
(* when the sender has no queue.                                           *)
(***************************************************************************)
\* Faulty variant: the transaction stays in the list.
DeleteTx_KeepsListed(tx, a) ==
  /\ holder = "free" /\ Known(a)
  /\ pool' = [pool EXCEPT ![a] = deleteTx(@, tx)]
  /\ reported' = {tx}
  /\ UNCHANGED <<txSortedList, counters, adding, lockVars>>

DeleteTx(tx, a) ==
  /\ holder = "free" /\ Known(a)
  /\ pool' = [pool EXCEPT ![a] = deleteTx(@, tx)]
  /\ txSortedList' = Relist(txSortedList,
                            IF pool[a].readyTx = tx THEN tx ELSE Nil, Nil)
  /\ reported' = {tx}
  /\ UNCHANGED <<counters, adding, lockVars>>

EditQueue(a, q) ==
  /\ holder = "free" /\ Known(a)
  /\ pool' = [pool EXCEPT ![a] = q]
  /\ reported' = {}
  /\ UNCHANGED <<txSortedList, counters, adding, lockVars>>

AddForcedTx(tx, a) == EditQueue(a, addForcedTx(pool[a], tx))
DeleteForcedTx(tx, a) == EditQueue(a, deleteForcedTx(pool[a], tx))
AddPendingTxToStore(tx, a) == EditQueue(a, addPendingTxToStore(pool[a], tx))
DeletePendingTxToStore(tx, a) == EditQueue(a, deletePendingTxToStore(pool[a], tx))

UpdateTxZKCounters(tx, a, c) ==
  /\ holder = "free" /\ Known(a)
  /\ tx = pool[a].readyTx \/ tx \in pool[a].notReadyTxs
  /\ counters' = [counters EXCEPT ![tx] = c]
  /\ reported' = {}
  /\ UNCHANGED <<pool, txSortedList, adding, lockVars>>

-----------------------------------------------------------------------------
(***************************************************************************)
(* ExpireTransactions: one step per queue, then the queue itself goes when *)
(* nothing is left in it.                                                  *)
(***************************************************************************)
ExpireTransactions ==
  /\ holder = "free"
  /\ Holds("expire", {a \in Addr : Known(a)})
  /\ reported' = {}
  /\ UNCHANGED <<pool, txSortedList, counters, adding>>

ExpireAddress(a) ==
  /\ holder = "expire" /\ a \in todo
  /\ \E old \in SUBSET pool[a].notReadyTxs, readyIsOld \in BOOLEAN :
       LET q    == ExpireQueue(pool[a], old, readyIsOld)
           prev == IF readyIsOld THEN pool[a].readyTx ELSE Nil
       IN  /\ pool' = [pool EXCEPT ![a] = IF IsEmpty(q) THEN Nil ELSE q]
           /\ txSortedList' = Relist(txSortedList, prev, Nil)
           /\ reported' = old \cup ({prev} \ {Nil})
  /\ Holds("expire", todo \ {a})
  /\ UNCHANGED <<counters, adding>>

-----------------------------------------------------------------------------
\* GetBestFittingTx: the first transaction of the list that fits into what
\* is left of the batch.  It changes nothing.
Fits(tx, remaining) == counters[tx] <= remaining

\* Faulty variant: the first of the list, fitting or not.
GetBestFittingTx_First(remaining) ==
  IF txSortedList.sorted = <<>> THEN Nil ELSE Head(txSortedList.sorted)

GetBestFittingTx(remaining) ==
  LET s == txSortedList.sorted
      i == Search(s, LAMBDA t : Fits(t, remaining))
  IN  IF i > Len(s) THEN Nil ELSE s[i]

AddNext ==
  \/ \E tx \in Tx : RejectTx(tx) \/ AddTxTracker(tx) \/ AddTxTrackerUnlock(tx)
  \/ \E n \in Nonces, b \in Balances : AddTxTrackerNewQueue(n, b)
  \/ AddTxTrackerStateError

\* Executing transactions never lowers a nonce, and a queue starts from a
\* nonce of an earlier state: the executor reports none below the queue's.
ReportableNonces(a) ==
  {n \in Nonces : Known(a) => n >= pool[a].currentNonce} \cup {Nil}

UpdateNext ==
  \E a \in Addr, b \in Balances \cup {Nil} :
    \/ \E touched \in SUBSET Addr, n \in ReportableNonces(a) :
         UpdateAfterSingleSuccessfulTxExecution(a, touched, n, b)
    \/ UpdateTouchedAddress(a, b)
    \/ \E n \in ReportableNonces(a) : MoveTxToNotReady(a, n, b)

PendingTxs == UNION {pool[a].pendingTxsToStore : a \in {b \in Addr : Known(b)}}

\* The callers pass the sender of the transaction.
EditNext ==
  \E tx \in Tx :
    \/ DeleteTx(tx, From[tx])
    \/ tx \in ForcedTx /\ AddForcedTx(tx, From[tx])
    \/ tx \in ForcedTx /\ DeleteForcedTx(tx, From[tx])
    \/ Cardinality(PendingTxs) <= MaxPending /\ AddPendingTxToStore(tx, From[tx])
    \/ DeletePendingTxToStore(tx, From[tx])
    \/ tx \in RemeasuredTx /\ \E c \in Counters : UpdateTxZKCounters(tx, From[tx], c)

ExpireNext ==
  \/ ExpireTransactions
  \/ \E a \in Addr : ExpireAddress(a)

Next == AddNext \/ UpdateNext \/ EditNext \/ ExpireNext

Spec == Init /\ [][Next]_vars

-----------------------------------------------------------------------------
(***************************************************************************)
(* Properties.                                                             *)
(***************************************************************************)

\* Every variable has its type; the mutex is held exactly while a loop has
\* senders left to visit.
TypeOK ==
  /\ pool \in [Addr -> QueueType \cup {Nil}]
  /\ txSortedList \in ListType
  /\ counters \in [Tx -> Nat]
  /\ adding \in Tx \cup {Nil}
  /\ holder \in {"free", "touched", "expire"}
  /\ todo \in SUBSET Addr
  /\ reported \in SUBSET Tx
  /\ holder = "free" <=> todo = {}

\* The transactions in the queue of sender a.
Held(a) == pool[a].notReadyTxs \cup ({pool[a].readyTx} \ {Nil})

ReadyTxs == {pool[a].readyTx : a \in {b \in Addr : Known(b)}} \ {Nil}

\* What the finalizer can pick is exactly what the queues hold as ready: no
\* ready transaction is missing from the list (it would never be executed)
\* and none is left in it after its queue dropped it.
ListIsReady == txSortedList.list = ReadyTxs

\* The slice agrees with the map, every listed transaction once and no other,
\* and is in descending gas price: both binary searches of the list rely on
\* the order, and so delete always finds what it looks for.
SliceIsSorted ==
  LET s == txSortedList.sorted
  IN  /\ ToSet(s) = txSortedList.list
      /\ \A i, j \in DOMAIN s : s[i] = s[j] => i = j
      /\ \A i, j \in DOMAIN s : i < j => GasPrice[s[i]] >= GasPrice[s[j]]

\* A queue holds its own sender's transactions.  The ready one can run at the
\* nonce and balance the queue knows; the others are not below that nonce, and
\* no two have the same: replacing by nonce replaces at most one.
QueueFollowsNonces ==
  \A a \in Addr : Known(a) =>
    /\ \A t \in Held(a) : From[t] = a
    /\ pool[a].readyTx # Nil =>
         /\ Nonce[pool[a].readyTx] = pool[a].currentNonce
         /\ Cost[pool[a].readyTx] <= pool[a].currentBalance
    /\ \A t \in pool[a].notReadyTxs : Nonce[t] >= pool[a].currentNonce
    /\ \A t, u \in pool[a].notReadyTxs : Nonce[t] = Nonce[u] => t = u

\* While AddTxTracker looks up an unknown sender with the mutex released,
\* nobody else creates that sender's queue, so installing the new one
\* overwrites nothing.
NewQueueOverwritesNothing == adding # Nil => ~Known(From[adding])

\* GetBestFittingTx returns a ready transaction that fits and that no other
\* fitting ready transaction outbids; it returns none only when none fits.
BestFittingIsBest ==
  \A c \in Counters :
    LET best == GetBestFittingTx(c)
        fitting == {t \in ReadyTxs : Fits(t, c)}
    IN  IF fitting = {} THEN best = Nil
        ELSE /\ best \in fitting
             /\ \A t \in fitting : GasPrice[t] <= GasPrice[best]

\* A step may take a transaction out of its queue without handing it back to
\* a caller only if the nonce of the queue has reached it: a transaction
\* that waits for a future nonce is never lost.
KeepsFutureTxs ==
  \A a \in Addr : Known(a) =>
    \A t \in Held(a) :
      \/ t \in reported'
      \/ Known(a)' /\ t \in Held(a)'
      \/ Known(a)' /\ Nonce[t] <= pool'[a].currentNonce
FutureTxsAreKept == [][KeepsFutureTxs]_vars
=============================================================================
